--------------------------- MODULE AccountsProofs ---------------------------
(***************************************************************************)
(* Proofs about Accounts, for any requests, addresses and passwords: types, *)
(* one account per address, verified plans, deletions that stand, a linked  *)
(* and complete audit log, and counted toggles.                             *)
(***************************************************************************)
EXTENDS Accounts, FiniteSetTheorems, TLAPS

-----------------------------------------------------------------------------
(* The fields of requests and rows.                                        *)

LEMMA AskFields ==
  ASSUME NEW a \in Ask \cup {NoAsk}
  PROVE  /\ a.op \in {"register", "login"} => a.email \in Emails /\ a.password \in Passwords
         /\ a.op \in ByToken => a.token \in Token
         /\ a.op \in {"change", "reset"} => a.password \in Passwords
         /\ a.op = "order" => a.plan \in PaidPlans
         /\ a.op = "verify" => a.plan \in PaidPlans
  BY DEF Ask, NoAsk, ByToken

LEMMA TokenFields ==
  /\ \A t \in Token : t.sub \in Ids
  /\ \A u \in Ids : Tokens(u) \subseteq Token /\ [type |-> "reset", sub |-> u] \in Token
  BY DEF Token, Tokens

LEMMA FreshFields ==
  ASSUME NEW e \in Emails, NEW p \in Passwords
  PROVE  /\ Fresh(e, p) \in User
         /\ Fresh(e, p).email = e /\ Fresh(e, p).plan = "free" /\ Fresh(e, p).ruleActive
  BY DEF Fresh, User, Plans

LEMMA EditFields ==
  ASSUME NEW w \in User
  PROVE  /\ \A p \in Passwords :
              LET n == [w EXCEPT !.password = p] IN
              n \in User /\ n.email = w.email /\ n.plan = w.plan /\ n.ruleActive = w.ruleActive
         /\ \A p \in Plans :
              LET n == [w EXCEPT !.plan = p] IN
              n \in User /\ n.email = w.email /\ n.plan = p /\ n.ruleActive = w.ruleActive
         /\ \A b \in BOOLEAN :
              LET n == [w EXCEPT !.ruleActive = b] IN
              n \in User /\ n.email = w.email /\ n.plan = w.plan /\ n.ruleActive = b
  BY DEF User

-----------------------------------------------------------------------------
(* What a request knows when it writes.                                    *)

Reads ==
    \A r \in Requests :
        /\ pc[r] \in {"read", "upgraded", "done"} /\ req[r].op # "register" => got[r] # None
        /\ pc[r] = "upgraded" => req[r].op = "verify"
        /\ pc[r] \in {"idle", "open"} => got[r] = None

LEMMA GotTypes ==
  ASSUME TypeOK, NEW r \in Requests, got[r] # None
  PROVE  got[r].id \in Ids /\ got[r].row \in User
  BY DEF TypeOK, Read

LEMMA WriterGot ==
  ASSUME TypeOK, Reads, NEW r \in Requests, pc[r] \in {"read", "upgraded"}, req[r].op # "register"
  PROVE  got[r] # None /\ got[r].id \in Ids /\ got[r].row \in User
  BY GotTypes DEF Reads

LEMMA RequestFields ==
  ASSUME TypeOK, NEW r \in Requests
  PROVE  /\ req[r].op \in {"register", "login"}
               => req[r].email \in Emails /\ req[r].password \in Passwords
         /\ req[r].op \in ByToken => req[r].token \in Token
         /\ req[r].op \in {"change", "reset"} => req[r].password \in Passwords
         /\ req[r].op = "order" => req[r].plan \in PaidPlans
         /\ req[r].op = "verify" => req[r].plan \in PaidPlans
<1>1. req[r] \in Ask \cup {NoAsk}
  BY DEF TypeOK
<1> QED BY <1>1, AskFields

LEMMA SubjectTypes ==
  ASSUME TypeOK, NEW r \in Requests, NEW u \in Subject(r)
  PROVE  u \in Ids /\ users[u] \in User /\ (req[r].op \in ByToken => u = req[r].token.sub)
<1>1. u \in Ids /\ Exists(u) /\ (req[r].op \in ByToken => u = req[r].token.sub)
  BY RequestFields, TokenFields DEF Subject, Holders
<1> QED BY <1>1 DEF TypeOK, Exists

\* The rows after a request has written.
Written(r) ==
    \/ users' = users
    \/ /\ req[r].op = "register" /\ Holders(req[r].email) = {} /\ pc[r] = "read"
       /\ users' = [users EXCEPT ![r] = Fresh(req[r].email, req[r].password)]
    \/ /\ req[r].op = "delete"
       /\ users' = [users EXCEPT ![got[r].id] = None]
    \/ /\ req[r].op # "register" /\ got[r] # None
       /\ Exists(got[r].id)
       /\ \E n \in User : 
             /\ users' = [users EXCEPT ![got[r].id] = n]
             /\ n.email = users[got[r].id].email
             /\ \/ n.plan = users[got[r].id].plan
                \/ Upgrade(r) /\ n.plan = req[r].plan
             /\ req[r].op # "toggle" => n.ruleActive = users[got[r].id].ruleActive

LEMMA WritesWrite ==
  ASSUME TypeOK, Reads, NEW r \in Requests,
         Register(r) \/ SetPassword(r) \/ Toggle(r) \/ Delete(r) \/ Upgrade(r)
  PROVE  Written(r)
<1>1. ASSUME req[r].op # "register", pc[r] = "read" 
      PROVE  got[r] # None /\ got[r].id \in Ids /\ got[r].row \in User
  BY <1>1, WriterGot
<1>2. CASE Register(r)
  BY <1>2 DEF Register, Commit, Is, Written
<1>3. CASE Delete(r)
  BY <1>3 DEF Delete, Commit, Is, Written
<1>4. ASSUME ~Gone(r), got[r].id \in Ids PROVE users[got[r].id] \in User /\ Exists(got[r].id)
  BY <1>4 DEF Gone, Exists, TypeOK
<1>5. CASE SetPassword(r)
  <2>1. req[r].op \in {"change", "reset"} /\ req[r].password \in Passwords
    BY <1>5, RequestFields DEF SetPassword, Is
  <2>2. got[r] # None /\ users[got[r].id] \in User /\ Exists(got[r].id)
    BY <1>1, <1>4, <1>5, <2>1 DEF SetPassword, Is
  <2>3. users' = [users EXCEPT ![got[r].id] = [users[got[r].id] EXCEPT !.password = req[r].password]]
    BY <1>5, <1>1, <2>1 DEF SetPassword, Commit, Is, TypeOK
  <2> DEFINE n == [users[got[r].id] EXCEPT !.password = req[r].password]
  <2>4. /\ n \in User /\ n.email = users[got[r].id].email /\ n.plan = users[got[r].id].plan
        /\ n.ruleActive = users[got[r].id].ruleActive
    BY <2>1, <2>2, EditFields
  <2>5. users' = [users EXCEPT ![got[r].id] = n]
    BY <2>3
  <2> HIDE DEF n
  <2> QED BY <2>1, <2>2, <2>4, <2>5 DEF Written
<1>6. CASE Toggle(r)
  <2>1. req[r].op = "toggle"
    BY <1>6 DEF Toggle, Is
  <2>2. got[r] # None /\ users[got[r].id] \in User /\ Exists(got[r].id)
    BY <1>1, <1>4, <1>6, <2>1 DEF Toggle, Is
  <2>3. users' = [users EXCEPT ![got[r].id] = [users[got[r].id] EXCEPT !.ruleActive = ~got[r].row.ruleActive]]
    BY <1>6, <1>1, <2>1 DEF Toggle, Commit, Is, TypeOK
  <2>4. (~got[r].row.ruleActive) \in BOOLEAN
    OBVIOUS
  <2> QED BY <2>1, <2>2, <2>3, <2>4, EditFields DEF Written
<1>7. CASE Upgrade(r)
  <2>1. req[r].op = "verify"
    BY <1>7 DEF Upgrade, Is
  <2>2. got[r] # None /\ users[got[r].id] \in User /\ Exists(got[r].id)
    BY <1>1, <1>4, <1>7, <2>1 DEF Upgrade, Is
  <2>3. req[r].plan \in Plans
    BY <2>1, RequestFields DEF Plans
  <2>4. CASE users' = users
    BY <2>4 DEF Written
  <2>5. CASE users' = [users EXCEPT ![got[r].id].plan = req[r].plan]
    <3>1. users' = [users EXCEPT ![got[r].id] = [users[got[r].id] EXCEPT !.plan = req[r].plan]]
      BY <2>5
    <3> DEFINE n == [users[got[r].id] EXCEPT !.plan = req[r].plan]
    <3>2. /\ n \in User /\ n.email = users[got[r].id].email /\ n.plan = req[r].plan
          /\ n.ruleActive = users[got[r].id].ruleActive
      BY <2>2, <2>3, EditFields
    <3>3. users' = [users EXCEPT ![got[r].id] = n]
      BY <3>1
    <3> HIDE DEF n
    <3> QED BY <1>7, <2>1, <2>2, <3>2, <3>3 DEF Written
  <2> QED BY <1>7, <2>4, <2>5 DEF Upgrade
<1> QED BY <1>2, <1>3, <1>5, <1>6, <1>7

LEMMA WrittenTypes ==
  ASSUME TypeOK, Reads, NEW r \in Requests, Written(r)
  PROVE  users' \in [Ids -> User \cup {None}]
  BY RequestFields, FreshFields DEF Written, TypeOK, Ids

-----------------------------------------------------------------------------
(* Types.                                                                  *)

Entry == [by : Requests, user : Ids, action : {"register", "login", "change", "verify"}]

LEMMA LogTypes ==
  ASSUME TypeOK, NEW r \in Requests, NEW u \in Ids,
         req[r].op \in {"register", "login", "change", "verify"}
  PROVE  Log(r, u) \subseteq Entry
  BY DEF TypeOK, Log, Entry

LEMMA CommitTypes ==
  ASSUME TypeOK, Reads, NEW r \in Requests, NEW T, Commit(r, users', audit', T), Written(r),
         audit' \subseteq Entry, T \subseteq Token, toggled' \in [Ids -> Nat]
  PROVE  TypeOK'
<1>1. users' \in [Ids -> User \cup {None}]
  BY WrittenTypes
<1> QED BY <1>1 DEF Commit, TypeOK, Entry

LEMMA ToggledTypes ==
  ASSUME TypeOK, NEW u \in Ids
  PROVE  [toggled EXCEPT ![u] = @ + 1] \in [Ids -> Nat]
  BY DEF TypeOK

LEMMA TypeInit == Init => TypeOK
<1> SUFFICES ASSUME Init PROVE TypeOK
  OBVIOUS
<1>1. users \in [Ids -> User \cup {None}]
  BY FreshFields DEF Init
<1>2. issued \subseteq Token
  BY TokenFields DEF Init, Ids
<1> QED BY <1>1, <1>2 DEF Init, TypeOK

LEMMA TypeStep == TypeOK /\ Reads /\ [Next]_vars => TypeOK'
<1> SUFFICES ASSUME TypeOK, Reads, [Next]_vars PROVE TypeOK'
  OBVIOUS
<1>1. toggled \in [Ids -> Nat] /\ audit \subseteq Entry
  BY DEF TypeOK, Entry
<1>2. CASE UNCHANGED vars
  BY <1>2 DEF vars, rows, TypeOK
<1>3. ASSUME NEW r \in Requests, NEW ask \in Ask, Arrive(r, ask) PROVE TypeOK'
  BY <1>3 DEF Arrive, rows, TypeOK
<1>4. ASSUME NEW r \in Requests, Fail(r) PROVE TypeOK'
  BY <1>4 DEF Fail, rows, TypeOK
<1>5. ASSUME NEW r \in Requests, Select(r) PROVE TypeOK'
  <2>1. PICK u \in Subject(r) :
           /\ got' = [got EXCEPT ![r] = [id |-> u, row |-> users[u]]]
           /\ crossed' \in {crossed, crossed \cup {u}}
    BY <1>5 DEF Select
  <2>2. u \in Ids /\ users[u] \in User
    BY SubjectTypes
  <2> QED BY <1>5, <2>1, <2>2 DEF Select, rows, TypeOK, Read
<1>6. ASSUME NEW r \in Requests, SelectNobody(r) PROVE TypeOK'
  BY <1>6 DEF SelectNobody, rows, TypeOK
<1>7. ASSUME NEW r \in Requests, Register(r) PROVE TypeOK'
  <2>1. r \in Ids /\ Log(r, r) \subseteq Entry /\ Tokens(r) \subseteq Token
    BY <1>7, LogTypes, TokenFields DEF Register, Is, Ids
  <2>2. Commit(r, users', audit', Tokens(r)) /\ audit' \subseteq Entry /\ toggled' = toggled
    BY <1>7, <2>1 DEF Register, Commit
  <2> QED BY <1>1, <1>7, <2>1, <2>2, WritesWrite, CommitTypes
<1>8. ASSUME NEW r \in Requests, Login(r) \/ Refresh(r) \/ Forgot(r) PROVE TypeOK'
  <2>1. got[r].id \in Ids
    BY <1>8, WriterGot DEF Login, Refresh, Forgot, Is
  <2>2. Tokens(got[r].id) \subseteq Token /\ [type |-> "reset", sub |-> got[r].id] \in Token
    BY <2>1, TokenFields
  <2>3. ASSUME NEW T \in SUBSET Token, Commit(r, users, audit', T), audit' \subseteq Entry,
               toggled' = toggled
        PROVE  TypeOK'
    BY <1>1, <2>3, CommitTypes DEF Commit, Written
  <2>4. CASE Login(r)
    <3>1. Log(r, got[r].id) \subseteq Entry
      BY <2>1, <2>4, LogTypes DEF Login, Is
    <3> QED BY <2>2, <2>3, <2>4, <3>1 DEF Login, Commit
  <2>5. CASE Refresh(r)
    BY <1>1, <2>2, <2>3, <2>5 DEF Refresh, Commit
  <2>6. CASE Forgot(r)
    <3>1. PICK sent \in SUBSET {[type |-> "reset", sub |-> got[r].id]} :
             Commit(r, users, audit, sent)
      BY <2>6 DEF Forgot
    <3> QED BY <1>1, <2>2, <2>3, <2>6, <3>1 DEF Forgot, Commit
  <2> QED BY <1>8, <2>4, <2>5, <2>6
<1>9. ASSUME NEW r \in Requests, SetPassword(r) PROVE TypeOK'
  <2>1. got[r].id \in Ids
    BY <1>9, WriterGot DEF SetPassword, Is
  <2>2. (IF req[r].op = "change" THEN Log(r, got[r].id) ELSE audit) \subseteq Entry
    BY <1>1, <2>1, LogTypes
  <2>3. Commit(r, users', audit', {}) /\ audit' \subseteq Entry /\ toggled' = toggled
    BY <1>9, <2>2 DEF SetPassword, Commit
  <2> QED BY <1>1, <1>9, <2>3, WritesWrite, CommitTypes
<1>10. ASSUME NEW r \in Requests, Toggle(r) PROVE TypeOK'
  <2>1. got[r].id \in Ids
    BY <1>10, WriterGot DEF Toggle, Is
  <2>2. toggled' \in [Ids -> Nat]
    BY <1>10, <2>1, ToggledTypes DEF Toggle
  <2>3. Commit(r, users', audit', {}) /\ audit' = audit
    BY <1>10 DEF Toggle, Commit
  <2> QED BY <1>1, <1>10, <2>2, <2>3, WritesWrite, CommitTypes
<1>11. ASSUME NEW r \in Requests, Delete(r) PROVE TypeOK'
  <2>1. Commit(r, users', audit', {}) /\ audit' \subseteq Entry /\ toggled' = toggled
    BY <1>1, <1>11 DEF Delete, Commit
  <2> QED BY <1>1, <1>11, <2>1, WritesWrite, CommitTypes
<1>12. ASSUME NEW r \in Requests, CreateOrder(r) PROVE TypeOK'
  BY <1>12 DEF CreateOrder, rows, TypeOK
<1>13. ASSUME NEW r \in Requests, Pay(r) PROVE TypeOK'
  BY <1>13 DEF Pay, rows, TypeOK
<1>14. ASSUME NEW r \in Requests, Upgrade(r) PROVE TypeOK'
  <2>1. users' \in [Ids -> User \cup {None}]
    BY <1>14, WritesWrite, WrittenTypes
  <2> QED BY <1>14, <2>1 DEF Upgrade, TypeOK
<1>15. ASSUME NEW r \in Requests, LogUpgrade(r) PROVE TypeOK'
  <2>1. req[r].op = "verify" /\ got[r].id \in Ids
    BY <1>15, WriterGot DEF LogUpgrade, Reads
  <2>2. audit' \subseteq Entry
    BY <1>15, <2>1, LogTypes DEF LogUpgrade
  <2> QED BY <1>15, <2>2 DEF LogUpgrade, TypeOK, Entry
<1>16. ASSUME NEW r \in Requests, Interrupted(r) PROVE TypeOK'
  BY <1>16 DEF Interrupted, rows, TypeOK
<1> QED BY <1>2, <1>3, <1>4, <1>5, <1>6, <1>7, <1>8, <1>9, <1>10, <1>11, <1>12, <1>13, <1>14, <1>15, <1>16
        DEF Next, Refuse, WriteFails

\* A step of r that moves on and keeps what it asked and read.
LEMMA MoveReads ==
  ASSUME TypeOK, Reads, NEW r \in Requests, NEW p, pc' = [pc EXCEPT ![r] = p],
         UNCHANGED <<req, got>>, pc[r] # "done",
         p \in {"failed", "unlogged"} \/ req[r].op = "register" \/ pc[r] \in {"read", "upgraded"},
         p # "upgraded" \/ req[r].op = "verify", p # "idle", p # "open"
  PROVE  Reads'
<1>1. \A q \in Requests : pc'[q] = IF q = r THEN p ELSE pc[q]
  BY DEF TypeOK
<1> QED BY <1>1 DEF Reads

LEMMA ReadsStep == TypeOK /\ Reads /\ [Next]_vars => Reads'
<1> SUFFICES ASSUME TypeOK, Reads, [Next]_vars PROVE Reads'
  OBVIOUS
<1>1. CASE UNCHANGED vars
  BY <1>1 DEF vars, rows, Reads
<1>2. ASSUME NEW r \in Requests, NEW ask \in Ask, Arrive(r, ask) PROVE Reads'
  <2>1. \A q \in Requests : /\ pc'[q] = IF q = r THEN "open" ELSE pc[q]
                            /\ req'[q] = IF q = r THEN ask ELSE req[q]
    BY <1>2 DEF Arrive, TypeOK
  <2>2. got[r] = None /\ got' = got
    BY <1>2 DEF Arrive, Reads
  <2> QED BY <1>2, <2>1, <2>2 DEF Reads
<1>3. ASSUME NEW r \in Requests, pc[r] # "done", Fail(r) PROVE Reads'
  BY <1>3, MoveReads DEF Fail, rows
<1>4. ASSUME NEW r \in Requests, Select(r) PROVE Reads'
  <2>1. PICK u \in Subject(r) : got' = [got EXCEPT ![r] = [id |-> u, row |-> users[u]]]
    BY <1>4 DEF Select
  <2>2. \A q \in Requests : /\ pc'[q] = IF q = r THEN "read" ELSE pc[q]
                            /\ got'[q] = IF q = r THEN [id |-> u, row |-> users[u]] ELSE got[q]
    BY <1>4, <2>1 DEF Select, TypeOK
  <2>3. [id |-> u, row |-> users[u]] # None
    BY NoneAssumption, SubjectTypes DEF Read
  <2> QED BY <1>4, <2>2, <2>3 DEF Select, Reads
<1>5. ASSUME NEW r \in Requests, SelectNobody(r) PROVE Reads'
  BY <1>5, MoveReads DEF SelectNobody, rows
<1>6. ASSUME NEW r \in Requests, NEW U, NEW A, NEW T, pc[r] = "read", Commit(r, U, A, T) PROVE Reads'
  BY <1>6, MoveReads DEF Commit
<1>7. ASSUME NEW r \in Requests, CreateOrder(r) PROVE Reads'
  BY <1>7, MoveReads DEF CreateOrder, Is
<1>8. ASSUME NEW r \in Requests, Pay(r) PROVE Reads'
  BY <1>8 DEF Pay, Reads, TypeOK, rows
<1>9. ASSUME NEW r \in Requests, Upgrade(r) PROVE Reads'
  <2>1. /\ pc[r] = "read" /\ req[r].op = "verify" /\ pc' = [pc EXCEPT ![r] = "upgraded"]
        /\ UNCHANGED <<req, got>>
    BY <1>9 DEF Upgrade, Is
  <2> QED BY <2>1, MoveReads
<1>10. ASSUME NEW r \in Requests, LogUpgrade(r) PROVE Reads'
  BY <1>10, MoveReads DEF LogUpgrade
<1>11. ASSUME NEW r \in Requests, Register(r) \/ Login(r) \/ Refresh(r) \/ Forgot(r) \/ SetPassword(r)
                                  \/ Toggle(r) \/ Delete(r)
       PROVE  Reads'
  BY <1>11, <1>6 DEF Register, Login, Refresh, Forgot, SetPassword, Toggle, Delete, Is
<1>12. ASSUME NEW r \in Requests, Interrupted(r) PROVE Reads'
  BY <1>12, MoveReads DEF Interrupted
<1> QED BY <1>1, <1>2, <1>3, <1>4, <1>5, <1>7, <1>8, <1>9, <1>10, <1>11, <1>12
        DEF Next, Refuse, WriteFails

LEMMA ReadsInit == Init => Reads
  BY DEF Init, Reads, NoAsk, ByToken

\* Every variable has its type: what a request read is a row that was there, an order
\* paid is one that was made, an entry of the log names a known action.
THEOREM TypeCorrect == Spec => []TypeOK
  BY TypeInit, TypeStep, ReadsInit, ReadsStep, PTL DEF Spec

-----------------------------------------------------------------------------
(* What a step does to the rows of users.                                  *)

Writer(r) == Register(r) \/ SetPassword(r) \/ Toggle(r) \/ Delete(r) \/ Upgrade(r)

LEMMA OtherStep ==
  ASSUME [Next]_vars, \A r \in Requests : ~Writer(r)
  PROVE  users' = users
  BY DEF Next, Writer, vars, rows, Arrive, Select, SelectNobody, Refuse, Fail, Login, Refresh,
         Forgot, Commit, WriteFails, CreateOrder, Pay, LogUpgrade, Interrupted

\* An account is there after a step if it was, unless the step deletes it, and
\* appears only with its registration.
LEMMA ExistsStep ==
  ASSUME TypeOK, Reads, NEW r \in Requests, Written(r), NEW u \in Ids
  PROVE  /\ Exists(u) /\ req[r].op # "delete" => Exists(u)'
         /\ ~Exists(u) /\ Exists(u)' => u = r /\ req[r].op = "register" /\ pc[r] = "read"
<1>1. None \notin User
  BY NoneAssumption
<1>2. req[r].op = "register" => Fresh(req[r].email, req[r].password) \in User
  BY RequestFields, FreshFields
<1> QED BY <1>1, <1>2 DEF Written, Exists, TypeOK, Ids

-----------------------------------------------------------------------------
(* One account per address.                                                *)

Single == \A e \in Emails : \A u, v \in Holders(e) : u = v

LEMMA SingleWritten ==
  ASSUME TypeOK, Reads, Single, NEW r \in Requests, Written(r)
  PROVE  Single'
<1>1. CASE users' = users
  BY <1>1 DEF Single, Holders, Exists
<1>2. CASE /\ req[r].op = "register" /\ Holders(req[r].email) = {}
           /\ users' = [users EXCEPT ![r] = Fresh(req[r].email, req[r].password)]
  <2>1. users'[r].email = req[r].email /\ \A u \in Ids \ {r} : users'[u] = users[u]
    BY <1>2, RequestFields, FreshFields DEF TypeOK, Ids
  <2>2. ASSUME NEW e \in Emails, NEW u \in Holders(e)', NEW v \in Holders(e)' PROVE u = v
    BY <1>2, <2>1 DEF Single, Holders, Exists
  <2> QED BY <2>2 DEF Single
<1>3. ASSUME \A u \in Ids : Exists(u)' => Exists(u) /\ users'[u].email = users[u].email
      PROVE  Single'
  BY <1>3 DEF Single, Holders, Exists
<1>4. CASE users' = [users EXCEPT ![got[r].id] = None]
  BY <1>3, <1>4 DEF Exists, TypeOK
<1>5. ASSUME Exists(got[r].id), NEW n \in User, users' = [users EXCEPT ![got[r].id] = n],
             n.email = users[got[r].id].email
      PROVE  Single'
  BY <1>3, <1>5 DEF Exists, TypeOK
<1> QED BY <1>1, <1>2, <1>4, <1>5 DEF Written

LEMMA SingleIsOne == TypeOK /\ Single => OneAccountPerAddress
<1> SUFFICES ASSUME TypeOK, Single, NEW e \in Emails PROVE Cardinality(Holders(e)) <= 1
  BY DEF OneAccountPerAddress
<1>1. CASE Holders(e) = {}
  BY <1>1, FS_EmptySet
<1>2. ASSUME NEW u \in Holders(e) PROVE Cardinality(Holders(e)) <= 1
  <2>1. Holders(e) = {u}
    BY <1>2 DEF Single
  <2>2. Cardinality({u}) = 1
    BY FS_Singleton
  <2> QED BY <2>1, <2>2
<1> QED BY <1>1, <1>2

\* An address has one account, for any number of registrations, deletions and
\* registrations again, in any order.
THEOREM AddressesUnique == Spec => []OneAccountPerAddress
<1>1. Init => Single
  BY DEF Init, Single, Holders, Exists
<1>2. TypeOK /\ Reads /\ Single /\ [Next]_vars => Single'
  <2> SUFFICES ASSUME TypeOK, Reads, Single, [Next]_vars PROVE Single'
    OBVIOUS
  <2>1. CASE users' = users
    BY <2>1 DEF Single, Holders, Exists
  <2>2. ASSUME NEW r \in Requests, Writer(r) PROVE Single'
    BY <2>2, WritesWrite, SingleWritten DEF Writer
  <2> QED BY <2>1, <2>2, OtherStep
<1> QED BY <1>1, <1>2, TypeInit, TypeStep, ReadsInit, ReadsStep, SingleIsOne, PTL DEF Spec

-----------------------------------------------------------------------------
(* Deleted accounts stay deleted.                                          *)

\* What brings an account about is its registration and nothing else: no request
\* that had read the row writes it back after a deletion.
THEOREM DeletionsStand == Spec => DeletedStaysDeleted
<1>1. TypeOK /\ Reads /\ [Next]_vars
        => [\A u \in Ids : ~Exists(u) /\ Exists(u)' => u # First /\ pc[u] = "read"]_vars
  <2> SUFFICES ASSUME TypeOK, Reads, [Next]_vars, NEW u \in Ids, ~Exists(u), Exists(u)'
               PROVE  u # First /\ pc[u] = "read"
    OBVIOUS
  <2>1. users' # users
    BY DEF Exists
  <2>2. PICK r \in Requests : Writer(r)
    BY <2>1, OtherStep
  <2> QED BY <2>2, WritesWrite, ExistsStep, FirstAssumption DEF Writer
<1> QED BY <1>1, TypeInit, TypeStep, ReadsInit, ReadsStep, PTL DEF Spec, DeletedStaysDeleted

-----------------------------------------------------------------------------
(* The audit log.                                                          *)

\* On PostgreSQL no entry of the log outlives its account, also when a login overlaps
\* the deletion, for any requests.
THEOREM AuditEntriesLinked == Spec => []AuditLinked
<1>1. Init => AuditLinked
  BY DEF Init, AuditLinked
<1>2. TypeOK /\ Reads /\ AuditLinked /\ [Next]_vars => AuditLinked'
  <2> SUFFICES ASSUME TypeOK, Reads, AuditLinked, [Next]_vars, database' = "postgres",
                      NEW a \in audit'
               PROVE  Exists(a.user)'
    BY DEF AuditLinked
  <2>1. database = "postgres" /\ \A b \in audit : b.user \in Ids /\ Exists(b.user)
    <3>1. database' = database
      BY DEF Next, vars, rows, Arrive, Select, SelectNobody, Refuse, Fail, Login, Refresh, Register,
             SetPassword, Toggle, Delete, Upgrade, Forgot, Commit, WriteFails, CreateOrder, Pay,
             LogUpgrade, Interrupted
    <3> QED BY <3>1 DEF AuditLinked, TypeOK
  <2>2. CASE a \in audit
    <3>1. CASE users' = users
      BY <2>1, <2>2, <3>1 DEF Exists
    <3>2. ASSUME NEW r \in Requests, Writer(r), ~Delete(r) PROVE Exists(a.user)'
      <4>1. req[r].op # "delete"
        BY <3>2 DEF Writer, Register, SetPassword, Toggle, Upgrade, Is
      <4> QED BY <2>1, <2>2, <3>2, <4>1, WritesWrite, ExistsStep DEF Writer
    <3>3. ASSUME NEW r \in Requests, Delete(r) PROVE Exists(a.user)'
      <4>1. a.user # got[r].id
        BY <3>3 DEF Delete, Commit
      <4>2. users' = [users EXCEPT ![got[r].id] = None]
        BY <3>3 DEF Delete, Commit
      <4> QED BY <2>1, <2>2, <4>1, <4>2 DEF Exists, TypeOK
    <3> QED BY <3>1, <3>2, <3>3, OtherStep
  <2>3. CASE a \notin audit
    <3>1. ASSUME NEW r \in Requests, NEW u, audit' = Log(r, u), Exists(u)'
          PROVE  Exists(a.user)'
      BY <2>3, <3>1 DEF Log
    <3>2. ASSUME NEW r \in Requests, Register(r) PROVE Exists(a.user)'
      <4>1. users'[r] \in User /\ None \notin User
        BY <3>2, RequestFields, FreshFields, NoneAssumption DEF Register, Is, Commit, TypeOK, Ids
      <4> QED BY <3>1, <3>2, <4>1 DEF Register, Commit, Exists
    <3>3. ASSUME NEW r \in Requests, Login(r) PROVE Exists(a.user)'
      BY <2>1, <3>1, <3>3 DEF Login, Commit, Gone, Exists
    <3>4. ASSUME NEW r \in Requests, SetPassword(r) PROVE Exists(a.user)'
      <4>1. got[r].id \in Ids /\ req[r].op # "delete" /\ Exists(got[r].id)
        BY <3>4, WriterGot DEF SetPassword, Is, Gone
      <4>2. \A u \in Ids : u = got[r].id => Exists(u)'
        BY <3>4, <4>1, WritesWrite, ExistsStep
      <4>3. audit' = Log(r, got[r].id)
        BY <2>3, <3>4 DEF SetPassword, Commit
      <4> QED BY <3>1, <4>1, <4>2, <4>3
    <3>5. ASSUME NEW r \in Requests, LogUpgrade(r) PROVE Exists(a.user)'
      BY <3>1, <3>5 DEF LogUpgrade, Gone, Exists
    <3>6. audit' \subseteq audit \/ \E r \in Requests :
             Register(r) \/ Login(r) \/ SetPassword(r) \/ LogUpgrade(r)
      BY DEF Next, vars, rows, Arrive, Select, SelectNobody, Refuse, Fail, Refresh, Toggle, Delete,
             Upgrade, Forgot, Commit, WriteFails, CreateOrder, Pay, Interrupted
    <3> QED BY <2>3, <3>2, <3>3, <3>4, <3>5, <3>6
  <2> QED BY <2>2, <2>3
<1> QED BY <1>1, <1>2, TypeInit, TypeStep, ReadsInit, ReadsStep, PTL DEF Spec

-----------------------------------------------------------------------------
(* Accounts that are still to be registered.                               *)

Born(u) == u = First \/ pc[u] = "done"

\* Nobody knows an account before its registration is done.
Unborn ==
    /\ \A u \in Ids : Exists(u) \/ toggled[u] # 0 => Born(u)
    /\ \A r \in Requests : got[r] # None => Born(got[r].id)
    /\ \A a \in audit : Born(a.user)

LEMMA DoneStays ==
  ASSUME TypeOK, [Next]_vars, NEW r \in Requests, pc[r] = "done"
  PROVE  pc'[r] = "done"
  BY ZenonT(60) DEF Next, vars, rows, Arrive, Select, SelectNobody, Refuse, Fail, Login, Refresh, Register,
         SetPassword, Toggle, Delete, Upgrade, Forgot, Commit, WriteFails, CreateOrder, Pay,
         LogUpgrade, Interrupted, Is, TypeOK

LEMMA UnbornStep == TypeOK /\ Reads /\ Unborn /\ [Next]_vars => Unborn'
<1> SUFFICES ASSUME TypeOK, Reads, Unborn, [Next]_vars PROVE Unborn'
  OBVIOUS
<1>1. \A u \in Ids : Born(u) => Born(u)'
  BY DoneStays DEF Born, Ids
<1>2. ASSUME NEW u \in Ids, Exists(u)' PROVE Born(u)'
  <2>1. CASE Exists(u)
    BY <1>1, <2>1 DEF Unborn
  <2>2. CASE ~Exists(u)
    <3>1. users' # users
      BY <1>2, <2>2 DEF Exists
    <3>2. PICK r \in Requests : Writer(r)
      BY <3>1, OtherStep
    <3>3. u = r /\ req[r].op = "register"
      BY <1>2, <2>2, <3>2, WritesWrite, ExistsStep DEF Writer
    <3>4. Register(r)
      BY <3>2, <3>3 DEF Writer, SetPassword, Toggle, Delete, Upgrade, Is
    <3> QED BY <3>3, <3>4 DEF Register, Commit, Born, TypeOK
  <2> QED BY <2>1, <2>2
<1>3. ASSUME NEW u \in Ids, Exists(u) \/ toggled[u] # 0 PROVE Born(u)'
  BY <1>1, <1>3 DEF Unborn
<1>4. ASSUME NEW r \in Requests, got[r] # None PROVE got[r].id \in Ids /\ \A u : u = got[r].id => Born(u)'
  BY <1>1, <1>4, GotTypes DEF Unborn
<1>5. \A u \in Ids : Exists(u)' \/ toggled'[u] # 0 => Born(u)'
  <2>1. CASE toggled' = toggled
    BY <1>2, <1>3, <2>1
  <2>2. ASSUME NEW r \in Requests, Toggle(r), NEW u \in Ids, toggled'[u] # 0 PROVE Born(u)'
    <3>1. CASE u = got[r].id
      <4>1. got[r] # None
        BY <2>2, WriterGot DEF Toggle, Is
      <4> QED BY <1>4, <3>1, <4>1
    <3>2. CASE u # got[r].id
      BY <1>3, <2>2, <3>2 DEF Toggle, TypeOK
    <3> QED BY <3>1, <3>2
  <2>3. toggled' = toggled \/ \E r \in Requests : Toggle(r)
    BY DEF Next, vars, rows, Arrive, Select, SelectNobody, Refuse, Fail, Login, Refresh, Register,
           SetPassword, Delete, Upgrade, Forgot, Commit, WriteFails, CreateOrder, Pay,
           LogUpgrade, Interrupted
  <2> QED BY <1>2, <2>1, <2>2, <2>3
<1>6. ASSUME NEW q \in Requests, got'[q] # None PROVE \A u : u = got'[q].id => Born(u)'
  <2>1. CASE got' = got
    BY <1>4, <1>6, <2>1
  <2>2. ASSUME NEW r \in Requests, Select(r) PROVE \A u : u = got'[q].id => Born(u)'
    <3>1. PICK v \in Subject(r) : got' = [got EXCEPT ![r] = [id |-> v, row |-> users[v]]]
      BY <2>2 DEF Select
    <3>2. v \in Ids /\ Exists(v)
      BY SubjectTypes, NoneAssumption DEF Exists
    <3>3. CASE q = r
      BY <1>3, <3>1, <3>2, <3>3 DEF TypeOK
    <3>4. CASE q # r
      BY <1>4, <1>6, <3>1, <3>4 DEF TypeOK
    <3> QED BY <3>3, <3>4
  <2>3. got' = got \/ \E r \in Requests : Select(r)
    BY ZenonT(60) DEF Next, vars, rows, Arrive, SelectNobody, Refuse, Fail, Login, Refresh, Register,
           SetPassword, Toggle, Delete, Upgrade, Forgot, Commit, WriteFails, CreateOrder, Pay,
           LogUpgrade, Interrupted
  <2> QED BY <2>1, <2>2, <2>3
<1>7. ASSUME NEW a \in audit' PROVE Born(a.user)'
  <2>1. CASE a \in audit
    BY <1>1, <2>1 DEF Unborn, TypeOK
  <2>2. ASSUME NEW r \in Requests, NEW u, audit' = Log(r, u), Born(u)', a \notin audit
        PROVE  Born(a.user)'
    BY <2>2 DEF Log
  <2>3. ASSUME NEW r \in Requests, Register(r), a \notin audit PROVE Born(a.user)'
    BY <2>2, <2>3 DEF Register, Commit, Born, TypeOK
  <2>4. ASSUME NEW r \in Requests, Login(r) \/ SetPassword(r) \/ LogUpgrade(r), a \notin audit
        PROVE  Born(a.user)'
    <3>1. got[r] # None /\ audit' = Log(r, got[r].id)
      BY <2>4, WriterGot DEF Login, SetPassword, LogUpgrade, Is, Commit, Reads
    <3> QED BY <1>4, <2>2, <2>4, <3>1
  <2>5. audit' \subseteq audit \/ \E r \in Requests :
           Register(r) \/ Login(r) \/ SetPassword(r) \/ LogUpgrade(r)
    BY DEF Next, vars, rows, Arrive, Select, SelectNobody, Refuse, Fail, Refresh, Toggle, Delete,
           Upgrade, Forgot, Commit, WriteFails, CreateOrder, Pay, Interrupted
  <2> QED BY <2>1, <2>3, <2>4, <2>5
<1> QED BY <1>5, <1>6, <1>7 DEF Unborn

LEMMA UnbornInit == Init => Unborn
  BY DEF Init, Unborn, Born, Exists

-----------------------------------------------------------------------------
(* Plans.                                                                  *)

\* A request that read a paid plan read it of a user with a verification committed.
PlansRead ==
    \A r \in Requests : got[r] # None /\ got[r].row.plan # "free" => Upgraders(got[r].id) # {}

\* A committed verification stays one, and only Upgrade adds one.
LEMMA UpgradersStep ==
  ASSUME TypeOK, Reads, [Next]_vars
  PROVE  /\ \A u : Upgraders(u) \subseteq Upgraders(u)'
         /\ \A r \in Requests : pc[r] \in {"upgraded", "unlogged", "done"} => req'[r] = req[r]
         /\ \/ \A u : Upgraders(u)' = Upgraders(u)
            \/ \E r \in Requests : Upgrade(r)
<1>1. CASE UNCHANGED vars
  BY <1>1 DEF vars, Upgraders
\* A step of r that ends neither a verification nor its logging.
<1>2. ASSUME NEW r \in Requests,
             \A q \in Requests \ {r} : pc'[q] = pc[q] /\ req'[q] = req[q] /\ got'[q] = got[q],
             pc[r] \notin {"upgraded", "unlogged", "done"},
             pc'[r] \notin {"upgraded", "unlogged", "done"} \/ req'[r].op # "verify"
      PROVE  /\ \A u : Upgraders(u)' = Upgraders(u)
             /\ \A q \in Requests : pc[q] \in {"upgraded", "unlogged", "done"} => req'[q] = req[q]
  BY <1>2 DEF Upgraders
<1>3. ASSUME NEW r \in Requests, NEW ask \in Ask, Arrive(r, ask)
      PROVE  /\ \A u : Upgraders(u)' = Upgraders(u)
             /\ \A q \in Requests : pc[q] \in {"upgraded", "unlogged", "done"} => req'[q] = req[q]
  BY <1>2, <1>3 DEF Arrive, TypeOK
<1>4. ASSUME NEW r \in Requests, Select(r) \/ SelectNobody(r)
      PROVE  /\ \A u : Upgraders(u)' = Upgraders(u)
             /\ \A q \in Requests : pc[q] \in {"upgraded", "unlogged", "done"} => req'[q] = req[q]
  BY <1>2, <1>4 DEF Select, SelectNobody, TypeOK
<1>5. ASSUME NEW r \in Requests, Refuse(r) \/ WriteFails(r)
      PROVE  /\ \A u : Upgraders(u)' = Upgraders(u)
             /\ \A q \in Requests : pc[q] \in {"upgraded", "unlogged", "done"} => req'[q] = req[q]
  BY <1>2, <1>5 DEF Refuse, WriteFails, Fail, TypeOK
<1>6. ASSUME NEW r \in Requests, Register(r) \/ Login(r) \/ Refresh(r) \/ Forgot(r) \/ SetPassword(r)
                                 \/ Toggle(r) \/ Delete(r)
      PROVE  /\ \A u : Upgraders(u)' = Upgraders(u)
             /\ \A q \in Requests : pc[q] \in {"upgraded", "unlogged", "done"} => req'[q] = req[q]
  <2>1. /\ pc[r] = "read" /\ req[r].op # "verify" /\ pc' = [pc EXCEPT ![r] = "done"]
        /\ UNCHANGED <<req, got>>
    BY <1>6 DEF Register, Login, Refresh, Forgot, SetPassword, Toggle, Delete, Commit, Is
  <2> QED BY <1>2, <2>1 DEF TypeOK
<1>7. ASSUME NEW r \in Requests, CreateOrder(r)
      PROVE  /\ \A u : Upgraders(u)' = Upgraders(u)
             /\ \A q \in Requests : pc[q] \in {"upgraded", "unlogged", "done"} => req'[q] = req[q]
  BY <1>2, <1>7 DEF CreateOrder, Is, TypeOK
<1>8. ASSUME NEW r \in Requests, Pay(r)
      PROVE  /\ \A u : Upgraders(u)' = Upgraders(u)
             /\ \A q \in Requests : pc[q] \in {"upgraded", "unlogged", "done"} => req'[q] = req[q]
  BY <1>8 DEF Pay, Upgraders
<1>9. ASSUME NEW r \in Requests, LogUpgrade(r) \/ Interrupted(r)
      PROVE  /\ \A u : Upgraders(u)' = Upgraders(u)
             /\ \A q \in Requests : pc[q] \in {"upgraded", "unlogged", "done"} => req'[q] = req[q]
  <2>1. PICK p \in {"unlogged", "done"} :
           pc[r] = "upgraded" /\ pc' = [pc EXCEPT ![r] = p] /\ UNCHANGED <<req, got>>
    BY <1>9 DEF LogUpgrade, Interrupted
  <2> QED BY <2>1 DEF Upgraders, TypeOK
<1>10. ASSUME NEW r \in Requests, Upgrade(r)
       PROVE  /\ \A u : Upgraders(u) \subseteq Upgraders(u)'
              /\ \A q \in Requests : pc[q] \in {"upgraded", "unlogged", "done"} => req'[q] = req[q]
  <2>1. pc[r] = "read" /\ pc' = [pc EXCEPT ![r] = "upgraded"] /\ UNCHANGED <<req, got>>
    BY <1>10 DEF Upgrade, Is
  <2> QED BY <2>1 DEF Upgraders, TypeOK
<1> QED BY <1>1, <1>3, <1>4, <1>5, <1>6, <1>7, <1>8, <1>9, <1>10 DEF Next, vars

LEMMA PlansReadStep ==
  ASSUME TypeOK, Reads, PlanIsVerified, PlansRead, [Next]_vars
  PROVE  PlansRead'
<1>1. \A u : Upgraders(u) # {} => Upgraders(u)' # {}
  BY UpgradersStep
<1>2. CASE got' = got
  BY <1>1, <1>2 DEF PlansRead
<1>3. ASSUME NEW r \in Requests, Select(r) PROVE PlansRead'
  <2>1. PICK v \in Subject(r) : got' = [got EXCEPT ![r] = [id |-> v, row |-> users[v]]]
    BY <1>3 DEF Select
  <2>2. v \in Ids /\ Exists(v)
    BY SubjectTypes, NoneAssumption DEF Exists
  <2>3. users[v].plan # "free" => Upgraders(v) # {}
    BY <2>2 DEF PlanIsVerified
  <2>4. \A q \in Requests : got'[q] = IF q = r THEN [id |-> v, row |-> users[v]] ELSE got[q]
    BY <2>1 DEF TypeOK
  <2> QED BY <1>1, <2>3, <2>4 DEF PlansRead
<1>4. got' = got \/ \E r \in Requests : Select(r)
  BY ZenonT(60) DEF Next, vars, rows, Arrive, SelectNobody, Refuse, Fail, Login, Refresh, Register,
         SetPassword, Toggle, Delete, Upgrade, Forgot, Commit, WriteFails, CreateOrder, Pay,
         LogUpgrade, Interrupted
<1> QED BY <1>2, <1>3, <1>4

\* A step that leaves plans alone, or brings a user about whom nobody has verified for.
LEMMA PlanKept ==
  ASSUME TypeOK, Reads, PlanIsVerified, [Next]_vars, \A u : Upgraders(u)' = Upgraders(u),
         NEW u \in Ids,
         \/ Exists(u) /\ users'[u].plan = users[u].plan
         \/ Upgraders(u) = {} /\ users'[u].plan = "free"
  PROVE  IF Upgraders(u)' = {} THEN users'[u].plan = "free"
                               ELSE \E r \in Upgraders(u)' : users'[u].plan = req'[r].plan
<1>1. \A r \in Upgraders(u) : req'[r] = req[r]
  BY UpgradersStep DEF Upgraders
<1> QED BY <1>1 DEF PlanIsVerified

LEMMA PlanStep ==
  ASSUME TypeOK, Reads, Unborn, PlanIsVerified, PlansRead, [Next]_vars
  PROVE  PlanIsVerified'
<1>1. CASE \A r \in Requests : ~Upgrade(r)
  <2>1. \A u : Upgraders(u)' = Upgraders(u)
    BY <1>1, UpgradersStep
  <2>2. ASSUME NEW u \in Ids, Exists(u)'
        PROVE  \/ Exists(u) /\ users'[u].plan = users[u].plan
               \/ Upgraders(u) = {} /\ users'[u].plan = "free"
    <3>1. CASE users' = users
      BY <2>2, <3>1 DEF Exists
    <3>2. ASSUME NEW r \in Requests, Writer(r)
          PROVE  \/ Exists(u) /\ users'[u].plan = users[u].plan
                 \/ Upgraders(u) = {} /\ users'[u].plan = "free"
      <4>1. Written(r) /\ ~Upgrade(r)
        BY <1>1, <3>2, WritesWrite DEF Writer
      <4>2. CASE /\ req[r].op = "register" /\ pc[r] = "read"
                 /\ users' = [users EXCEPT ![r] = Fresh(req[r].email, req[r].password)]
        <5>1. users'[r].plan = "free" /\ \A v \in Ids \ {r} : users'[v] = users[v]
          BY <4>2, RequestFields, FreshFields DEF TypeOK, Ids
        <5>2. Upgraders(r) = {}
          BY <4>2, FirstAssumption DEF Upgraders, Unborn, Born
        <5> QED BY <2>2, <5>1, <5>2 DEF Exists
      <4>3. CASE users' = [users EXCEPT ![got[r].id] = None]
        BY <2>2, <4>3 DEF Exists, TypeOK
      <4>4. ASSUME Exists(got[r].id), NEW n \in User, users' = [users EXCEPT ![got[r].id] = n],
                   n.plan = users[got[r].id].plan
            PROVE  Exists(u) /\ users'[u].plan = users[u].plan
        BY <2>2, <4>4 DEF Exists, TypeOK
      <4>5. CASE users' = users
        BY <2>2, <4>5 DEF Exists
      <4> QED BY <4>1, <4>2, <4>3, <4>4, <4>5 DEF Written
    <3> QED BY <3>1, <3>2, OtherStep
  <2> QED BY <2>1, <2>2, PlanKept DEF PlanIsVerified
<1>2. ASSUME NEW r \in Requests, Upgrade(r) PROVE PlanIsVerified'
  <2>1. /\ pc[r] = "read" /\ req[r].op = "verify" /\ got[r] # None /\ got[r].id \in Ids
        /\ pc' = [pc EXCEPT ![r] = "upgraded"] /\ UNCHANGED <<req, got>> /\ Exists(got[r].id)
        /\ req[r].plan # "free"
    BY <1>2, WriterGot, RequestFields DEF Upgrade, Is, Gone, PaidPlans
  <2>2. \A u : Upgraders(u)' = IF u = got[r].id THEN Upgraders(u) \cup {r} ELSE Upgraders(u)
    BY <2>1 DEF Upgraders, TypeOK
  <2>3. ASSUME NEW u \in Ids, Exists(u)', u # got[r].id
        PROVE  /\ Exists(u) /\ users'[u] = users[u]
    BY <1>2, <2>1, <2>3 DEF Upgrade, Exists, TypeOK
  <2>4. CASE got[r].row.plan = req[r].plan
    <3>1. users' = users
      BY <1>2, <2>4 DEF Upgrade
    <3>2. Upgraders(got[r].id) # {}
      BY <2>1, <2>4 DEF PlansRead
    <3>3. \E q \in Upgraders(got[r].id) : users[got[r].id].plan = req[q].plan
      BY <2>1, <3>2 DEF PlanIsVerified
    <3> QED BY <2>1, <2>2, <2>3, <3>1, <3>3 DEF PlanIsVerified, Exists
  <2>5. CASE got[r].row.plan # req[r].plan
    <3>1. users'[got[r].id].plan = req[r].plan
      <4>1. users' = [users EXCEPT ![got[r].id] = [users[got[r].id] EXCEPT !.plan = req[r].plan]]
        BY <1>2, <2>5 DEF Upgrade
      <4>2. users[got[r].id] \in User
        BY <2>1 DEF Exists, TypeOK
      <4>3. [users[got[r].id] EXCEPT !.plan = req[r].plan].plan = req[r].plan
        BY <4>2 DEF User
      <4> QED BY <2>1, <4>1, <4>3 DEF TypeOK
    <3>2. r \in Upgraders(got[r].id)'
      BY <2>1 DEF Upgraders, TypeOK
    <3> QED BY <2>1, <2>2, <2>3, <3>1, <3>2 DEF PlanIsVerified
  <2> QED BY <2>4, <2>5
<1> QED BY <1>1, <1>2

\* A user's plan is free until a verification of the user has committed, and then one that
\* such a verification named: whatever requests had read the row before, none takes an
\* upgrade back, for any requests, replayed signatures, deletions and crashes.
THEOREM PlansAreVerified == Spec => []PlanIsVerified
<1>1. Init => PlanIsVerified /\ PlansRead
  <2> SUFFICES ASSUME Init PROVE PlanIsVerified /\ PlansRead
    OBVIOUS
  <2>1. PICK e \in Emails, p \in Passwords :
           users = [u \in Ids |-> IF u = First THEN Fresh(e, p) ELSE None]
    BY DEF Init
  <2>2. \A u : Upgraders(u) = {}
    BY DEF Init, Upgraders
  <2> QED BY <2>1, <2>2, FreshFields DEF Init, PlanIsVerified, PlansRead, Exists
<1> QED BY <1>1, TypeInit, TypeStep, ReadsInit, ReadsStep, UnbornInit, UnbornStep, PlansReadStep, PlanStep,
           PTL DEF Spec

-----------------------------------------------------------------------------
(* The audit log is complete.                                              *)

Author(r) == IF req[r].op = "register" THEN r ELSE got[r].id
Logs(r, u) == pc[r] = "done" /\ req[r].op \in Logged /\ u = Author(r)
Entries(r, u) == {a \in audit : a.by = r /\ a.user = u}

LEMMA AuditParts ==
  AuditComplete <=> \A r \in Requests, u \in Ids : Exists(u) => (Entries(r, u) # {} <=> Logs(r, u))
  BY DEF AuditComplete, Entries, Logs, Author

\* A step of r that logs nothing and need not.
LEMMA AuditQuiet ==
  ASSUME TypeOK, AuditComplete, NEW r \in Requests, pc[r] # "done",
         \A q \in Requests \ {r} : pc'[q] = pc[q] /\ req'[q] = req[q] /\ got'[q] = got[q],
         pc'[r] # "done" \/ req'[r].op \notin Logged,
         \A u \in Ids : Exists(u)' => Exists(u),
         \A a : Exists(a.user)' => (a \in audit' <=> a \in audit)
  PROVE  AuditComplete'
<1>1. \A q \in Requests, u \in Ids : Logs(q, u)' <=> Logs(q, u)
  BY DEF Logs, Author
<1>2. \A q \in Requests, u \in Ids : Exists(u)' => Entries(q, u)' = Entries(q, u)
  BY DEF Entries
<1>3. ASSUME NEW q \in Requests, NEW u \in Ids, Exists(u)'
      PROVE  (\E a \in audit' : a.by = q /\ a.user = u) <=> Logs(q, u)'
  BY <1>1, <1>2, <1>3, AuditParts DEF Entries
<1> QED BY <1>3 DEF AuditComplete, Logs, Author

\* A step of r that logs what it has done.
LEMMA AuditLogs ==
  ASSUME TypeOK, Reads, Unborn, AuditComplete, NEW r \in Requests, pc[r] # "done",
         pc' = [pc EXCEPT ![r] = "done"], UNCHANGED <<req, got>>, req[r].op \in Logged,
         audit' = Log(r, Author(r)),
         \A u \in Ids : Exists(u)' => Exists(u) \/ (u = r /\ u = Author(r))
  PROVE  AuditComplete'
<1>1. \A q \in Requests, u \in Ids : Logs(q, u)' <=> Logs(q, u) \/ (q = r /\ u = Author(r))
  BY DEF Logs, Author, TypeOK
<1>2. \A q \in Requests, u \in Ids :
         Entries(q, u)' # {} <=> Entries(q, u) # {} \/ (q = r /\ u = Author(r))
  <2> DEFINE e == [by |-> r, user |-> Author(r), action |-> req[r].op]
  <2>1. audit' = audit \cup {e} /\ e.by = r /\ e.user = Author(r)
    BY DEF Log
  <2> HIDE DEF e
  <2>2. ASSUME NEW q \in Requests, NEW u \in Ids
        PROVE  Entries(q, u)' = IF q = r /\ u = Author(r) THEN Entries(q, u) \cup {e} ELSE Entries(q, u)
    BY <2>1 DEF Entries
  <2> QED BY <2>2
<1>3. ASSUME NEW q \in Requests, NEW u \in Ids, Exists(u)'
      PROVE  Entries(q, u)' # {} <=> Logs(q, u)'
  <2>1. CASE Exists(u)
    BY <1>1, <1>2, <2>1, AuditParts
  <2>2. CASE ~Exists(u)
    <3>1. u = r /\ u = Author(r) /\ r # First /\ ~Born(r)
      BY <1>3, <2>2, FirstAssumption DEF Born
    <3>2. Entries(q, u) = {}
      BY <3>1 DEF Entries, Unborn
    <3>3. ASSUME Logs(q, u)
          PROVE  FALSE
      <4>1. pc[q] = "done" /\ u = Author(q)
        BY <3>3 DEF Logs
      <4>2. CASE req[q].op = "register"
        BY <3>1, <4>1, <4>2 DEF Author, Born
      <4>3. CASE req[q].op # "register"
        <5>1. u = got[q].id /\ got[q] # None
          BY <4>1, <4>3 DEF Author, Reads
        <5> QED BY <3>1, <5>1 DEF Unborn
      <4> QED BY <4>2, <4>3
    <3> QED BY <1>1, <1>2, <3>2, <3>3
  <2> QED BY <2>1, <2>2
<1> QED BY <1>3 DEF AuditComplete, Entries, Logs, Author

LEMMA AuditStep == TypeOK /\ Reads /\ Unborn /\ AuditComplete /\ [Next]_vars => AuditComplete'
<1> SUFFICES ASSUME TypeOK, Reads, Unborn, AuditComplete, [Next]_vars PROVE AuditComplete'
  OBVIOUS
<1>1. CASE UNCHANGED vars
  BY <1>1 DEF vars, rows, AuditComplete, Exists
<1>2. ASSUME NEW r \in Requests, NEW p, pc[r] # "done", pc' = [pc EXCEPT ![r] = p],
             UNCHANGED <<req, got, audit>>, p # "done" \/ req[r].op \notin Logged,
             \A u \in Ids : Exists(u)' => Exists(u)
      PROVE  AuditComplete'
  BY <1>2, AuditQuiet DEF TypeOK
<1>3. ASSUME users' = users PROVE \A u \in Ids : Exists(u)' => Exists(u)
  BY <1>3 DEF Exists
<1>4. ASSUME NEW r \in Requests, NEW ask \in Ask, Arrive(r, ask) PROVE AuditComplete'
  <2>1. pc[r] # "done" /\ pc'[r] # "done"
    BY <1>4 DEF Arrive, TypeOK
  <2>2. \A q \in Requests \ {r} : pc'[q] = pc[q] /\ req'[q] = req[q] /\ got'[q] = got[q]
    BY <1>4 DEF Arrive, TypeOK
  <2> QED BY <1>3, <1>4, <2>1, <2>2, AuditQuiet DEF Arrive, rows
<1>5. ASSUME NEW r \in Requests, Select(r) PROVE AuditComplete'
  <2>1. pc[r] # "done" /\ pc'[r] # "done"
    BY <1>5 DEF Select, TypeOK
  <2>2. \A q \in Requests \ {r} : pc'[q] = pc[q] /\ req'[q] = req[q] /\ got'[q] = got[q]
    BY <1>5 DEF Select, TypeOK
  <2> QED BY <1>3, <1>5, <2>1, <2>2, AuditQuiet DEF Select, rows
<1>6. ASSUME NEW r \in Requests, pc[r] # "done", SelectNobody(r) \/ Fail(r) PROVE AuditComplete'
  BY <1>2, <1>3, <1>6 DEF SelectNobody, Fail, rows
<1>7. ASSUME NEW r \in Requests, Refresh(r) \/ Forgot(r) \/ CreateOrder(r) PROVE AuditComplete'
  BY <1>2, <1>3, <1>7 DEF Refresh, Forgot, CreateOrder, Is, Commit, rows, Logged
<1>8. ASSUME NEW r \in Requests, Pay(r) PROVE AuditComplete'
  BY <1>8 DEF Pay, rows, AuditComplete, Exists
\* A writer other than a registration brings no account about.
<1>9. ASSUME NEW r \in Requests, SetPassword(r) \/ Toggle(r) \/ Delete(r) \/ Upgrade(r)
      PROVE  /\ pc[r] = "read" /\ req[r].op # "register" /\ got[r] # None /\ got[r].id \in Ids
             /\ \A u \in Ids : Exists(u)' => Exists(u)
  <2>1. pc[r] = "read" /\ req[r].op # "register"
    BY <1>9 DEF SetPassword, Toggle, Delete, Upgrade, Is
  <2> QED BY <1>9, <2>1, WritesWrite, ExistsStep, WriterGot
<1>10. ASSUME NEW r \in Requests, Register(r) PROVE AuditComplete'
  <2>1. Author(r) = r /\ \A u \in Ids : Exists(u)' => Exists(u) \/ u = r
    BY <1>10, WritesWrite, ExistsStep DEF Register, Is, Author
  <2> QED BY <1>10, <2>1, AuditLogs DEF Register, Is, Commit, Logged
<1>11. ASSUME NEW r \in Requests, Login(r) \/ LogUpgrade(r) PROVE AuditComplete'
  <2>1. Author(r) = got[r].id /\ req[r].op \in Logged
    BY <1>11 DEF Login, LogUpgrade, Is, Author, Logged, Reads
  <2> QED BY <1>3, <1>11, <2>1, AuditLogs DEF Login, LogUpgrade, Is, Commit
<1>12. ASSUME NEW r \in Requests, SetPassword(r) PROVE AuditComplete'
  <2>1. CASE req[r].op = "change"
    BY <1>9, <1>12, <2>1, AuditLogs DEF SetPassword, Commit, Author, Logged
  <2>2. CASE req[r].op = "reset"
    BY <1>2, <1>9, <1>12, <2>2 DEF SetPassword, Commit, Logged
  <2> QED BY <1>12, <2>1, <2>2 DEF SetPassword, Is
<1>13. ASSUME NEW r \in Requests, Toggle(r) \/ Upgrade(r) PROVE AuditComplete'
  BY <1>2, <1>9, <1>13 DEF Toggle, Upgrade, Commit, Is, Logged
<1>14. ASSUME NEW r \in Requests, Delete(r) PROVE AuditComplete'
  <2>1. /\ users' = [users EXCEPT ![got[r].id] = None]
        /\ audit' = {a \in audit : a.user # got[r].id}
        /\ pc' = [pc EXCEPT ![r] = "done"] /\ req' = req /\ got' = got
        /\ req[r].op \notin Logged
    BY <1>14 DEF Delete, Commit, Is, Logged
  <2>2. \A a : Exists(a.user)' => (a \in audit' <=> a \in audit)
    BY <1>9, <1>14, <2>1 DEF Exists, TypeOK
  <2> QED BY <1>9, <1>14, <2>1, <2>2, AuditQuiet DEF TypeOK
<1>15. ASSUME NEW r \in Requests, Refuse(r) \/ WriteFails(r) PROVE pc[r] # "done" /\ Fail(r)
  BY <1>15 DEF Refuse, WriteFails
<1>16. ASSUME NEW r \in Requests, Interrupted(r) PROVE AuditComplete'
  BY <1>2, <1>3, <1>16 DEF Interrupted, rows
<1> QED BY <1>1, <1>4, <1>5, <1>6, <1>7, <1>8, <1>10, <1>11, <1>12, <1>13, <1>14, <1>15, <1>16
        DEF Next, SelectNobody

\* The log of an existing account is exactly its registration, logins, password
\* changes and upgrades, for any requests, deletions and crashes.
THEOREM AuditIsComplete == Spec => []AuditComplete
<1>1. Init => AuditComplete
  BY DEF Init, AuditComplete
<1> QED BY <1>1, TypeInit, TypeStep, ReadsInit, ReadsStep, UnbornInit, UnbornStep, AuditStep, PTL DEF Spec

-----------------------------------------------------------------------------
(* Toggles of a rule.                                                      *)

\* Unless two toggles of a user overlapped, a toggle is alone between its read and its
\* commit, and what it read still holds.
Alone(u) ==
    /\ \A q, s \in Toggling(u) : q = s
    /\ \A q \in Toggling(u) : Exists(u) => got[q].row.ruleActive = users[u].ruleActive
    /\ Exists(u) => (users[u].ruleActive <=> toggled[u] % 2 = 0)
AllAlone == \A u \in Ids \ crossed : Alone(u)

LEMMA Parity ==
  ASSUME NEW n \in Nat
  PROVE  (n + 1) % 2 = 0 <=> ~(n % 2 = 0)
  OBVIOUS

\* A step that begins and ends no toggle of u, and keeps its switch.
LEMMA AloneKept ==
  ASSUME TypeOK, AllAlone, NEW u \in Ids \ crossed, Toggling(u)' \subseteq Toggling(u), got' = got,
         toggled'[u] = toggled[u],
         Exists(u)' => Exists(u) /\ users'[u].ruleActive = users[u].ruleActive
  PROVE  Alone(u)'
  BY DEF AllAlone, Alone

\* What a step of r does to the toggles that are under way.
LEMMA TogglingMoves ==
  ASSUME TypeOK, NEW r \in Requests, NEW p, pc' = [pc EXCEPT ![r] = p], UNCHANGED <<req, got>>,
         p # "read" \/ req[r].op # "toggle"
  PROVE  \A u : Toggling(u)' = Toggling(u) \ {r}
<1>1. \A q \in Requests : pc'[q] = IF q = r THEN p ELSE pc[q]
  BY DEF TypeOK
<1>2. CASE p # "read"
  BY <1>1, <1>2 DEF Toggling
<1>3. CASE req[r].op # "toggle"
  BY <1>1, <1>3 DEF Toggling
<1> QED BY <1>2, <1>3

LEMMA AloneStep == TypeOK /\ Reads /\ Unborn /\ AllAlone /\ [Next]_vars => AllAlone'
<1> SUFFICES ASSUME TypeOK, Reads, Unborn, AllAlone, [Next]_vars PROVE AllAlone'
  OBVIOUS
<1>1. CASE UNCHANGED vars
  BY <1>1 DEF vars, rows, AllAlone, Alone, Toggling, Exists
\* Steps that move a request and leave the rows, the toggles and what was read alone.
<1>2. ASSUME NEW r \in Requests, NEW p, pc' = [pc EXCEPT ![r] = p],
             UNCHANGED <<req, got, users, toggled, crossed>>, p # "read" \/ req[r].op # "toggle"
      PROVE  AllAlone'
  <2>1. \A u : Toggling(u)' \subseteq Toggling(u)
    BY <1>2, TogglingMoves
  <2> QED BY <1>2, <2>1, AloneKept DEF AllAlone, Exists
<1>3. ASSUME NEW r \in Requests, NEW ask \in Ask, Arrive(r, ask) PROVE AllAlone'
  <2>1. \A q \in Requests : /\ pc'[q] = IF q = r THEN "open" ELSE pc[q]
                            /\ req'[q] = IF q = r THEN ask ELSE req[q]
    BY <1>3 DEF Arrive, TypeOK
  <2>2. got' = got /\ users' = users /\ toggled' = toggled /\ crossed' = crossed
    BY <1>3 DEF Arrive, rows
  <2>3. \A u : Toggling(u)' \subseteq Toggling(u)
    BY <2>1, <2>2 DEF Toggling
  <2> QED BY <2>2, <2>3, AloneKept DEF AllAlone, Exists
<1>4. ASSUME NEW r \in Requests, Select(r) PROVE AllAlone'
  <2>1. PICK v \in Subject(r) :
           /\ got' = [got EXCEPT ![r] = [id |-> v, row |-> users[v]]]
           /\ crossed' = IF req[r].op = "toggle" /\ Toggling(v) # {} THEN crossed \cup {v}
                                                                      ELSE crossed
    BY <1>4 DEF Select
  <2>2. \A q \in Requests : /\ pc'[q] = IF q = r THEN "read" ELSE pc[q]
                            /\ got'[q] = IF q = r THEN [id |-> v, row |-> users[v]] ELSE got[q]
    BY <1>4, <2>1 DEF Select, TypeOK
  <2>3. users' = users /\ toggled' = toggled /\ req' = req /\ pc[r] = "open"
    BY <1>4 DEF Select, rows
  <2>4. \A u : r \notin Toggling(u) /\ Toggling(u) \subseteq Requests
    BY <2>3 DEF Toggling
  <2>5. \A u : Toggling(u)' = IF req[r].op = "toggle" /\ u = v THEN Toggling(u) \cup {r} ELSE Toggling(u)
    BY <2>2, <2>3, <2>4 DEF Toggling
  <2>6. ASSUME NEW u \in Ids, u \notin crossed' PROVE Alone(u)'
    <3>1. u \notin crossed /\ Alone(u)
      BY <2>1, <2>6 DEF AllAlone
    <3>2. \A q \in Toggling(u) : got'[q] = got[q]
      BY <2>2, <2>4
    <3>3. CASE req[r].op = "toggle" /\ u = v
      <4>1. Toggling(u) = {} /\ Toggling(u)' = {r}
        BY <2>1, <2>5, <2>6, <3>3
      <4>2. got'[r].row.ruleActive = users[u].ruleActive
        BY <2>2, <3>3
      <4> QED BY <2>3, <3>1, <4>1, <4>2 DEF Alone, Exists
    <3>4. CASE ~(req[r].op = "toggle" /\ u = v)
      <4>1. Toggling(u)' = Toggling(u)
        BY <2>5, <3>4
      <4> QED BY <2>3, <3>1, <3>2, <4>1 DEF Alone, Exists
    <3> QED BY <3>3, <3>4
  <2> QED BY <2>6 DEF AllAlone
<1>5. ASSUME NEW r \in Requests, SelectNobody(r) PROVE AllAlone'
  BY <1>2, <1>5 DEF SelectNobody, rows
<1>6. ASSUME NEW r \in Requests, Fail(r) PROVE AllAlone'
  BY <1>2, <1>6 DEF Fail, rows
<1>7. ASSUME NEW r \in Requests, Login(r) \/ Refresh(r) \/ Forgot(r) \/ CreateOrder(r) \/ LogUpgrade(r)
      PROVE  AllAlone'
  BY <1>2, <1>7 DEF Login, Refresh, Forgot, CreateOrder, LogUpgrade, Commit, rows
<1>8. ASSUME NEW r \in Requests, Pay(r) PROVE AllAlone'
  BY <1>8 DEF Pay, rows, AllAlone, Alone, Toggling, Exists
\* The writers: one registers, deletes or edits a row.
<1>9. ASSUME NEW r \in Requests, Writer(r)
      PROVE  /\ \A u : Toggling(u)' = Toggling(u) \ {r}
             /\ UNCHANGED <<req, got, crossed>>
  <2>1. PICK p : p # "read" /\ pc' = [pc EXCEPT ![r] = p] /\ UNCHANGED <<req, got, crossed>>
    BY <1>9 DEF Writer, Register, SetPassword, Toggle, Delete, Upgrade, Commit
  <2> QED BY <2>1, TogglingMoves
<1>10. ASSUME NEW r \in Requests, Writer(r), ~Toggle(r), ~Register(r) PROVE AllAlone'
  <2>1. toggled' = toggled
    BY <1>10 DEF Writer, SetPassword, Delete, Upgrade
  <2>2. req[r].op # "toggle" /\ req[r].op # "register"
    BY <1>10 DEF Writer, SetPassword, Delete, Upgrade, Is
  <2>3. ASSUME NEW u \in Ids, Exists(u)'
        PROVE  Exists(u) /\ users'[u].ruleActive = users[u].ruleActive
    BY <1>10, <2>2, <2>3, WritesWrite DEF Writer, Written, Exists, TypeOK
  <2> QED BY <1>9, <1>10, <2>1, <2>3, AloneKept DEF AllAlone
<1>11. ASSUME NEW r \in Requests, Register(r) PROVE AllAlone'
  <2>1. r \in Ids /\ ~Born(r) /\ pc[r] = "read"
    BY <1>11, FirstAssumption DEF Register, Is, Born, Ids
  <2>2. /\ users'[r].ruleActive /\ toggled' = toggled /\ toggled[r] = 0
        /\ \A u \in Ids \ {r} : users'[u] = users[u]
    BY <1>11, <2>1, RequestFields, FreshFields DEF Register, Is, Commit, TypeOK, Unborn
  <2>3. Toggling(r)' = {}
    <3>1. Toggling(r) = {}
      BY <2>1 DEF Toggling, Unborn, Reads
    <3> QED BY <1>9, <1>11, <3>1 DEF Writer
  <2>4. Alone(r)'
    BY <2>2, <2>3 DEF Alone
  <2>5. ASSUME NEW u \in Ids \ crossed, u # r PROVE Alone(u)'
    BY <1>9, <1>11, <2>2, <2>5, AloneKept DEF Exists, Writer
  <2> QED BY <1>9, <1>11, <2>4, <2>5 DEF AllAlone, Writer
<1>12. ASSUME NEW r \in Requests, Toggle(r) PROVE AllAlone'
  <2>1. got[r].id \in Ids
    BY <1>12, WriterGot DEF Toggle, Is
  <2>2. PICK v \in Ids :
           /\ v = got[r].id /\ got[r] # None /\ got[r].row \in User
           /\ pc[r] = "read" /\ req[r].op = "toggle"
           /\ Exists(v) /\ users[v] \in User
    BY <1>12, <2>1, WriterGot DEF Toggle, Is, Gone, Exists, TypeOK
  <2>3. users' = [users EXCEPT ![v] = [users[v] EXCEPT !.ruleActive = ~got[r].row.ruleActive]]
    BY <1>12, <2>2 DEF Toggle, Commit, TypeOK
  <2>4. /\ users'[v].ruleActive = ~got[r].row.ruleActive
        /\ \A u \in Ids \ {v} : users'[u] = users[u]
    BY <2>2, <2>3, EditFields DEF TypeOK
  <2>5. toggled'[v] = toggled[v] + 1 /\ \A u \in Ids \ {v} : toggled'[u] = toggled[u]
    BY <1>12, <2>2 DEF Toggle, TypeOK
  <2>6. r \in Toggling(v)
    BY <2>2 DEF Toggling
  <2>7. ASSUME v \notin crossed PROVE Alone(v)'
    <3>1. Alone(v)
      BY <2>2, <2>7 DEF AllAlone
    <3>2. Toggling(v)' = {}
      BY <1>9, <1>12, <2>6, <3>1 DEF Alone, Writer
    <3>3. got[r].row.ruleActive = users[v].ruleActive
      BY <2>2, <2>6, <3>1 DEF Alone
    <3>4. toggled'[v] % 2 = 0 <=> ~(toggled[v] % 2 = 0)
      BY <2>5, Parity DEF TypeOK
    <3>5. users[v].ruleActive <=> toggled[v] % 2 = 0
      BY <2>2, <3>1 DEF Alone
    <3>6. users'[v].ruleActive <=> toggled'[v] % 2 = 0
      BY Zenon, <2>4, <3>3, <3>4, <3>5
    <3> QED BY <3>2, <3>6 DEF Alone
  <2>8. ASSUME NEW u \in Ids \ crossed, u # v PROVE Alone(u)'
    BY <1>9, <1>12, <2>4, <2>5, <2>8, AloneKept DEF Exists, Writer
  <2> QED BY <1>9, <1>12, <2>7, <2>8 DEF AllAlone, Writer
<1>13. ASSUME NEW r \in Requests, Interrupted(r) PROVE AllAlone'
  BY <1>2, <1>13 DEF Interrupted, rows
<1> QED BY <1>1, <1>3, <1>4, <1>5, <1>6, <1>7, <1>8, <1>10, <1>11, <1>12, <1>13
        DEF Next, Refuse, WriteFails, Writer

\* A rule is on after an even number of toggles unless two of them overlapped, for
\* any number of them.
THEOREM TogglesAreCounted == Spec => []TogglesCount
<1>1. Init => AllAlone
  <2> SUFFICES ASSUME Init PROVE AllAlone
    OBVIOUS
  <2>1. PICK e \in Emails, p \in Passwords :
           users = [u \in Ids |-> IF u = First THEN Fresh(e, p) ELSE None]
    BY DEF Init
  <2>2. \A u \in Ids : Toggling(u) = {} /\ toggled[u] = 0
    BY DEF Init, Toggling
  <2> QED BY <2>1, <2>2, FreshFields DEF AllAlone, Alone, Exists
<1>2. AllAlone => TogglesCount
  BY DEF AllAlone, Alone, TogglesCount
<1> QED BY <1>1, <1>2, TypeInit, TypeStep, ReadsInit, ReadsStep, UnbornInit, UnbornStep, AloneStep,
           PTL DEF Spec
=============================================================================
