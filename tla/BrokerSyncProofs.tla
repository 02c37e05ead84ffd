-------------------------- MODULE BrokerSyncProofs --------------------------
(***************************************************************************)
(* Proofs about BrokerSync, for any requests, brokers, trades and pool:    *)
(* types, one active connection per broker, syncs for active connections,  *)
(* and that the pool implements a semaphore.                               *)
(***************************************************************************)
EXTENDS BrokerSync, FiniteSetTheorems, TLAPS

PCs == {"idle", "waiting", "open", "read", "fetching", "returned",
        "scheduled", "working", "done", "failed"}

-----------------------------------------------------------------------------
(* Types.                                                                  *)

LEMMA Stages ==
  /\ AfterHandler \in {"returned", "scheduled"}
  /\ AfterCommit \in {"scheduled", "done"}
  /\ AfterJob \in {"returned", "done"}
  BY DEF AfterHandler, AfterCommit, AfterJob

LEMMA ActiveRows == \A b : Active(b) \subseteq Rows
  BY DEF Active

\* Rows stay rows: connections are switched off, never deleted.
LEMMA DeactivatedTypes ==
  ASSUME TypeOK, NEW C \in SUBSET Rows
  PROVE  /\ Deactivated(C) \in [Requests -> Connection \cup {None}]
         /\ \A i \in Requests : Deactivated(C)[i] = None <=> conns[i] = None
         /\ \A i \in Rows : /\ Deactivated(C)[i].broker = conns[i].broker
                            /\ Deactivated(C)[i].active <=> conns[i].active /\ i \notin C
<1>1. \A i \in Rows : conns[i] \in Connection
  BY DEF TypeOK, Rows
<1>2. \A c \in Connection : [c EXCEPT !.active = FALSE] \in Connection
  BY DEF Connection
<1>3. \A c \in Connection : /\ [c EXCEPT !.active = FALSE].broker = c.broker
                            /\ ~[c EXCEPT !.active = FALSE].active
  BY DEF Connection
<1>4. None \notin Connection
  BY NoneAssumption DEF Connection
<1>5. Rows \subseteq Requests /\ conns \in [Requests -> Connection \cup {None}]
  BY DEF Rows, TypeOK
<1> QED BY <1>1, <1>2, <1>3, <1>4, <1>5 DEF Deactivated, Rows

LEMMA SyncedTypes ==
  ASSUME TypeOK, NEW C \in SUBSET Rows,
         conns' = [i \in Requests |-> IF i \in C THEN [conns[i] EXCEPT !.synced = TRUE]
                                                 ELSE conns[i]]
  PROVE  /\ conns' \in [Requests -> Connection \cup {None}]
         /\ Rows' = Rows
         /\ \A i \in Rows : /\ conns'[i].broker = conns[i].broker
                            /\ conns'[i].active <=> conns[i].active
<1>1. \A i \in Rows : conns[i] \in Connection
  BY DEF TypeOK, Rows
<1>2. \A c \in Connection : [c EXCEPT !.synced = TRUE] \in Connection
  BY DEF Connection
<1>3. \A c \in Connection : /\ [c EXCEPT !.synced = TRUE].broker = c.broker
                            /\ [c EXCEPT !.synced = TRUE].active <=> c.active
  BY DEF Connection
<1>4. None \notin Connection
  BY NoneAssumption DEF Connection
<1>5. Rows \subseteq Requests /\ conns \in [Requests -> Connection \cup {None}]
  BY DEF Rows, TypeOK
<1> QED BY <1>1, <1>2, <1>3, <1>4, <1>5 DEF Rows

\* A connect that commits adds a row.
LEMMA ConnectTypes ==
  ASSUME TypeOK, NEW r \in Requests, req[r].op = "connect",
         conns' = [Deactivated(seen[r]) EXCEPT ![r] = NewRow(r)]
  PROVE  /\ conns' \in [Requests -> Connection \cup {None}]
         /\ Rows' = Rows \cup {r}
         /\ req[r].on \in Brokers
         /\ conns'[r].broker = req[r].on /\ conns'[r].active
         /\ \A i \in Rows \ {r} : /\ conns'[i].broker = conns[i].broker
                                  /\ conns'[i].active <=> conns[i].active /\ i \notin seen[r]
<1>1. req[r] \in Ask \cup {NoAsk} /\ seen[r] \in SUBSET Rows
  BY DEF TypeOK
<1>2. req[r].on \in Brokers /\ req[r].live \in BOOLEAN
  BY <1>1 DEF Ask, NoAsk
<1>3. NewRow(r) \in Connection /\ NewRow(r).broker = req[r].on /\ NewRow(r).active
  BY <1>2 DEF NewRow, Connection
<1>4. None \notin Connection
  BY NoneAssumption DEF Connection
<1>5. /\ Deactivated(seen[r]) \in [Requests -> Connection \cup {None}]
      /\ \A i \in Requests : Deactivated(seen[r])[i] = None <=> conns[i] = None
      /\ \A i \in Rows : /\ Deactivated(seen[r])[i].broker = conns[i].broker
                         /\ Deactivated(seen[r])[i].active <=> conns[i].active /\ i \notin seen[r]
  BY <1>1, DeactivatedTypes
<1>6. conns'[r] = NewRow(r) /\ \A i \in Requests \ {r} : conns'[i] = Deactivated(seen[r])[i]
  BY <1>5
<1>7. Rows \subseteq Requests
  BY DEF Rows
<1>8. conns' \in [Requests -> Connection \cup {None}]
  BY <1>3, <1>5
<1> QED BY <1>2, <1>3, <1>4, <1>5, <1>6, <1>7, <1>8 DEF Rows

LEMMA TypeInit == Init => TypeOK
<1> SUFFICES ASSUME Init PROVE TypeOK
  OBVIOUS
<1>1. /\ conns \in [Requests -> Connection \cup {None}] /\ imported \in [RoundTrips -> Nat]
      /\ req \in [Requests -> Ask \cup {NoAsk}] /\ pc \in [Requests -> PCs]
      /\ seen \in [Requests -> SUBSET Rows] /\ answer \in [Requests -> SUBSET executed]
  BY DEF Init, PCs
<1> QED BY <1>1 DEF Init, TypeOK, PCs

\* What a step that moves one request and leaves the rows alone has to keep.
LEMMA MoveTypes ==
  ASSUME TypeOK, NEW r \in Requests, NEW p \in PCs, pc' = [pc EXCEPT ![r] = p],
         UNCHANGED <<exitOrder, executed, rows, req, seen, answer, overtaken, raced>>,
         pool' \in SUBSET Session
  PROVE  TypeOK'
<1>1. pc' \in [Requests -> PCs]
  BY DEF TypeOK, PCs
<1>2. Rows' = Rows
  BY DEF rows, Rows
<1> QED BY <1>1, <1>2 DEF TypeOK, rows, PCs

LEMMA SelectTypes ==
  ASSUME TypeOK, NEW r \in Requests, NEW C \in SUBSET Rows, NEW p \in PCs, Select(r, C, p)
  PROVE  TypeOK'
<1>1. pc' \in [Requests -> PCs] /\ seen' \in [Requests -> SUBSET Rows]
  BY DEF TypeOK, PCs, Select
<1>2. Rows' = Rows
  BY DEF rows, Rows, Select
<1> QED BY <1>1, <1>2 DEF TypeOK, rows, Select, PCs

\* A commit closes its session; no row disappears.
LEMMA CommitTypes ==
  ASSUME TypeOK, NEW r \in Requests, NEW p \in PCs, Close(r, p),
         conns' \in [Requests -> Connection \cup {None}], Rows \subseteq Rows',
         imported' \in [RoundTrips -> Nat],
         UNCHANGED <<exitOrder, executed, req, seen, answer>>,
         overtaken' \in SUBSET Requests, raced' \in SUBSET Brokers
  PROVE  TypeOK'
<1>1. pc' \in [Requests -> PCs] /\ pool' \in SUBSET Session
  BY DEF TypeOK, PCs, Close
<1>2. seen' \in [Requests -> SUBSET Rows']
  BY DEF TypeOK
<1> QED BY <1>1, <1>2 DEF TypeOK, PCs

LEMMA OvertakesTypes ==
  ASSUME TypeOK, NEW r, NEW C, NEW b, Overtakes(r, C, b)
  PROVE  overtaken' \in SUBSET Requests
  BY DEF TypeOK, Overtakes

LEMMA TypeStep == TypeOK /\ [Next]_vars => TypeOK'
<1> SUFFICES ASSUME TypeOK, [Next]_vars PROVE TypeOK'
  OBVIOUS
<1>0. \A p \in {AfterHandler, AfterCommit, AfterJob, "open", "read", "fetching", "working",
                "waiting", "done", "failed"} : p \in PCs
  BY Stages DEF PCs
<1>1. CASE UNCHANGED vars
  BY <1>1 DEF vars, rows, TypeOK, Rows
<1>2. ASSUME NEW t \in RoundTrips, Execute(t) PROVE TypeOK'
  <2>1. Rows' = Rows
    BY <1>2 DEF Execute, rows, Rows
  <2>2. answer' \in [Requests -> SUBSET executed']
    BY <1>2 DEF Execute, TypeOK
  <2> QED BY <1>2, <2>1, <2>2 DEF Execute, TypeOK, rows
<1>3. ASSUME NEW r \in Requests, NEW ask \in Ask, Arrive(r, ask) PROVE TypeOK'
  <2>1. Rows' = Rows
    BY <1>3 DEF Arrive, rows, Rows
  <2>2. req' \in [Requests -> Ask \cup {NoAsk}] /\ pc' \in [Requests -> PCs]
    BY <1>3, <1>0 DEF Arrive, TypeOK, PCs
  <2> QED BY <1>3, <2>1, <2>2 DEF Arrive, TypeOK, rows, PCs
<1>4. ASSUME NEW r \in Requests, Progress(r) PROVE TypeOK'
  <2>0. Own(r) \in Session /\ Job(r) \in Session /\ pool \in SUBSET Session
    BY DEF Own, Job, Session, TypeOK
  <2>1. CASE Checkout(r)
    BY <2>1, <2>0, <1>0, MoveTypes DEF Checkout
  <2>2. CASE Refuse(r)
    BY <2>2, <2>0, <1>0, MoveTypes DEF Refuse, Close
  <2>3. CASE GiveUp(r)
    <3>1. CASE pc[r] = "waiting" /\ Refuse(r)
      BY <3>1, <2>2
    <3>2. CASE pc[r] = "scheduled" /\ pc' = [pc EXCEPT ![r] = AfterJob]
               /\ UNCHANGED <<exitOrder, executed, rows, req, seen, answer, pool, overtaken, raced>>
      BY <3>2, <2>0, <1>0, MoveTypes
    <3> QED BY <2>3, <3>1, <3>2 DEF GiveUp
  <2>4. CASE JobDone(r)
    BY <2>4, <2>0, <1>0, MoveTypes DEF JobDone
  <2>5. CASE ConnectSelect(r)
    BY <2>5, <1>0, ActiveRows, SelectTypes DEF ConnectSelect
  <2>6. CASE DisconnectSelect(r)
    BY <2>6, <1>0, SelectTypes DEF DisconnectSelect, Target
  <2>7. CASE SyncSelect(r)
    <3>1. PICK i \in Target(r) :
            Select(r, {i}, "fetching") \/ Select(r, {}, AfterHandler)
      BY <2>7 DEF SyncSelect
    <3> QED BY <3>1, <1>0, SelectTypes DEF Target
  <2>8. CASE SelectRefused(r)
    BY <2>8, <2>2 DEF SelectRefused
  <2>9. CASE Fetched(r)
    <3>1. PICK i \in seen[r] :
            answer' = [answer EXCEPT ![r] = {t \in executed : t[1] = conns[i].broker}]
      BY <2>9 DEF Fetched
    <3>2. answer' \in [Requests -> SUBSET executed] /\ pc' \in [Requests -> PCs]
      BY <3>1, <2>9, <1>0 DEF Fetched, TypeOK, PCs
    <3>3. Rows' = Rows
      BY <2>9 DEF Fetched, rows, Rows
    <3> QED BY <2>9, <3>2, <3>3 DEF Fetched, TypeOK, rows, PCs
  <2>10. CASE FetchFailed(r)
    BY <2>10, <2>2 DEF FetchFailed
  <2>11. CASE ConnectCommit(r)
    <3>1. /\ conns' \in [Requests -> Connection \cup {None}] /\ Rows' = Rows \cup {r}
          /\ req[r].on \in Brokers
      BY <2>11, ConnectTypes DEF ConnectCommit
    <3>2. raced' \in SUBSET Brokers /\ overtaken' \in SUBSET Requests
      BY <2>11, <3>1, OvertakesTypes DEF ConnectCommit, TypeOK
    <3>3. imported' \in [RoundTrips -> Nat]
      BY <2>11 DEF ConnectCommit, TypeOK
    <3> QED BY <2>11, <3>1, <3>2, <3>3, <1>0, CommitTypes DEF ConnectCommit
  <2>12. CASE DisconnectCommit(r)
    <3>1. seen[r] \in SUBSET Rows /\ Rows \subseteq Requests
      BY DEF TypeOK, Rows
    <3>2. conns' \in [Requests -> Connection \cup {None}] /\ Rows' = Rows
      BY <2>12, <3>1, DeactivatedTypes DEF DisconnectCommit, Rows
    <3>3. raced' \in SUBSET Brokers /\ overtaken' \in SUBSET Requests
      BY <2>12, OvertakesTypes DEF DisconnectCommit, TypeOK
    <3>4. imported' \in [RoundTrips -> Nat]
      BY <2>12 DEF DisconnectCommit, TypeOK
    <3> QED BY <2>12, <3>2, <3>3, <3>4, <1>0, CommitTypes DEF DisconnectCommit
  <2>13. CASE SyncCommit(r)
    <3>1. conns' \in [Requests -> Connection \cup {None}] /\ Rows' = Rows
      BY <2>13, SyncedTypes DEF SyncCommit, TypeOK
    <3>2. imported' \in [RoundTrips -> Nat]
      BY <2>13 DEF SyncCommit, TypeOK
    <3>3. overtaken' \in SUBSET Requests /\ raced' \in SUBSET Brokers
      BY <2>13 DEF SyncCommit, TypeOK
    <3> QED BY <2>13, <3>1, <3>2, <3>3, <1>0, CommitTypes DEF SyncCommit
  <2> QED BY <1>4, <2>1, <2>3, <2>4, <2>5, <2>6, <2>7, <2>8, <2>9, <2>10, <2>11, <2>12, <2>13
          DEF Progress
<1> QED BY <1>1, <1>2, <1>3, <1>4 DEF Next

\* Every variable has its type: in particular a request has read rows that exist and
\* been answered round trips that were completed.
THEOREM TypeCorrect == Spec => []TypeOK
  BY TypeInit, TypeStep, PTL DEF Spec

-----------------------------------------------------------------------------
(* The three commits, by what they do to the active connections.           *)

LEMMA ConnectCommits ==
  ASSUME TypeOK, NEW r \in Requests, ConnectCommit(r)
  PROVE  /\ \A b : b # req[r].on => Active(b)' \subseteq Active(b)
         /\ Active(req[r].on)' \subseteq (Active(req[r].on) \ seen[r]) \cup {r}
         /\ \A i \in Rows : conns[i].active /\ i \notin seen[r] => conns'[i].active
<1>1. /\ Rows' = Rows \cup {r} /\ conns'[r].broker = req[r].on /\ conns'[r].active
      /\ \A i \in Rows \ {r} : /\ conns'[i].broker = conns[i].broker
                               /\ conns'[i].active <=> conns[i].active /\ i \notin seen[r]
  BY ConnectTypes DEF ConnectCommit
<1>2. ASSUME NEW b, NEW i \in Active(b)' PROVE (i = r /\ b = req[r].on) \/ i \in Active(b) \ seen[r]
  <2>1. i \in Rows' /\ conns'[i].active /\ conns'[i].broker = b
    BY DEF Active
  <2>2. CASE i = r
    BY <2>1, <2>2, <1>1
  <2>3. CASE i # r
    <3>1. i \in Rows /\ conns[i].active /\ conns[i].broker = b /\ i \notin seen[r]
      BY Zenon, <1>1, <2>1, <2>3
    <3> QED BY <3>1 DEF Active
  <2> QED BY <2>2, <2>3
<1>3. \A i \in Rows : conns[i].active /\ i \notin seen[r] => conns'[i].active
  BY Zenon, <1>1
<1>4. ASSUME NEW b, b # req[r].on PROVE Active(b)' \subseteq Active(b)
  BY Zenon, <1>2, <1>4
<1>5. req' = req
  BY DEF ConnectCommit
<1>6. ASSUME NEW i \in Active(req[r].on)' PROVE i = r \/ i \in Active(req[r].on) \ seen[r]
  <2>1. i \in {j \in Rows' : conns'[j].active /\ conns'[j].broker = req[r].on}
    BY <1>5 DEF Active
  <2> QED BY <2>1, <1>2 DEF Active
<1> QED BY <1>3, <1>4, <1>5, <1>6

LEMMA DisconnectCommits ==
  ASSUME TypeOK, NEW r \in Requests, DisconnectCommit(r)
  PROVE  /\ \A b : Active(b)' \subseteq Active(b)
         /\ \A i \in Rows : conns[i].active /\ i \notin seen[r] => conns'[i].active
<1>1. seen[r] \in SUBSET Rows /\ Rows \subseteq Requests
  BY DEF TypeOK, Rows
<1>2. /\ \A i : i \in Rows' => i \in Rows
      /\ \A i \in Rows : /\ conns'[i].broker = conns[i].broker
                         /\ conns'[i].active => conns[i].active
                         /\ conns[i].active /\ i \notin seen[r] => conns'[i].active
  BY <1>1, DeactivatedTypes DEF DisconnectCommit, Rows
<1>3. ASSUME NEW b, NEW i \in Active(b)' PROVE i \in Active(b)
  <2>1. i \in Rows' /\ conns'[i].active /\ conns'[i].broker = b
    BY DEF Active
  <2>2. i \in Rows
    BY Zenon, <1>2, <2>1
  <2>3. conns'[i].broker = conns[i].broker /\ (conns'[i].active => conns[i].active)
    BY Zenon, <1>2, <2>2
  <2>4. conns[i].active /\ conns[i].broker = b
    BY <2>1, <2>3
  <2> QED BY Zenon, <2>2, <2>4 DEF Active
<1>4. \A i \in Rows : conns[i].active /\ i \notin seen[r] => conns'[i].active
  BY Zenon, <1>2
<1> QED BY <1>3, <1>4

LEMMA SyncCommits ==
  ASSUME TypeOK, NEW r \in Requests, SyncCommit(r)
  PROVE  /\ \A b : Active(b)' \subseteq Active(b)
         /\ \A i \in Rows : conns[i].active => conns'[i].active
<1>1. /\ \A i : i \in Rows' => i \in Rows
      /\ \A i \in Rows : /\ conns'[i].broker = conns[i].broker
                         /\ conns'[i].active => conns[i].active
                         /\ conns[i].active => conns'[i].active
  BY SyncedTypes DEF SyncCommit, TypeOK
<1>2. ASSUME NEW b, NEW i \in Active(b)' PROVE i \in Active(b)
  <2>1. i \in Rows' /\ conns'[i].active /\ conns'[i].broker = b
    BY DEF Active
  <2>2. i \in Rows
    BY Zenon, <1>1, <2>1
  <2>3. conns'[i].broker = conns[i].broker /\ (conns'[i].active => conns[i].active)
    BY Zenon, <1>1, <2>2
  <2>4. conns[i].active /\ conns[i].broker = b
    BY <2>1, <2>3
  <2> QED BY Zenon, <2>2, <2>4 DEF Active
<1>3. \A i \in Rows : conns[i].active => conns'[i].active
  BY Zenon, <1>1
<1> QED BY <1>2, <1>3

\* A commit overtakes whoever works with what it wrote.
LEMMA Overtaken ==
  ASSUME NEW r, NEW C, NEW b, Overtakes(r, C, b), NEW q \in Requests, q # r, q \notin overtaken',
         pc[q] \in {"read", "fetching", "returned", "scheduled", "working"}
  PROVE  /\ q \notin overtaken
         /\ seen[q] \cap C = {}
         /\ req[q].op = "connect" => req[q].on # b
  BY DEF Overtakes

-----------------------------------------------------------------------------
(* One active connection per broker.                                       *)

AtMostOne == \A b \in Brokers \ raced : \A i, j \in Active(b) : i = j

\* A step of r that reads no connections for a connect and writes none.
LEMMA MoveFound ==
  ASSUME TypeOK, FoundAll, NEW r \in Requests, NEW p \in PCs, pc' = [pc EXCEPT ![r] = p],
         p = "read" => req'[r].op # "connect",
         \A q \in Requests \ {r} : seen'[q] = seen[q] /\ req'[q] = req[q],
         conns' = conns, overtaken' = overtaken
  PROVE  FoundAll'
<1>1. \A b : Active(b)' = Active(b)
  BY DEF Active, Rows
<1>2. \A q \in Requests : pc'[q] = IF q = r THEN p ELSE pc[q]
  BY DEF TypeOK
<1> QED BY <1>1, <1>2 DEF FoundAll

\* The other requests of a step that writes connections.
LEMMA WriteFound ==
  ASSUME TypeOK, FoundAll, NEW r \in Requests, NEW p \in PCs, p # "read", Close(r, p),
         UNCHANGED <<req, seen>>,
         \A q \in Requests : q \notin overtaken' => q \notin overtaken,
         \A q \in Requests \ overtaken' : q # r /\ pc[q] = "read" /\ req[q].op = "connect"
                => Active(req[q].on)' \subseteq Active(req[q].on)
  PROVE  FoundAll'
<1>1. \A q \in Requests : pc'[q] = IF q = r THEN p ELSE pc[q]
  BY DEF TypeOK, Close
<1> QED BY <1>1 DEF FoundAll

LEMMA FoundStep == TypeOK /\ FoundAll /\ [Next]_vars => FoundAll'
<1> SUFFICES ASSUME TypeOK, FoundAll, [Next]_vars PROVE FoundAll'
  OBVIOUS
<1>0. /\ \A p \in {AfterHandler, AfterCommit, AfterJob} : p \in PCs /\ p # "read"
      /\ {"open", "read", "fetching", "working", "waiting", "done", "failed"} \subseteq PCs
  BY Stages DEF PCs
<1>1. CASE UNCHANGED vars
  BY <1>1 DEF vars, rows, FoundAll, Active, Rows
<1>2. ASSUME NEW t \in RoundTrips, Execute(t) PROVE FoundAll'
  BY <1>2 DEF Execute, rows, FoundAll, Active, Rows
<1>3. ASSUME NEW r \in Requests, NEW ask \in Ask, Arrive(r, ask) PROVE FoundAll'
  <2>1. \A q \in Requests \ {r} : req'[q] = req[q] /\ seen'[q] = seen[q]
    BY <1>3 DEF Arrive, TypeOK
  <2> QED BY <1>3, <1>0, <2>1, MoveFound DEF Arrive, rows
<1>4. ASSUME NEW r \in Requests, Progress(r) PROVE FoundAll'
  <2>1. CASE Checkout(r)
    BY <2>1, <1>0, MoveFound DEF Checkout, rows
  <2>2. CASE Refuse(r)
    BY <2>2, <1>0, MoveFound DEF Refuse, Close, rows
  <2>3. CASE GiveUp(r)
    BY <2>3, <2>2, <1>0, MoveFound DEF GiveUp, rows
  <2>4. CASE JobDone(r)
    BY <2>4, <1>0, MoveFound DEF JobDone, rows
  <2>5. CASE ConnectSelect(r)
    <3>1. \A q \in Requests : /\ seen'[q] = IF q = r THEN Active(req[r].on) ELSE seen[q]
                              /\ pc'[q] = IF q = r THEN "read" ELSE pc[q]
      BY <2>5 DEF ConnectSelect, Select, TypeOK
    <3>2. \A b : Active(b)' = Active(b)
      BY <2>5 DEF ConnectSelect, Select, rows, Active, Rows
    <3> QED BY <2>5, <3>1, <3>2 DEF ConnectSelect, Select, FoundAll
  <2>6. ASSUME NEW C, NEW p \in PCs, Select(r, C, p), p = "read" => req[r].op # "connect"
        PROVE  FoundAll'
    <3>1. \A q \in Requests \ {r} : seen'[q] = seen[q]
      BY <2>6 DEF Select, TypeOK
    <3> QED BY <2>6, <3>1, MoveFound DEF Select, rows
  <2>7. CASE DisconnectSelect(r)
    BY <2>7, <2>6, <1>0 DEF DisconnectSelect
  <2>8. CASE SyncSelect(r)
    BY <2>8, <2>6, <1>0 DEF SyncSelect
  <2>9. CASE SelectRefused(r) \/ FetchFailed(r)
    BY <2>9, <2>2 DEF SelectRefused, FetchFailed
  <2>10. CASE Fetched(r)
    BY <2>10, <1>0, MoveFound DEF Fetched, rows
  <2>11. CASE ConnectCommit(r)
    BY <2>11, <1>0, ConnectCommits, Overtaken, WriteFound DEF ConnectCommit, Overtakes
  <2>12. CASE DisconnectCommit(r)
    BY <2>12, <1>0, DisconnectCommits, WriteFound DEF DisconnectCommit, Overtakes
  <2>13. CASE SyncCommit(r)
    BY <2>13, <1>0, SyncCommits, WriteFound DEF SyncCommit
  <2> QED BY <1>4, <2>1, <2>3, <2>4, <2>5, <2>7, <2>8, <2>9, <2>10, <2>11, <2>12, <2>13
          DEF Progress
<1> QED BY <1>1, <1>2, <1>3, <1>4 DEF Next

LEMMA OneStep == TypeOK /\ FoundAll /\ AtMostOne /\ [Next]_vars => AtMostOne'
<1> SUFFICES ASSUME TypeOK, FoundAll, AtMostOne, [Next]_vars PROVE AtMostOne'
  OBVIOUS
<1>1. ASSUME \A b : Active(b)' \subseteq Active(b), raced' = raced PROVE AtMostOne'
  BY <1>1 DEF AtMostOne
<1>2. CASE UNCHANGED <<conns, raced>>
  BY <1>2 DEF AtMostOne, Active, Rows
<1>3. ASSUME NEW r \in Requests, ConnectCommit(r) PROVE AtMostOne'
  <2>1. CASE r \in overtaken
    BY <2>1, <1>3, ConnectCommits DEF ConnectCommit, AtMostOne
  <2>2. CASE r \notin overtaken
    <3>1. Active(req[r].on) \subseteq seen[r]
      BY <2>2, <1>3 DEF FoundAll, ConnectCommit
    <3>2. raced' = raced
      BY <2>2, <1>3 DEF ConnectCommit
    <3>3. ASSUME NEW b \in Brokers \ raced PROVE \A i, j \in Active(b)' : i = j
      <4>1. CASE b = req[r].on
        <5>1. Active(req[r].on)' \subseteq {r}
          BY <3>1, <1>3, ConnectCommits
        <5> QED BY <4>1, <5>1, <1>3 DEF ConnectCommit
      <4>2. CASE b # req[r].on
        BY <4>2, <1>3, ConnectCommits DEF AtMostOne
      <4> QED BY <4>1, <4>2
    <3> QED BY <3>2, <3>3 DEF AtMostOne
  <2> QED BY <2>1, <2>2
<1>4. ASSUME NEW r \in Requests, DisconnectCommit(r) PROVE AtMostOne'
  BY <1>4, <1>1, DisconnectCommits DEF DisconnectCommit
<1>5. ASSUME NEW r \in Requests, SyncCommit(r) PROVE AtMostOne'
  BY <1>5, <1>1, SyncCommits DEF SyncCommit
<1>6. ASSUME NEW r \in Requests, Progress(r) PROVE AtMostOne'
  BY <1>6, <1>2, <1>3, <1>4, <1>5
     DEF Progress, Checkout, GiveUp, Refuse, JobDone, ConnectSelect, DisconnectSelect, SyncSelect,
         SelectRefused, Select, Fetched, FetchFailed, rows
<1> QED BY <1>2, <1>6 DEF Next, Execute, Arrive, rows, vars

LEMMA OneIsOne == TypeOK /\ AtMostOne => OneActive
<1> SUFFICES ASSUME TypeOK, AtMostOne, NEW b \in Brokers \ raced
             PROVE  Cardinality(Active(b)) <= 1
  BY DEF OneActive
<1>1. CASE Active(b) = {}
  BY <1>1, FS_EmptySet
<1>2. ASSUME NEW i \in Active(b) PROVE Cardinality(Active(b)) <= 1
  <2>1. Active(b) = {i}
    BY <1>2 DEF AtMostOne
  <2>2. Cardinality({i}) = 1
    BY FS_Singleton
  <2> QED BY <2>1, <2>2
<1> QED BY <1>1, <1>2

\* A user has one active connection per broker unless a connect committed between
\* the SELECT and the commit of another, for any requests and brokers.
THEOREM OneActivePerBroker == Spec => []OneActive
<1>1. Init => FoundAll /\ AtMostOne
  BY DEF Init, FoundAll, AtMostOne, Active, Rows
<1> QED BY <1>1, TypeInit, TypeStep, FoundStep, OneStep, OneIsOne, PTL DEF Spec

-----------------------------------------------------------------------------
(* Syncs for active connections.                                           *)

Work == {"fetching", "returned", "scheduled", "working"}

SyncsWork == \A r \in Requests \ overtaken : pc[r] \in Work => \A i \in seen[r] : conns[i].active

\* A step of r that stays at work, or is not at work after it, and writes nothing.
LEMMA MoveSyncs ==
  ASSUME TypeOK, SyncsWork, NEW r \in Requests, NEW p, pc' = [pc EXCEPT ![r] = p],
         p \in Work => pc[r] \in Work, UNCHANGED <<conns, seen, overtaken>>
  PROVE  SyncsWork'
<1>1. \A q \in Requests : pc'[q] = IF q = r THEN p ELSE pc[q]
  BY DEF TypeOK
<1> QED BY <1>1 DEF SyncsWork

\* A step of r that reads active connections, or none.
LEMMA ReadSyncs ==
  ASSUME TypeOK, SyncsWork, NEW r \in Requests, NEW C, NEW p, Select(r, C, p),
         p \in Work => \A i \in C : conns[i].active
  PROVE  SyncsWork'
<1>1. \A q \in Requests : /\ pc'[q] = IF q = r THEN p ELSE pc[q]
                          /\ seen'[q] = IF q = r THEN C ELSE seen[q]
  BY DEF TypeOK, Select
<1>2. conns' = conns /\ overtaken' = overtaken
  BY DEF Select, rows
<1> QED BY <1>1, <1>2 DEF SyncsWork

\* A step of r that writes connections: what it switches off belongs to requests
\* it overtakes.
LEMMA WriteSyncs ==
  ASSUME TypeOK, SyncsWork, NEW r \in Requests, NEW p, Close(r, p),
         p \in Work => pc[r] \in Work, seen' = seen,
         \A q \in Requests : q \notin overtaken' => q \notin overtaken,
         \A q \in Requests \ overtaken', i \in Rows :
             (q # r \/ p \in Work) /\ pc[q] \in Work /\ i \in seen[q] /\ conns[i].active
                => conns'[i].active
  PROVE  SyncsWork'
<1>1. \A q \in Requests : pc'[q] = IF q = r THEN p ELSE pc[q]
  BY DEF TypeOK, Close
<1>2. \A q \in Requests : seen[q] \subseteq Rows
  BY DEF TypeOK
<1> QED BY <1>1, <1>2 DEF SyncsWork

LEMMA SyncsStep == TypeOK /\ SyncsWork /\ [Next]_vars => SyncsWork'
<1> SUFFICES ASSUME TypeOK, SyncsWork, [Next]_vars PROVE SyncsWork'
  OBVIOUS
<1>0. /\ \A p \in {"idle", "waiting", "open", "read", "done", "failed"} : p \notin Work
      /\ {"fetching", "returned", "scheduled", "working"} \subseteq Work
  BY DEF Work
<1>1. CASE UNCHANGED vars
  BY <1>1 DEF vars, rows, SyncsWork
<1>2. ASSUME NEW t \in RoundTrips, Execute(t) PROVE SyncsWork'
  BY <1>2 DEF Execute, rows, SyncsWork
<1>3. ASSUME NEW r \in Requests, NEW ask \in Ask, Arrive(r, ask) PROVE SyncsWork'
  BY <1>3, <1>0, MoveSyncs DEF Arrive, rows
<1>4. ASSUME NEW r \in Requests, Progress(r) PROVE SyncsWork'
  <2>1. CASE Checkout(r)
    BY <2>1, <1>0, MoveSyncs DEF Checkout, rows
  <2>2. CASE Refuse(r)
    BY <2>2, <1>0, MoveSyncs DEF Refuse, Close, rows
  <2>3. CASE GiveUp(r)
    BY <2>3, <2>2, <1>0, MoveSyncs DEF GiveUp, rows
  <2>4. CASE JobDone(r)
    BY <2>4, <1>0, MoveSyncs DEF JobDone, rows
  <2>5. CASE ConnectSelect(r)
    BY <2>5, <1>0, ReadSyncs DEF ConnectSelect
  <2>6. CASE DisconnectSelect(r)
    BY <2>6, <1>0, ReadSyncs DEF DisconnectSelect
  <2>7. CASE SyncSelect(r)
    <3>1. ASSUME NEW i, IsActive(i), Select(r, {i}, "fetching") PROVE SyncsWork'
      BY <3>1, ReadSyncs DEF IsActive
    <3>2. ASSUME Select(r, {}, AfterHandler) PROVE SyncsWork'
      BY <3>2, ReadSyncs
    <3> QED BY <2>7, <3>1, <3>2 DEF SyncSelect
  <2>8. CASE SelectRefused(r) \/ FetchFailed(r)
    BY <2>8, <2>2 DEF SelectRefused, FetchFailed
  <2>9. CASE Fetched(r)
    BY <2>9, <1>0, MoveSyncs DEF Fetched, rows
  <2>10. CASE ConnectCommit(r)
    <3>1. \A q \in Requests \ overtaken', i \in Rows :
             q # r /\ pc[q] \in Work /\ i \in seen[q] /\ conns[i].active => conns'[i].active
      BY <2>10, ConnectCommits, Overtaken DEF ConnectCommit, Work
    <3> QED BY <2>10, <1>0, <3>1, WriteSyncs DEF ConnectCommit, Overtakes
  <2>11. CASE DisconnectCommit(r)
    <3>1. \A q \in Requests \ overtaken', i \in Rows :
             q # r /\ pc[q] \in Work /\ i \in seen[q] /\ conns[i].active => conns'[i].active
      BY <2>11, DisconnectCommits, Overtaken DEF DisconnectCommit, Work
    <3> QED BY <2>11, <1>0, <3>1, WriteSyncs DEF DisconnectCommit, Overtakes
  <2>12. CASE SyncCommit(r)
    BY <2>12, <1>0, SyncCommits, WriteSyncs DEF SyncCommit
  <2> QED BY <1>4, <2>1, <2>3, <2>4, <2>5, <2>6, <2>7, <2>8, <2>9, <2>10, <2>11, <2>12
          DEF Progress
<1> QED BY <1>1, <1>2, <1>3, <1>4 DEF Next

\* A sync that no connect or disconnect overtook imports for a connection that is
\* still active when it commits, for any requests and brokers.
THEOREM SyncsForActive == Spec => []SyncsActive
<1>1. Init => SyncsWork
  BY DEF Init, SyncsWork, Work
<1>2. SyncsWork => SyncsActive
  BY DEF SyncsWork, SyncsActive, Work
<1> QED BY <1>1, <1>2, TypeInit, TypeStep, SyncsStep, PTL DEF Spec

-----------------------------------------------------------------------------
(* The pool.                                                               *)

\* The pool is a semaphore of its size: a step takes or gives back one connection at
\* most, and takes none when all are out.
THEOREM PoolRefines == Spec => Pool!Spec
<1>1. Init => Pool!Init
  BY DEF Init, Pool!Init
<1>2. TypeOK /\ [Next]_vars => [Pool!Next]_pool
  <2> SUFFICES ASSUME TypeOK, [Next]_vars PROVE [Pool!Next]_pool
    OBVIOUS
  <2>1. ASSUME NEW a \in Session, pool' = pool \ {a} PROVE [Pool!Next]_pool
    BY <2>1 DEF Pool!Next, Pool!Release
  <2>2. ASSUME NEW a \in Session, Free, pool' = pool \cup {a} PROVE [Pool!Next]_pool
    <3>1. Pool!Cardinality(pool) = Cardinality(pool)
      BY DEF Pool!Cardinality, Cardinality
    <3> QED BY <2>2, <3>1 DEF Free, Pool!Next, Pool!Acquire
  <2>3. ASSUME NEW r \in Requests, Progress(r) PROVE [Pool!Next]_pool
    <3>1. Own(r) \in Session /\ Job(r) \in Session
      BY DEF Own, Job, Session
    <3>2. CASE Checkout(r)
      BY <3>1, <3>2, <2>2 DEF Checkout
    <3>3. ASSUME NEW p, Close(r, p) PROVE [Pool!Next]_pool
      BY <3>1, <3>3, <2>1 DEF Close
    <3>4. CASE JobDone(r)
      BY <3>1, <3>4, <2>1 DEF JobDone
    <3>5. ASSUME ~Checkout(r), ~JobDone(r), \A p : ~Close(r, p) PROVE pool' = pool
      BY <2>3, <3>5 DEF Progress, GiveUp, Refuse, ConnectSelect, DisconnectSelect, SyncSelect,
            SelectRefused, Select, Fetched, FetchFailed, ConnectCommit, DisconnectCommit, SyncCommit
    <3> QED BY <3>2, <3>3, <3>4, <3>5
  <2> QED BY <2>3 DEF Next, Execute, Arrive, vars
<1> QED BY <1>1, <1>2, TypeInit, TypeStep, PTL DEF Spec, Pool!Spec
=============================================================================
