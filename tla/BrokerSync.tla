----------------------------- MODULE BrokerSync -----------------------------
(***************************************************************************)
(* Broker connections and the import of a broker's trades: the requests of *)
(* app/api/broker_connect.py with their database sessions, the pooled      *)
(* connection each session holds, the broker's answer a sync waits for,    *)
(* and the post-upload job that needs a connection of its own.             *)
(*                                                                         *)
(* A session holds its connection from its first statement until get_db    *)
(* closes it.  What a request writes is seen by others at its commit.  A   *)
(* trade is one round trip as OrderMatcher reconstructs it: a longer list  *)
(* of orders only adds trades (OrderMatcher!FifoAgrees), so what an answer *)
(* contains is the round trips completed at the broker by then.            *)
(***************************************************************************)
EXTENDS Naturals, FiniteSets

CONSTANTS
    Requests,     \* each is made at most once
    Brokers,      \* SUPPORTED_BROKERS
    Numbers,      \* a round trip is its broker and a number
    PoolSize,     \* pool_size + max_overflow
    ExitOrders,   \* FastAPI leaves get_db "before" background tasks or "after"
    None

ASSUME PoolAssumption  == PoolSize \in Nat \ {0}
ASSUME OrderAssumption == ExitOrders \subseteq {"before", "after"}
ASSUME NoneAssumption  == None \notin [broker : Brokers, live : BOOLEAN, active : BOOLEAN, synced : BOOLEAN]

RoundTrips == Brokers \X Numbers

VARIABLES
    exitOrder,    \* which FastAPI is installed
    executed,     \* round trips completed at the brokers this day
    conns,        \* rows of broker_connections, by the request that inserts them
    imported,     \* number of rows of trades per round trip
    req,          \* what each request asks for
    pc,           \* where it is
    seen,         \* active connections its SELECT found, to be written
    answer,       \* round trips in the broker's answer
    pool,         \* sessions holding a connection
    overtaken,    \* ghost: requests whose connections another commit changed
    raced         \* ghost: brokers an overtaken connect has written

rows == <<conns, imported>>
vars == <<exitOrder, executed, rows, req, pc, seen, answer, pool, overtaken, raced>>

\* A connection is live when its access token is a real one: neither empty nor
\* "test_token".
Ask   == [op : {"connect"}, on : Brokers, live : BOOLEAN]
           \cup [op : {"sync", "disconnect"}, on : Requests]
NoAsk == [op |-> "none", on |-> None]

\* A session is a request's own or its background job's.
Session == Requests \X {"request", "job"}
Own(r)  == <<r, "request">>
Job(r)  == <<r, "job">>

Rows      == {i \in Requests : conns[i] # None}
Active(b) == {i \in Rows : conns[i].active /\ conns[i].broker = b}

Init ==
    /\ exitOrder \in ExitOrders
    /\ executed = {}
    /\ conns = [i \in Requests |-> None]
    /\ imported = [t \in RoundTrips |-> 0]
    /\ req = [r \in Requests |-> NoAsk]
    /\ pc = [r \in Requests |-> "idle"]
    /\ seen = [r \in Requests |-> {}]
    /\ answer = [r \in Requests |-> {}]
    /\ pool = {}
    /\ overtaken = {} /\ raced = {}

-----------------------------------------------------------------------------
(* Sessions.                                                               *)

Execute(t) ==
    /\ t \notin executed
    /\ executed' = executed \cup {t}
    /\ UNCHANGED <<exitOrder, rows, req, pc, seen, answer, pool, overtaken, raced>>

Arrive(r, ask) ==
    /\ pc[r] = "idle"
    /\ req' = [req EXCEPT ![r] = ask]
    /\ pc' = [pc EXCEPT ![r] = "waiting"]
    /\ UNCHANGED <<exitOrder, executed, rows, seen, answer, pool, overtaken, raced>>

\* get_db's commit comes before the background job or after it.
AfterHandler == IF exitOrder = "before" THEN "returned" ELSE "scheduled"
AfterCommit  == IF exitOrder = "before" THEN "scheduled" ELSE "done"
AfterJob     == IF exitOrder = "before" THEN "done" ELSE "returned"

\* (mutant of Free) one connection too many.
FreeOneMore == Cardinality(pool) <= PoolSize

Free == Cardinality(pool) < PoolSize

\* The first statement of a session takes a connection: get_current_user's for
\* a request, the tagger's for a job.
Checkout(r) ==
    /\ Free
    /\ \/ pc[r] = "waiting"
          /\ pool' = pool \cup {Own(r)} /\ pc' = [pc EXCEPT ![r] = "open"]
       \/ pc[r] = "scheduled"
          /\ pool' = pool \cup {Job(r)} /\ pc' = [pc EXCEPT ![r] = "working"]
    /\ UNCHANGED <<exitOrder, executed, rows, req, seen, answer, overtaken, raced>>

\* The session of r ends and its connection goes back.
Close(r, next) ==
    /\ pool' = pool \ {Own(r)}
    /\ pc' = [pc EXCEPT ![r] = next]

\* An error response: get_db rolls back.
Refuse(r) ==
    /\ Close(r, "failed")
    /\ UNCHANGED <<exitOrder, executed, rows, req, seen, answer, overtaken, raced>>

\* (mutant of GiveUp) a job waits for its connection as long as it takes.
GiveUpRequestOnly(r) ==
    /\ pc[r] = "waiting"
    /\ Refuse(r)

\* No connection within the pool's timeout: the request fails, the job's error
\* is caught and logged.
GiveUp(r) ==
    \/ /\ pc[r] = "waiting"
       /\ Refuse(r)
    \/ /\ pc[r] = "scheduled"
       /\ pc' = [pc EXCEPT ![r] = AfterJob]
       /\ UNCHANGED <<exitOrder, executed, rows, req, seen, answer, pool, overtaken, raced>>

\* run_post_upload ends; what it does to the rows is PostUpload's.
JobDone(r) ==
    /\ pc[r] = "working"
    /\ pool' = pool \ {Job(r)}
    /\ pc' = [pc EXCEPT ![r] = AfterJob]
    /\ UNCHANGED <<exitOrder, executed, rows, req, seen, answer, overtaken, raced>>

-----------------------------------------------------------------------------
(* The requests.  Each reads its connections and commits later.            *)

Select(r, found, next) ==
    /\ pc[r] = "open"
    /\ seen' = [seen EXCEPT ![r] = found]
    /\ pc' = [pc EXCEPT ![r] = next]
    /\ UNCHANGED <<exitOrder, executed, rows, req, answer, pool, overtaken, raced>>

ConnectSelect(r) == req[r].op = "connect" /\ Select(r, Active(req[r].on), "read")

Target(r) == {req[r].on} \cap Rows

\* (mutant of IsActive) a connection that exists will do.
IsActiveAny(i) == i \in Rows

IsActive(i) == conns[i].active

DisconnectSelect(r) ==
    /\ req[r].op = "disconnect" /\ Target(r) # {}
    /\ Select(r, {i \in Target(r) : IsActive(i)}, "read")

\* sync_trades looks at is_active and the token, then asks the broker; without
\* a real token it answers at once and the job is scheduled all the same.
SyncSelect(r) ==
    /\ req[r].op = "sync"
    /\ \E i \in Target(r) :
        /\ IsActive(i)
        /\ IF conns[i].live THEN Select(r, {i}, "fetching")
                            ELSE Select(r, {}, AfterHandler)

\* 404 for an unknown id, 400 for an inactive connection.
SelectRefused(r) ==
    /\ pc[r] = "open" /\ req[r].op \in {"sync", "disconnect"}
    /\ \/ Target(r) = {}
       \/ req[r].op = "sync" /\ \E i \in Target(r) : ~IsActive(i)
    /\ Refuse(r)

\* The broker's answer: the day's round trips.  They are matched and added to the
\* session; whether they were imported before is not asked.
Fetched(r) ==
    /\ pc[r] = "fetching"
    /\ \E i \in seen[r] :
        answer' = [answer EXCEPT ![r] = {t \in executed : t[1] = conns[i].broker}]
    /\ pc' = [pc EXCEPT ![r] = AfterHandler]
    /\ UNCHANGED <<exitOrder, executed, rows, req, seen, pool, overtaken, raced>>

\* httpx.HTTPError, the 30 second timeout included: 502.
FetchFailed(r) == pc[r] = "fetching" /\ Refuse(r)

\* The other requests that have read one of the connections of C, or the
\* connections of broker b, and are still to commit.
Overtakes(r, C, b) ==
    overtaken' = overtaken \cup
        {q \in Requests \ {r} :
            /\ pc[q] \notin {"idle", "waiting", "open", "done", "failed"}
            /\ \/ seen[q] \cap C # {}
               \/ req[q].op = "connect" /\ req[q].on = b}

\* (mutant of Deactivated) the rows are deleted.
DeactivatedRemoved(C) == [i \in Requests |-> IF i \in C THEN None ELSE conns[i]]

Deactivated(C) == [i \in Requests |-> IF i \in C THEN [conns[i] EXCEPT !.active = FALSE]
                                            ELSE conns[i]]

NewRow(r) ==
    [broker |-> req[r].on, live |-> req[r].live, active |-> TRUE, synced |-> FALSE]

\* (mutant of ConnectCommit) the connections found are left as they are.
ConnectCommitOnly(r) ==
    /\ pc[r] = "read" /\ req[r].op = "connect"
    /\ conns' = [conns EXCEPT ![r] = NewRow(r)]
    /\ Overtakes(r, seen[r], req[r].on)
    /\ raced' = IF r \in overtaken THEN raced \cup {req[r].on} ELSE raced
    /\ Close(r, "done")
    /\ UNCHANGED <<exitOrder, executed, imported, req, seen, answer>>

\* The connections found active are switched off and a new one is inserted.
ConnectCommit(r) ==
    /\ pc[r] = "read" /\ req[r].op = "connect"
    /\ conns' = [Deactivated(seen[r]) EXCEPT ![r] = NewRow(r)]
    /\ Overtakes(r, seen[r], req[r].on)
    /\ raced' = IF r \in overtaken THEN raced \cup {req[r].on} ELSE raced
    /\ Close(r, "done")
    /\ UNCHANGED <<exitOrder, executed, imported, req, seen, answer>>

DisconnectCommit(r) ==
    /\ pc[r] = "read" /\ req[r].op = "disconnect"
    /\ conns' = Deactivated(seen[r])
    /\ Overtakes(r, seen[r], None)
    /\ Close(r, "done")
    /\ UNCHANGED <<exitOrder, executed, imported, req, seen, answer, raced>>

\* The trades of the answer, also those an earlier sync of the day has stored, and
\* last_sync_at.
SyncCommit(r) ==
    /\ pc[r] = "returned"
    /\ conns' = [i \in Requests |-> IF i \in seen[r] THEN [conns[i] EXCEPT !.synced = TRUE]
                                                ELSE conns[i]]
    /\ imported' = [t \in RoundTrips |-> IF t \in answer[r] THEN imported[t] + 1
                                                            ELSE imported[t]]
    /\ Close(r, AfterCommit)
    /\ UNCHANGED <<exitOrder, executed, req, seen, answer, overtaken, raced>>

-----------------------------------------------------------------------------
\* What the server, the pool and the broker owe a request once it has arrived.
Progress(r) ==
    \/ Checkout(r) \/ GiveUp(r) \/ JobDone(r)
    \/ ConnectSelect(r) \/ DisconnectSelect(r) \/ SyncSelect(r) \/ SelectRefused(r)
    \/ Fetched(r) \/ FetchFailed(r)
    \/ ConnectCommit(r) \/ DisconnectCommit(r) \/ SyncCommit(r)

Next ==
    \/ \E t \in RoundTrips : Execute(t)
    \/ \E r \in Requests : Progress(r) \/ \E ask \in Ask : Arrive(r, ask)

Spec     == Init /\ [][Next]_vars
FairSpec == Spec /\ \A r \in Requests : WF_vars(Progress(r))

-----------------------------------------------------------------------------
(* Properties.                                                             *)

Connection == [broker : Brokers, live : BOOLEAN, active : BOOLEAN, synced : BOOLEAN]

TypeOK ==
    /\ exitOrder \in ExitOrders
    /\ executed \in SUBSET RoundTrips
    /\ conns \in [Requests -> Connection \cup {None}]
    /\ imported \in [RoundTrips -> Nat]
    /\ req \in [Requests -> Ask \cup {NoAsk}]
    /\ pc \in [Requests -> {"idle", "waiting", "open", "read", "fetching", "returned",
                            "scheduled", "working", "done", "failed"}]
    /\ seen \in [Requests -> SUBSET Rows]
    /\ answer \in [Requests -> SUBSET executed]
    /\ pool \in SUBSET Session
    /\ overtaken \in SUBSET Requests /\ raced \in SUBSET Brokers

\* A user has one active connection per broker, unless a connect committed
\* between the SELECT and the commit of another (broker_service.py:36-48).
OneActive == \A b \in Brokers \ raced : Cardinality(Active(b)) <= 1

\* What OneActive rests on: a connect about to commit that was not overtaken has
\* found every active connection of its broker.
FoundAll ==
    \A r \in Requests \ overtaken :
        pc[r] = "read" /\ req[r].op = "connect" => Active(req[r].on) \subseteq seen[r]

\* A sync that no disconnect or connect overtook works for an active connection,
\* up to its commit.
SyncsActive ==
    \A r \in Requests \ overtaken :
        pc[r] \in {"fetching", "returned"} => \A i \in seen[r] : conns[i].active

\* Who holds a connection is who has work in the database, and never more than
\* the pool has; each connection is given back (db.py:20-24, 35-42).
Pool == INSTANCE Semaphore WITH Actors <- Session, Capacity <- PoolSize, holders <- pool
PoolIsSemaphore == Pool!FairSpec

\* Every request ends, and its job too, on builds where they wait for each other's
\* connections as well: the pool's timeout resolves that.
EveryRequestEnds == \A r \in Requests : pc[r] # "idle" ~> pc[r] \in {"done", "failed"}
=============================================================================
