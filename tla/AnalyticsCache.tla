--------------------------- MODULE AnalyticsCache ---------------------------
(***************************************************************************)
(* The in-memory analytics cache and everything that races with it: the    *)
(* request transactions that change a user's trades, the event-bus tasks   *)
(* that invalidate the cache, the post-upload jobs that refill it and the  *)
(* insight requests that read through it.                                  *)
(*                                                                         *)
(* Data is abstracted to the set of trade changes it reflects: db[u] is    *)
(* the set of requests whose change to u's trades has committed, and a     *)
(* snapshot, a cached value or an answer is the db[u] it was computed      *)
(* from.  Every await of the code is a boundary between two actions; what  *)
(* runs between two awaits is one action.                                  *)
(***************************************************************************)
EXTENDS Naturals, FiniteSets

CONSTANTS
    Users,        \* user ids
    Requests,     \* HTTP requests; each one is handled once
    Zones,        \* timezone offsets, the last part of a cache key
    TTL,          \* AnalyticsCache._ttl, in clock ticks
    MaxDelay,     \* bound: ticks between a SELECT and the use of its rows
    MaxRestarts,  \* bound: process restarts in a behaviour
    ExitOrders    \* when get_db's commit runs: subset of {"before", "after"}

ASSUME TimeAssumption    == TTL \in Nat /\ MaxDelay \in Nat
ASSUME RestartAssumption == MaxRestarts \in Nat
ASSUME ExitAssumption    == ExitOrders \subseteq {"before", "after"}

VARIABLES
    exitOrder,    \* the installed FastAPI commits before or after background work
    db,           \* db[u]: requests whose trade change is committed
    op, owner,    \* what each request does, and for whom
    tx,           \* state of the request's handler and transaction
    job,          \* state of the request's run_post_upload
    snap,         \* trades held by a handler or a job between SELECT and use
    tasks,        \* requests whose event handler task is scheduled, not yet run
    store, stamp, \* AnalyticsCache._store and the age of each _timestamps entry
    answer,       \* what each answered insights request returned
    sinceRead,    \* ticks since snap was read
    sinceCommit,  \* ticks since the request's change committed
    restarts

cache  == <<store, stamp>>
ghosts == <<sinceRead, sinceCommit>>
vars   == <<exitOrder, db, op, owner, tx, job, snap, tasks, cache, answer,
            ghosts, restarts>>

Emitting   == {"upload", "delete"}   \* emit an event that has a handler
Scheduling == {"upload", "import"}   \* add run_post_upload to the response
Mutating   == Emitting \cup Scheduling
Kinds      == {"full", "insights"}
CacheKey   == Users \X Kinds \X Zones
Oldest     == TTL + MaxDelay + 1     \* ages stop counting here
Empty      == [k \in {} |-> {}]

Older(age, cap) == IF age < cap THEN age + 1 ELSE cap

-----------------------------------------------------------------------------
(* AnalyticsCache: get, set and invalidate.                                *)

\* (mutant of Fresh) the age of an entry is never looked at.
FreshForever(k) == k \in DOMAIN store

\* get returns a value: the key is present and its age is within the TTL.
Fresh(k) == k \in DOMAIN store /\ stamp[k] <= TTL

\* The cache after get-or-compute of every key in keys from trades s: a fresh
\* entry is kept, any other is replaced and stamped now.
Fill(keys, s) ==
    LET misses == {k \in keys : ~Fresh(k)} IN
    /\ store' = [k \in DOMAIN store \cup misses |->
                    IF k \in misses THEN s ELSE store[k]]
    /\ stamp' = [k \in DOMAIN stamp \cup misses |->
                    IF k \in misses THEN 0 ELSE stamp[k]]

\* (mutant of Invalidate) the timestamps of the dropped entries are kept.
InvalidateValuesOnly(u) ==
    /\ store' = [k \in {j \in DOMAIN store : j[1] # u} |-> store[k]]
    /\ UNCHANGED stamp

\* invalidate drops every entry of user u, with its timestamp.
Invalidate(u) ==
    LET keys == {k \in DOMAIN store : k[1] = u} IN
    /\ store' = [k \in DOMAIN store \ keys |-> store[k]]
    /\ stamp' = [k \in DOMAIN stamp \ keys |-> stamp[k]]

-----------------------------------------------------------------------------
Init ==
    /\ exitOrder \in ExitOrders
    /\ db = [u \in Users |-> {}]
    /\ op = [r \in Requests |-> "none"]
    /\ owner \in [Requests -> Users]
    /\ tx = [r \in Requests |-> "none"]
    /\ job = [r \in Requests |-> "none"]
    /\ snap = [r \in Requests |-> {}]
    /\ tasks = {}
    /\ store = Empty /\ stamp = Empty
    /\ answer = [r \in Requests |-> {}]
    /\ sinceRead = [r \in Requests |-> 0]
    /\ sinceCommit = [r \in Requests |-> 0]
    /\ restarts = 0

-----------------------------------------------------------------------------
(* Requests that change trades.                                            *)

\* upload_csv, delete_trade, delete_all_trades, sync_trades and
\* generate_synthetic up to their first suspension after the write: the change
\* is in the open transaction, the event is emitted and the job is queued.
\* Sync emits trade.synced, which nothing handles, and synthetic emits nothing:
\* both are "import".
Mutate(r, o) ==
    /\ tx[r] = "none"
    /\ op' = [op EXCEPT ![r] = o]
    /\ tx' = [tx EXCEPT ![r] = "open"]
    /\ tasks' = IF o \in Emitting THEN tasks \cup {r} ELSE tasks
    /\ job' = IF o \in Scheduling THEN [job EXCEPT ![r] = "queued"] ELSE job
    /\ UNCHANGED <<exitOrder, db, owner, snap, cache, answer, ghosts, restarts>>

\* get_db resumes after its yield, before or after the background work.
ExitReached(r) ==
    /\ tx[r] = "open"
    /\ exitOrder = "after" => job[r] \in {"none", "done"}

Commit(r) ==
    /\ ExitReached(r)
    /\ tx' = [tx EXCEPT ![r] = "committed"]
    /\ db' = [db EXCEPT ![owner[r]] = @ \cup {r}]
    /\ sinceCommit' = [sinceCommit EXCEPT ![r] = 0]
    /\ UNCHANGED <<exitOrder, op, owner, job, snap, tasks, cache, answer,
                   sinceRead, restarts>>

\* The commit raised: the session rolls back.  Before the response is sent the
\* exception replaces it, and its background tasks are dropped.
Rollback(r) ==
    /\ ExitReached(r)
    /\ tx' = [tx EXCEPT ![r] = "rolledback"]
    /\ job' = [job EXCEPT ![r] = IF @ = "queued" THEN "none" ELSE @]
    /\ UNCHANGED <<exitOrder, db, op, owner, snap, tasks, cache, answer,
                   ghosts, restarts>>

\* _safe_run of the handler task _on_trade_change.
RunHandler(r) ==
    /\ r \in tasks
    /\ tasks' = tasks \ {r}
    /\ Invalidate(owner[r])
    /\ UNCHANGED <<exitOrder, db, op, owner, tx, job, snap, answer, ghosts,
                   restarts>>

-----------------------------------------------------------------------------
(* The post-upload job: precompute_analytics inside run_post_upload.       *)

\* The rows read by r are no longer referenced.
Release(r) ==
    /\ snap' = [snap EXCEPT ![r] = {}]
    /\ sinceRead' = [sinceRead EXCEPT ![r] = 0]

\* (mutant of JobRead) the job takes the trades of its own upload only.
JobReadOwn(r) ==
    /\ job[r] = "queued"
    /\ exitOrder = "before" => tx[r] = "committed"
    /\ job' = [job EXCEPT ![r] = "read"]
    /\ snap' = [snap EXCEPT ![r] = db[owner[r]] \cap {r}]
    /\ sinceRead' = [sinceRead EXCEPT ![r] = 0]
    /\ UNCHANGED <<exitOrder, db, op, owner, tx, tasks, cache, answer,
                   sinceCommit, restarts>>

\* The job's own session selects the user's trades.
JobRead(r) ==
    /\ job[r] = "queued"
    /\ exitOrder = "before" => tx[r] = "committed"
    /\ job' = [job EXCEPT ![r] = "read"]
    /\ snap' = [snap EXCEPT ![r] = db[owner[r]]]
    /\ sinceRead' = [sinceRead EXCEPT ![r] = 0]
    /\ UNCHANGED <<exitOrder, db, op, owner, tx, tasks, cache, answer,
                   sinceCommit, restarts>>

\* get_full_analytics and get_insights, with no suspension between them.
JobFill(r, z) ==
    /\ job[r] = "read"
    /\ job' = [job EXCEPT ![r] = "done"]
    /\ Fill({<<owner[r], kind, z>> : kind \in Kinds}, snap[r])
    /\ Release(r)
    /\ UNCHANGED <<exitOrder, db, op, owner, tx, tasks, answer, sinceCommit,
                   restarts>>

\* auto_tag_trades or check_trading_rules raised, or the user is gone: the job
\* ends and nothing is precomputed.
JobAbort(r) ==
    /\ job[r] \in {"queued", "read"}
    /\ exitOrder = "before" => tx[r] = "committed"
    /\ job' = [job EXCEPT ![r] = "done"]
    /\ Release(r)
    /\ UNCHANGED <<exitOrder, db, op, owner, tx, tasks, cache, answer,
                   sinceCommit, restarts>>

-----------------------------------------------------------------------------
(* GET /insights/full.                                                     *)

ReadInsights(r) ==
    /\ tx[r] = "none"
    /\ op' = [op EXCEPT ![r] = "insights"]
    /\ tx' = [tx EXCEPT ![r] = "reading"]
    /\ snap' = [snap EXCEPT ![r] = db[owner[r]]]
    /\ sinceRead' = [sinceRead EXCEPT ![r] = 0]
    /\ UNCHANGED <<exitOrder, db, owner, job, tasks, cache, answer,
                   sinceCommit, restarts>>

\* (mutant of AnswerInsights) the cache key leaves the user out.
AnswerInsightsOneKey(r, z) ==
    LET k == CHOOSE c \in CacheKey : c[2] = "insights" /\ c[3] = z IN
    /\ tx[r] = "reading"
    /\ tx' = [tx EXCEPT ![r] = "answered"]
    /\ answer' = [answer EXCEPT ![r] = IF Fresh(k) THEN store[k] ELSE snap[r]]
    /\ Fill({k}, snap[r])
    /\ Release(r)
    /\ UNCHANGED <<exitOrder, db, op, owner, job, tasks, sinceCommit, restarts>>

\* get_insights: the cached value when fresh, else computed and cached.
AnswerInsights(r, z) ==
    LET k == <<owner[r], "insights", z>> IN
    /\ tx[r] = "reading"
    /\ tx' = [tx EXCEPT ![r] = "answered"]
    /\ answer' = [answer EXCEPT ![r] = IF Fresh(k) THEN store[k] ELSE snap[r]]
    /\ Fill({k}, snap[r])
    /\ Release(r)
    /\ UNCHANGED <<exitOrder, db, op, owner, job, tasks, sinceCommit, restarts>>

-----------------------------------------------------------------------------
(* Environment: time and restarts of the single process.                   *)

Holding(r) == tx[r] = "reading" \/ job[r] = "read"

Tick ==
    /\ \A r \in Requests : Holding(r) => sinceRead[r] < MaxDelay
    /\ stamp' = [k \in DOMAIN stamp |-> Older(stamp[k], TTL + 1)]
    /\ sinceRead' = [r \in Requests |->
                        IF Holding(r) THEN sinceRead[r] + 1 ELSE sinceRead[r]]
    /\ sinceCommit' = [r \in Requests |->
                          IF tx[r] = "committed"
                          THEN Older(sinceCommit[r], Oldest) ELSE sinceCommit[r]]
    /\ UNCHANGED <<exitOrder, db, op, owner, tx, job, snap, tasks, store,
                   answer, restarts>>

\* Memory is lost: the cache, the scheduled tasks, the jobs, the open
\* transactions.
Restart ==
    /\ restarts < MaxRestarts
    /\ restarts' = restarts + 1
    /\ tx' = [r \in Requests |-> IF tx[r] \in {"open", "reading"} THEN "lost" ELSE tx[r]]
    /\ job' = [r \in Requests |-> IF job[r] \in {"queued", "read"} THEN "lost" ELSE job[r]]
    /\ tasks' = {}
    /\ store' = Empty /\ stamp' = Empty
    /\ snap' = [r \in Requests |-> {}]
    /\ sinceRead' = [r \in Requests |-> 0]
    /\ UNCHANGED <<exitOrder, db, op, owner, answer, sinceCommit>>

-----------------------------------------------------------------------------
Handle(r) ==
    \/ Commit(r) \/ Rollback(r)
    \/ RunHandler(r)
    \/ JobRead(r) \/ JobAbort(r)
    \/ \E z \in Zones : JobFill(r, z) \/ AnswerInsights(r, z)

Next ==
    \/ \E r \in Requests, o \in Mutating : Mutate(r, o)
    \/ \E r \in Requests : ReadInsights(r)
    \/ \E r \in Requests : Handle(r)
    \/ Tick
    \/ Restart

\* A request, job or task that has started is always resumed, and time passes;
\* nobody is obliged to send requests and the process need not restart.
Fairness == WF_vars(Tick) /\ \A r \in Requests : WF_vars(Handle(r))

Spec     == Init /\ [][Next]_vars
FairSpec == Spec /\ Fairness

-----------------------------------------------------------------------------
(* Properties.                                                             *)

Snapshots == SUBSET Requests

TypeOK ==
    /\ exitOrder \in ExitOrders
    /\ db \in [Users -> Snapshots]
    /\ op \in [Requests -> Mutating \cup {"none", "insights"}]
    /\ owner \in [Requests -> Users]
    /\ tx \in [Requests -> {"none", "open", "committed", "rolledback",
                            "reading", "answered", "lost"}]
    /\ job \in [Requests -> {"none", "queued", "read", "done", "lost"}]
    /\ snap \in [Requests -> Snapshots]
    /\ tasks \in Snapshots
    /\ DOMAIN store \subseteq CacheKey /\ store \in [DOMAIN store -> Snapshots]
    /\ stamp \in [DOMAIN store -> 0 .. TTL + 1]
    /\ answer \in [Requests -> Snapshots]
    /\ sinceRead \in [Requests -> 0 .. MaxDelay]
    /\ sinceCommit \in [Requests -> 0 .. Oldest]
    /\ restarts \in 0 .. MaxRestarts

\* Nothing uncommitted, rolled back or belonging to another user is ever cached
\* or answered, whatever the order of commits, jobs and handler tasks.
CommittedOnly ==
    /\ \A k \in DOMAIN store : store[k] \subseteq db[k[1]]
    /\ \A r \in Requests : answer[r] \subseteq db[owner[r]]

\* A served answer misses only changes committed within the last TTL + MaxDelay
\* ticks: the TTL test of get bounds the staleness that no event invalidates.
ServedIsRecent ==
    [][\A r \in Requests : tx[r] = "reading" /\ tx'[r] = "answered" =>
          \A m \in db[owner[r]] \ answer'[r] : sinceCommit[m] <= TTL + MaxDelay]_vars

\* Whoever reads through the cache sees one recent moment of the database, also when
\* jobs, handler tasks and other readers fill and empty it meanwhile: RecentView.
View == INSTANCE RecentView WITH
    Lag      <- TTL + MaxDelay,
    age      <- sinceCommit,
    answered <- {r \in Requests : tx[r] = "answered"}
ServesOneMoment == View!Spec

\* A stale entry does not stay servable: every entry is eventually current,
\* past its TTL, or gone, for good.
EventuallyFresh ==
    \A k \in CacheKey : <>[](Fresh(k) => store[k] = db[k[1]])

\* The invariant CommittedOnly and ServedIsRecent rest on: held rows are
\* committed ones, and what an entry or held rows miss is no older than they are.
HeldCommitted == \A r \in Requests : snap[r] \subseteq db[owner[r]]
HeldRecent ==
    \A r \in Requests : Holding(r) =>
        \A m \in db[owner[r]] \ snap[r] : sinceCommit[m] <= sinceRead[r]
EntryRecent ==
    \A k \in DOMAIN store :
        \A m \in db[k[1]] \ store[k] : sinceCommit[m] <= stamp[k] + MaxDelay
ReadersHaveNoJob ==
    \A r \in Requests : tx[r] \in {"none", "reading"} => job[r] = "none"
CommitsRecorded ==
    \A r \in Requests : tx[r] = "committed" => r \in db[owner[r]]

\* The invariant ServesOneMoment rests on: held rows are the trades as they stood
\* when they were read, and a fresh entry's are at most MaxDelay older than it is.
HeldAsOf ==
    \A r \in Requests : Holding(r) => View!AsOf(owner[r], snap[r], sinceRead[r])
EntryAsOf ==
    \A k \in DOMAIN store : Fresh(k) =>
        \E a \in stamp[k] .. stamp[k] + MaxDelay : View!AsOf(k[1], store[k], a)
OnlyCommits ==
    \A u \in Users : \A r \in db[u] : owner[r] = u /\ tx[r] = "committed"

MomentInv == HeldAsOf /\ EntryAsOf /\ OnlyCommits

IInv ==
    /\ TypeOK
    /\ CommittedOnly
    /\ ReadersHaveNoJob
    /\ HeldCommitted
    /\ HeldRecent
    /\ EntryRecent
    /\ CommitsRecorded

\* "Invalidated on trade.uploaded and trade.deleted events": with every change
\* an upload or a delete and nothing in flight, no stale entry is served.
Quiescent ==
    /\ tasks = {}
    /\ \A r \in Requests : tx[r] \notin {"open", "reading"} /\ job[r] \notin {"queued", "read"}
InvalidatedOnTradeChange ==
    Quiescent /\ (\A r \in Requests : op[r] # "import") =>
        \A k \in DOMAIN store : Fresh(k) => store[k] = db[k[1]]

=============================================================================
