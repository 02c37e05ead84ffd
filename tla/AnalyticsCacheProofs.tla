------------------------ MODULE AnalyticsCacheProofs ------------------------
(***************************************************************************)
(* Safety of the analytics cache, and its refinement of RecentView, for    *)
(* every set of users, requests and zones and every TTL.                   *)
(***************************************************************************)
EXTENDS AnalyticsCache, TLAPS

USE TimeAssumption, RestartAssumption, ExitAssumption

\* An age never passes its cap.
LEMMA OlderBounded ==
    ASSUME NEW cap \in Nat, NEW age \in 0 .. cap
    PROVE  Older(age, cap) \in 0 .. cap
BY DEF Older

\* Filling some keys of a well-formed cache with a snapshot leaves it
\* well-formed.
LEMMA FillType ==
    ASSUME TypeOK, NEW keys \in SUBSET CacheKey, NEW s \in Snapshots, Fill(keys, s)
    PROVE  /\ DOMAIN store' \subseteq CacheKey
           /\ store' \in [DOMAIN store' -> Snapshots]
           /\ stamp' \in [DOMAIN store' -> 0 .. TTL + 1]
<1> DEFINE misses == {k \in keys : ~Fresh(k)}
<1>1. /\ store' = [k \in DOMAIN store \cup misses |->
                      IF k \in misses THEN s ELSE store[k]]
      /\ stamp' = [k \in DOMAIN stamp \cup misses |->
                      IF k \in misses THEN 0 ELSE stamp[k]]
  BY DEF Fill
<1>2. DOMAIN stamp = DOMAIN store
  BY DEF TypeOK
<1> QED BY <1>1, <1>2 DEF TypeOK

\* Invalidating a user of a well-formed cache leaves it well-formed.
LEMMA InvalidateType ==
    ASSUME TypeOK, NEW u, Invalidate(u)
    PROVE  /\ DOMAIN store' \subseteq CacheKey
           /\ store' \in [DOMAIN store' -> Snapshots]
           /\ stamp' \in [DOMAIN store' -> 0 .. TTL + 1]
BY DEF Invalidate, TypeOK

\* Every variable keeps its type: in particular the cache's values and
\* timestamps have the same keys in every state.
THEOREM TypeCorrect == Spec => []TypeOK
<1>1. Init => TypeOK
  BY DEF Init, TypeOK, Empty, Snapshots, Oldest
<1>2. TypeOK /\ [Next]_vars => TypeOK'
  <2> SUFFICES ASSUME TypeOK, [Next]_vars PROVE TypeOK'
    OBVIOUS
  <2>1. ASSUME NEW r \in Requests, NEW o \in Mutating, Mutate(r, o)
        PROVE  TypeOK'
    BY <2>1 DEF Mutate, TypeOK, cache, ghosts, Snapshots, Mutating
  <2>2. ASSUME NEW r \in Requests, ReadInsights(r) PROVE TypeOK'
    BY <2>2 DEF ReadInsights, TypeOK, cache, Snapshots
  <2>3. ASSUME NEW r \in Requests, Commit(r) PROVE TypeOK'
    BY <2>3 DEF Commit, ExitReached, TypeOK, cache, Snapshots, Oldest
  <2>4. ASSUME NEW r \in Requests, Rollback(r) PROVE TypeOK'
    BY <2>4 DEF Rollback, ExitReached, TypeOK, cache, ghosts, Snapshots
  <2>5. ASSUME NEW r \in Requests, RunHandler(r) PROVE TypeOK'
    <3>1. /\ DOMAIN store' \subseteq CacheKey
          /\ store' \in [DOMAIN store' -> Snapshots]
          /\ stamp' \in [DOMAIN store' -> 0 .. TTL + 1]
      BY <2>5, InvalidateType DEF RunHandler
    <3> QED BY <2>5, <3>1 DEF RunHandler, TypeOK, ghosts, Snapshots
  <2>6. ASSUME NEW r \in Requests, JobRead(r) PROVE TypeOK'
    BY <2>6 DEF JobRead, TypeOK, cache, Snapshots
  <2>7. ASSUME NEW r \in Requests, JobAbort(r) PROVE TypeOK'
    BY <2>7 DEF JobAbort, Release, TypeOK, cache, Snapshots
  <2>8. ASSUME NEW r \in Requests, NEW z \in Zones, JobFill(r, z) PROVE TypeOK'
    <3>1. /\ {<<owner[r], kind, z>> : kind \in Kinds} \subseteq CacheKey
          /\ snap[r] \in Snapshots
      BY DEF TypeOK, CacheKey
    <3>2. /\ DOMAIN store' \subseteq CacheKey
          /\ store' \in [DOMAIN store' -> Snapshots]
          /\ stamp' \in [DOMAIN store' -> 0 .. TTL + 1]
      BY <2>8, <3>1, FillType DEF JobFill
    <3> QED BY <2>8, <3>2 DEF JobFill, Release, TypeOK, Snapshots
  <2>9. ASSUME NEW r \in Requests, NEW z \in Zones, AnswerInsights(r, z)
        PROVE  TypeOK'
    <3> DEFINE k == <<owner[r], "insights", z>>
    <3>1. {k} \subseteq CacheKey /\ snap[r] \in Snapshots
      BY DEF TypeOK, CacheKey, Kinds
    <3>2. /\ DOMAIN store' \subseteq CacheKey
          /\ store' \in [DOMAIN store' -> Snapshots]
          /\ stamp' \in [DOMAIN store' -> 0 .. TTL + 1]
      BY <2>9, <3>1, FillType DEF AnswerInsights
    <3>3. (IF Fresh(k) THEN store[k] ELSE snap[r]) \in Snapshots
      BY <3>1 DEF TypeOK, Fresh
    <3>4. answer' \in [Requests -> Snapshots]
      BY <2>9, <3>3 DEF AnswerInsights, TypeOK
    <3> HIDE DEF k
    <3> QED BY SMTT(30), <2>9, <3>2, <3>4 DEF AnswerInsights, Release, TypeOK, Snapshots
  <2>10. CASE Tick
    <3>1. stamp' \in [DOMAIN store -> 0 .. TTL + 1]
      <4>1. \A k \in DOMAIN store : Older(stamp[k], TTL + 1) \in 0 .. TTL + 1
        BY OlderBounded DEF TypeOK
      <4> QED BY <2>10, <4>1 DEF Tick, TypeOK
    <3>2. sinceCommit' \in [Requests -> 0 .. Oldest]
      <4>1. Oldest \in Nat
        BY DEF Oldest
      <4> QED BY <2>10, <4>1, OlderBounded DEF Tick, TypeOK
    <3>3. sinceRead' \in [Requests -> 0 .. MaxDelay]
      BY <2>10 DEF Tick, TypeOK
    <3> QED BY <2>10, <3>1, <3>2, <3>3 DEF Tick, TypeOK, Snapshots
  <2>11. CASE Restart
    BY <2>11 DEF Restart, TypeOK, Empty, Snapshots
  <2>12. CASE UNCHANGED vars
    BY <2>12 DEF vars, cache, ghosts, TypeOK, Snapshots
  <2> QED BY <2>1, <2>2, <2>3, <2>4, <2>5, <2>6, <2>7, <2>8, <2>9, <2>10,
             <2>11, <2>12 DEF Next, Handle
<1> QED BY <1>1, <1>2, PTL DEF Spec

-----------------------------------------------------------------------------
(* The inductive invariant.  Each part is preserved on its own, given the  *)
(* parts before it.                                                        *)

\* Only Commit changes db, and it only adds to it.
LEMMA CommitsOnlyAdd ==
    ASSUME TypeOK, [Next]_vars
    PROVE  /\ \A u \in Users : db[u] \subseteq db'[u]
           /\ owner' = owner
<1>1. CASE \E r \in Requests : Commit(r)
  BY <1>1 DEF Commit, TypeOK
<1>2. CASE UNCHANGED <<db, owner>>
  BY <1>2
<1> QED
  BY <1>1, <1>2 DEF Next, Handle, Mutate, ReadInsights, Rollback, RunHandler,
     JobRead, JobAbort, JobFill, AnswerInsights, Tick, Restart, vars

\* What an action does to the transaction of a request.
LEMMA TxSteps ==
    ASSUME TypeOK, [Next]_vars
    PROVE  \/ \E r \in Requests : Commit(r)
           \/ \E r \in Requests, z \in Zones : AnswerInsights(r, z)
           \/ \A r \in Requests :
                 tx'[r] \in {tx[r], "open", "rolledback", "reading", "lost"}
<1>1. ASSUME NEW q \in Requests, NEW o \in Mutating, Mutate(q, o)
      PROVE  \A r \in Requests : tx'[r] \in {tx[r], "open"}
  BY <1>1 DEF Mutate, TypeOK
<1>2. ASSUME NEW q \in Requests, Rollback(q)
      PROVE  \A r \in Requests : tx'[r] \in {tx[r], "rolledback"}
  BY <1>2 DEF Rollback, TypeOK
<1>3. ASSUME NEW q \in Requests, ReadInsights(q)
      PROVE  \A r \in Requests : tx'[r] \in {tx[r], "reading"}
  BY <1>3 DEF ReadInsights, TypeOK
<1>4. CASE Restart
  BY <1>4 DEF Restart
<1>5. CASE UNCHANGED tx
  BY <1>5
<1> QED
  BY <1>1, <1>2, <1>3, <1>4, <1>5
     DEF Next, Handle, RunHandler, JobRead, JobAbort, JobFill, Tick, vars

\* What an action does to the rows held: it reads them, drops them, or leaves
\* them alone.
LEMMA HeldRows ==
    ASSUME TypeOK, [Next]_vars
    PROVE  \/ \E r \in Requests : ReadInsights(r) \/ JobRead(r)
           \/ \E r \in Requests : Release(r)
           \/ snap' = [r \in Requests |-> {}] /\ Restart
           \/ UNCHANGED snap
BY DEF Next, Handle, Mutate, Commit, Rollback, RunHandler, JobAbort, JobFill,
   AnswerInsights, Tick, Restart, vars

\* Rows held between a SELECT and their use were committed.
LEMMA HeldCommittedStep ==
    ASSUME TypeOK, HeldCommitted, [Next]_vars
    PROVE  HeldCommitted'
<1>1. \A r \in Requests : db[owner[r]] \subseteq db'[owner'[r]]
  BY CommitsOnlyAdd DEF TypeOK
<1>2. ASSUME NEW r \in Requests, ReadInsights(r) \/ JobRead(r)
      PROVE  HeldCommitted'
  BY <1>1, <1>2 DEF ReadInsights, JobRead, HeldCommitted, TypeOK
<1>3. ASSUME NEW r \in Requests, Release(r) PROVE HeldCommitted'
  BY <1>1, <1>3 DEF Release, HeldCommitted, TypeOK
<1>4. CASE snap' = [r \in Requests |-> {}]
  BY <1>4 DEF HeldCommitted
<1>5. CASE UNCHANGED snap
  BY <1>1, <1>5 DEF HeldCommitted
<1> QED BY <1>2, <1>3, <1>4, <1>5, HeldRows

\* What an action does to the cache: it fills some keys of a user from the rows
\* a request holds, or it drops entries, or it ages them.
LEMMA CacheSteps ==
    ASSUME TypeOK, [Next]_vars
    PROVE  \/ \E r \in Requests, z \in Zones : JobFill(r, z) \/ AnswerInsights(r, z)
           \/ \E r \in Requests : RunHandler(r)
           \/ Restart
           \/ Tick
           \/ UNCHANGED cache
BY DEF Next, Handle, Mutate, ReadInsights, Commit, Rollback, JobRead, JobAbort,
   vars

\* A fill from rows held by r puts committed changes of r's owner in the cache.
LEMMA FillCommitted ==
    ASSUME TypeOK, CommittedOnly, HeldCommitted, NEW r \in Requests,
           NEW keys \in SUBSET CacheKey, \A k \in keys : k[1] = owner[r],
           Fill(keys, snap[r])
    PROVE  \A k \in DOMAIN store' : store'[k] \subseteq db[k[1]]
<1> DEFINE misses == {k \in keys : ~Fresh(k)}
<1>1. store' = [k \in DOMAIN store \cup misses |->
                   IF k \in misses THEN snap[r] ELSE store[k]]
  BY DEF Fill
<1>2. SUFFICES ASSUME NEW k \in DOMAIN store' PROVE store'[k] \subseteq db[k[1]]
  OBVIOUS
<1>3. CASE k \in misses
  BY <1>1, <1>3 DEF HeldCommitted
<1>4. CASE k \notin misses
  BY <1>1, <1>2, <1>4 DEF CommittedOnly
<1> QED BY <1>3, <1>4

\* Cached values and answers contain only committed changes of their user.
LEMMA CommittedOnlyStep ==
    ASSUME TypeOK, CommittedOnly, HeldCommitted, [Next]_vars
    PROVE  CommittedOnly'
<1>1. \A u \in Users : db[u] \subseteq db'[u]
  BY CommitsOnlyAdd
<1>2. /\ DOMAIN store \subseteq CacheKey
      /\ \A k \in CacheKey : k[1] \in Users
      /\ \A r \in Requests : owner[r] \in Users
  BY DEF TypeOK, CacheKey
<1>3. \A k \in DOMAIN store' : store'[k] \subseteq db'[k[1]]
  <2>1. ASSUME NEW r \in Requests, NEW z \in Zones, JobFill(r, z)
        PROVE  \A k \in DOMAIN store' : store'[k] \subseteq db'[k[1]]
    <3> DEFINE keys == {<<owner[r], kind, z>> : kind \in Kinds}
    <3>1. keys \in SUBSET CacheKey /\ \A k \in keys : k[1] = owner[r]
      BY <1>2 DEF CacheKey
    <3>2. Fill(keys, snap[r])
      BY <2>1 DEF JobFill
    <3> HIDE DEF keys
    <3>3. \A k \in DOMAIN store' : store'[k] \subseteq db[k[1]]
      BY <3>1, <3>2, FillCommitted
    <3> QED BY <2>1, <3>3 DEF JobFill
  <2>2. ASSUME NEW r \in Requests, NEW z \in Zones, AnswerInsights(r, z)
        PROVE  \A k \in DOMAIN store' : store'[k] \subseteq db'[k[1]]
    <3> DEFINE keys == {<<owner[r], "insights", z>>}
    <3>1. keys \in SUBSET CacheKey /\ \A k \in keys : k[1] = owner[r]
      BY <1>2 DEF CacheKey, Kinds
    <3>2. Fill(keys, snap[r])
      BY <2>2 DEF AnswerInsights
    <3> HIDE DEF keys
    <3>3. \A k \in DOMAIN store' : store'[k] \subseteq db[k[1]]
      BY <3>1, <3>2, FillCommitted
    <3> QED BY <2>2, <3>3 DEF AnswerInsights
  <2>3. ASSUME NEW r \in Requests, RunHandler(r)
        PROVE  \A k \in DOMAIN store' : store'[k] \subseteq db'[k[1]]
    BY <2>3 DEF RunHandler, Invalidate, CommittedOnly
  <2>4. CASE Restart
    BY <2>4 DEF Restart, Empty
  <2>5. CASE UNCHANGED store
    BY <1>1, <1>2, <2>5 DEF CommittedOnly
  <2> QED BY <2>1, <2>2, <2>3, <2>4, <2>5, CacheSteps DEF Tick, cache
<1>4. \A r \in Requests : answer'[r] \subseteq db'[owner'[r]]
  <2>1. ASSUME NEW q \in Requests, NEW z \in Zones, AnswerInsights(q, z)
        PROVE  \A r \in Requests : answer'[r] \subseteq db'[owner'[r]]
    <3> DEFINE k == <<owner[q], "insights", z>>
    <3>1. (IF Fresh(k) THEN store[k] ELSE snap[q]) \subseteq db[owner[q]]
      BY DEF Fresh, CommittedOnly, HeldCommitted
    <3>2. /\ answer' = [answer EXCEPT ![q] = IF Fresh(k) THEN store[k] ELSE snap[q]]
          /\ UNCHANGED <<db, owner>>
      BY <2>1 DEF AnswerInsights
    <3> HIDE DEF k
    <3> QED BY <3>1, <3>2 DEF CommittedOnly, TypeOK
  <2>2. CASE UNCHANGED answer
    BY <1>1, <1>2, <2>2, CommitsOnlyAdd DEF CommittedOnly
  <2> QED
    BY <2>1, <2>2 DEF Next, Handle, Mutate, ReadInsights, Commit, Rollback,
       RunHandler, JobRead, JobAbort, JobFill, Tick, Restart, vars
<1> QED BY <1>3, <1>4 DEF CommittedOnly

\* A request that has not written has no background job.
LEMMA ReadersHaveNoJobStep ==
    ASSUME TypeOK, ReadersHaveNoJob, [Next]_vars
    PROVE  ReadersHaveNoJob'
<1> USE DEF ReadersHaveNoJob, TypeOK
<1>1. ASSUME NEW r \in Requests, NEW o \in Mutating, Mutate(r, o)
      PROVE  ReadersHaveNoJob'
  BY <1>1 DEF Mutate
<1>2. ASSUME NEW r \in Requests, ReadInsights(r) PROVE ReadersHaveNoJob'
  BY <1>2 DEF ReadInsights
<1>3. ASSUME NEW r \in Requests, Commit(r) \/ Rollback(r) PROVE ReadersHaveNoJob'
  BY <1>3 DEF Commit, Rollback
<1>4. ASSUME NEW r \in Requests, JobRead(r) \/ JobAbort(r) PROVE ReadersHaveNoJob'
  BY <1>4 DEF JobRead, JobAbort
<1>5. ASSUME NEW r \in Requests, NEW z \in Zones, JobFill(r, z) \/ AnswerInsights(r, z)
      PROVE  ReadersHaveNoJob'
  BY <1>5 DEF JobFill, AnswerInsights
<1>6. CASE Restart
  BY <1>6 DEF Restart
<1>7. CASE UNCHANGED <<tx, job>>
  BY <1>7
<1> QED
  BY <1>1, <1>2, <1>3, <1>4, <1>5, <1>6, <1>7
     DEF Next, Handle, RunHandler, Tick, vars

\* What held rows miss committed after they were read.
LEMMA HeldRecentStep ==
    ASSUME TypeOK, ReadersHaveNoJob, HeldRecent, [Next]_vars
    PROVE  HeldRecent'
<1> USE DEF HeldRecent, Holding
<1>1. ASSUME NEW q \in Requests, ReadInsights(q) \/ JobRead(q) PROVE HeldRecent'
  BY <1>1 DEF ReadInsights, JobRead, TypeOK
<1>2. ASSUME NEW q \in Requests, Commit(q) PROVE HeldRecent'
  <2>1. /\ sinceCommit' = [sinceCommit EXCEPT ![q] = 0]
        /\ db' = [db EXCEPT ![owner[q]] = @ \cup {q}]
        /\ UNCHANGED <<owner, job, snap, sinceRead>>
    BY <1>2 DEF Commit
  <2>2. \A r \in Requests : tx'[r] = "reading" => tx[r] = "reading"
    BY <1>2 DEF Commit, TypeOK
  <2>3. ASSUME NEW r \in Requests, tx[r] = "reading" \/ job[r] = "read",
               NEW m \in db'[owner[r]] \ snap[r]
        PROVE  sinceCommit'[m] <= sinceRead[r]
    <3>1. m \in Requests /\ sinceRead[r] \in Nat
      BY <1>2, <2>1, <2>3 DEF TypeOK, Snapshots
    <3>2. CASE m = q
      BY <2>1, <3>1, <3>2 DEF TypeOK
    <3>3. CASE m # q
      BY <2>1, <2>3, <3>1, <3>3 DEF TypeOK
    <3> QED BY <3>2, <3>3
  <2> QED BY <2>1, <2>2, <2>3
<1>3. ASSUME NEW q \in Requests, Release(q), job'[q] # "read", tx'[q] # "reading",
             UNCHANGED <<db, owner, sinceCommit>>,
             \A r \in Requests \ {q} : tx'[r] = tx[r] /\ job'[r] = job[r]
      PROVE  HeldRecent'
  BY <1>3 DEF Release, TypeOK
<1>4. ASSUME NEW q \in Requests, NEW z \in Zones, JobFill(q, z)
      PROVE  HeldRecent'
  BY <1>3, <1>4 DEF JobFill, ReadersHaveNoJob, TypeOK
<1>5. ASSUME NEW q \in Requests, JobAbort(q) PROVE HeldRecent'
  BY <1>3, <1>5 DEF JobAbort, ReadersHaveNoJob, TypeOK
<1>6. ASSUME NEW q \in Requests, NEW z \in Zones, AnswerInsights(q, z)
      PROVE  HeldRecent'
  BY <1>3, <1>6 DEF AnswerInsights, ReadersHaveNoJob, TypeOK
<1>7. CASE Tick
  <2>1. ASSUME NEW r \in Requests, Holding(r), NEW m \in db[owner[r]] \ snap[r]
        PROVE  sinceCommit'[m] <= sinceRead'[r]
    <3>1. m \in Requests
      BY <2>1 DEF TypeOK, Snapshots
    <3>2. sinceRead'[r] = sinceRead[r] + 1
      BY <1>7, <2>1 DEF Tick
    <3>3. sinceCommit'[m] <= sinceCommit[m] + 1
      BY <1>7, <3>1 DEF Tick, Older, TypeOK, Oldest
    <3>4. sinceCommit[m] \in Nat /\ sinceRead[r] \in Nat
      BY <3>1 DEF TypeOK
    <3>5. sinceCommit[m] <= sinceRead[r] /\ sinceCommit'[m] \in Nat
      BY <1>7, <2>1, <3>1, <3>4 DEF Tick, Older, TypeOK, Oldest
    <3> QED BY <3>2, <3>3, <3>4, <3>5
  <2> QED BY <1>7, <2>1 DEF Tick
<1>8. CASE Restart
  BY <1>8 DEF Restart, TypeOK
<1>9. CASE /\ UNCHANGED <<db, owner, snap, sinceRead, sinceCommit>>
           /\ \A r \in Requests : Holding(r)' => Holding(r)
  BY <1>9
<1>10. ASSUME NEW q \in Requests, NEW o \in Mutating, Mutate(q, o)
       PROVE  HeldRecent'
  BY <1>9, <1>10 DEF Mutate, ghosts, TypeOK
<1>11. ASSUME NEW q \in Requests, Rollback(q) PROVE HeldRecent'
  BY <1>9, <1>11 DEF Rollback, ghosts, TypeOK
<1>12. CASE UNCHANGED <<db, owner, tx, job, snap, ghosts>>
  BY <1>12 DEF ghosts
<1> QED
  BY <1>1, <1>2, <1>4, <1>5, <1>6, <1>7, <1>8, <1>10, <1>11, <1>12
     DEF Next, Handle, RunHandler, vars

\* A fill from rows held by r misses only what is recent for its timestamp.
LEMMA FillRecent ==
    ASSUME TypeOK, HeldRecent, EntryRecent, NEW r \in Requests, Holding(r),
           NEW keys \in SUBSET CacheKey, \A k \in keys : k[1] = owner[r],
           Fill(keys, snap[r])
    PROVE  \A k \in DOMAIN store' : \A m \in db[k[1]] \ store'[k] :
              sinceCommit[m] <= stamp'[k] + MaxDelay
<1> DEFINE misses == {k \in keys : ~Fresh(k)}
<1>1. /\ store' = [k \in DOMAIN store \cup misses |->
                      IF k \in misses THEN snap[r] ELSE store[k]]
      /\ stamp' = [k \in DOMAIN stamp \cup misses |->
                      IF k \in misses THEN 0 ELSE stamp[k]]
      /\ DOMAIN stamp = DOMAIN store
  BY DEF Fill, TypeOK
<1>2. SUFFICES ASSUME NEW k \in DOMAIN store', NEW m \in db[k[1]] \ store'[k]
               PROVE  sinceCommit[m] <= stamp'[k] + MaxDelay
  OBVIOUS
<1>3. CASE k \in misses
  <2>1. store'[k] = snap[r] /\ stamp'[k] = 0 /\ k[1] = owner[r]
    BY <1>1, <1>3
  <2>2. m \in Requests
    BY <1>3 DEF TypeOK, CacheKey, Snapshots
  <2>3. sinceCommit[m] <= sinceRead[r]
    BY <1>2, <2>1 DEF HeldRecent
  <2> QED BY <2>1, <2>2, <2>3 DEF TypeOK, Oldest
<1>4. CASE k \notin misses
  BY <1>1, <1>2, <1>4 DEF EntryRecent
<1> QED BY <1>3, <1>4

\* What a cache entry misses committed at most MaxDelay before its timestamp.
LEMMA EntryRecentStep ==
    ASSUME TypeOK, HeldRecent, EntryRecent, [Next]_vars
    PROVE  EntryRecent'
<1>1. ASSUME NEW r \in Requests, NEW z \in Zones, JobFill(r, z)
      PROVE  EntryRecent'
  <2> DEFINE keys == {<<owner[r], kind, z>> : kind \in Kinds}
  <2>1. keys \in SUBSET CacheKey /\ \A k \in keys : k[1] = owner[r]
    BY DEF CacheKey, TypeOK
  <2>2. Fill(keys, snap[r]) /\ Holding(r) /\ UNCHANGED <<db, sinceCommit>>
    BY <1>1 DEF JobFill, Holding
  <2> HIDE DEF keys
  <2> QED BY <2>1, <2>2, FillRecent DEF EntryRecent
<1>2. ASSUME NEW r \in Requests, NEW z \in Zones, AnswerInsights(r, z)
      PROVE  EntryRecent'
  <2> DEFINE keys == {<<owner[r], "insights", z>>}
  <2>1. keys \in SUBSET CacheKey /\ \A k \in keys : k[1] = owner[r]
    BY DEF CacheKey, TypeOK, Kinds
  <2>2. Fill(keys, snap[r]) /\ Holding(r) /\ UNCHANGED <<db, sinceCommit>>
    BY <1>2 DEF AnswerInsights, Holding
  <2> HIDE DEF keys
  <2> QED BY <2>1, <2>2, FillRecent DEF EntryRecent
<1>3. ASSUME NEW r \in Requests, RunHandler(r) PROVE EntryRecent'
  BY <1>3 DEF RunHandler, Invalidate, EntryRecent, TypeOK, ghosts
<1>4. CASE Restart
  BY <1>4 DEF Restart, Empty, EntryRecent
<1>5. CASE Tick
  <2>1. /\ UNCHANGED <<db, store>>
        /\ stamp' = [k \in DOMAIN stamp |-> Older(stamp[k], TTL + 1)]
    BY <1>5 DEF Tick
  <2>2. ASSUME NEW k \in DOMAIN store, NEW m \in db[k[1]] \ store[k]
        PROVE  sinceCommit'[m] <= stamp'[k] + MaxDelay
    <3>1. m \in Requests
      BY DEF TypeOK, CacheKey, Snapshots
    <3>2. /\ sinceCommit[m] \in 0 .. Oldest
          /\ sinceCommit'[m] \in {sinceCommit[m], Older(sinceCommit[m], Oldest)}
      BY <1>5, <3>1 DEF Tick, TypeOK
    <3>3. /\ stamp[k] \in 0 .. TTL + 1
          /\ stamp'[k] = Older(stamp[k], TTL + 1)
      BY <2>1 DEF TypeOK
    <3>4. sinceCommit[m] <= stamp[k] + MaxDelay
      BY <2>2 DEF EntryRecent
    <3> QED BY <3>2, <3>3, <3>4 DEF Older, Oldest
  <2> QED BY <2>1, <2>2 DEF EntryRecent
<1>6. ASSUME NEW q \in Requests, Commit(q) PROVE EntryRecent'
  <2>1. /\ sinceCommit' = [sinceCommit EXCEPT ![q] = 0]
        /\ db' = [db EXCEPT ![owner[q]] = @ \cup {q}]
        /\ UNCHANGED <<store, stamp>>
    BY <1>6 DEF Commit, cache
  <2>2. ASSUME NEW k \in DOMAIN store, NEW m \in db'[k[1]] \ store[k]
        PROVE  sinceCommit'[m] <= stamp[k] + MaxDelay
    <3>1. m \in Requests /\ stamp[k] \in Nat
      BY <2>1, <2>2 DEF TypeOK, CacheKey, Snapshots
    <3>2. CASE m = q
      BY <2>1, <3>1, <3>2 DEF TypeOK
    <3>3. CASE m # q
      <4>1. m \in db[k[1]] \ store[k]
        BY <2>1, <2>2, <3>3 DEF TypeOK, CacheKey
      <4> QED BY <2>1, <3>1, <3>3, <4>1 DEF EntryRecent, TypeOK
    <3> QED BY <3>2, <3>3
  <2> QED BY <2>1, <2>2 DEF EntryRecent
<1>7. CASE UNCHANGED <<db, store, stamp, sinceCommit>>
  BY <1>7 DEF EntryRecent
<1> QED
  BY <1>1, <1>2, <1>3, <1>4, <1>5, <1>6, <1>7
     DEF Next, Handle, Mutate, ReadInsights, Rollback, JobRead, JobAbort,
         cache, ghosts, vars

\* A committed request is in its owner's db.
LEMMA CommitsRecordedStep ==
    ASSUME TypeOK, CommitsRecorded, [Next]_vars
    PROVE  CommitsRecorded'
<1> USE DEF CommitsRecorded
<1>1. \A r \in Requests : db[owner[r]] \subseteq db'[owner'[r]]
  BY CommitsOnlyAdd DEF TypeOK
<1>2. CASE \E q \in Requests : Commit(q)
  BY <1>1, <1>2 DEF Commit, TypeOK
<1>3. CASE \A r \in Requests : tx'[r] = "committed" => tx[r] = "committed"
  BY <1>1, <1>3
<1>4. CASE \E q \in Requests, z \in Zones : AnswerInsights(q, z)
  BY <1>3, <1>4 DEF AnswerInsights, TypeOK
<1> QED BY <1>2, <1>3, <1>4, TxSteps

\* The inductive invariant holds in every reachable state.
THEOREM Inductive == Spec => []IInv
<1>1. Init => IInv
  BY DEF Init, IInv, TypeOK, Empty, Snapshots, Oldest, CommittedOnly,
     ReadersHaveNoJob, HeldCommitted, HeldRecent, Holding, EntryRecent,
     CommitsRecorded
<1>2. TypeOK /\ TypeOK' /\ IInv /\ [Next]_vars => IInv'
  BY CommittedOnlyStep, ReadersHaveNoJobStep, HeldCommittedStep, HeldRecentStep,
     EntryRecentStep, CommitsRecordedStep DEF IInv
<1> QED BY <1>1, <1>2, TypeCorrect, PTL DEF Spec

\* Nothing uncommitted, rolled back or belonging to another user is ever cached
\* or answered.
THEOREM CacheIsCommitted == Spec => []CommittedOnly
<1>1. IInv => CommittedOnly
  BY DEF IInv
<1> QED BY <1>1, Inductive, PTL

\* An insights answer misses only changes committed within the last
\* TTL + MaxDelay ticks.
THEOREM BoundedStaleness == Spec => ServedIsRecent
<1> DEFINE Recent ==
      \A r \in Requests : tx[r] = "reading" /\ tx'[r] = "answered" =>
          \A m \in db[owner[r]] \ answer'[r] : sinceCommit[m] <= TTL + MaxDelay
<1>1. IInv /\ [Next]_vars => [Recent]_vars
  <2> SUFFICES ASSUME IInv, Next,
                      NEW r \in Requests, tx[r] = "reading", tx'[r] = "answered",
                      NEW m \in db[owner[r]] \ answer'[r]
               PROVE  sinceCommit[m] <= TTL + MaxDelay
    OBVIOUS
  <2> USE DEF IInv
  <2>1. PICK z \in Zones : AnswerInsights(r, z)
    <3>1. ASSUME NEW q \in Requests, Commit(q) PROVE FALSE
      BY <3>1 DEF Commit, TypeOK
    <3>2. ASSUME NEW q \in Requests, NEW z \in Zones, AnswerInsights(q, z)
          PROVE  q = r
      BY <3>2 DEF AnswerInsights, TypeOK
    <3> QED BY <3>1, <3>2, TxSteps
  <2> DEFINE k == <<owner[r], "insights", z>>
  <2>2. answer'[r] = IF Fresh(k) THEN store[k] ELSE snap[r]
    BY <2>1 DEF AnswerInsights, TypeOK
  <2>3. k[1] = owner[r] /\ m \in Requests
    BY DEF TypeOK, Snapshots
  <2> HIDE DEF k
  <2>4. CASE Fresh(k)
    <3>1. sinceCommit[m] <= stamp[k] + MaxDelay /\ stamp[k] <= TTL
      BY <2>2, <2>3, <2>4 DEF EntryRecent, Fresh
    <3>2. stamp[k] \in Nat /\ sinceCommit[m] \in Nat
      BY <2>3, <2>4 DEF Fresh, TypeOK
    <3> QED BY <3>1, <3>2
  <2>5. CASE ~Fresh(k)
    <3>1. sinceCommit[m] <= sinceRead[r]
      BY <2>2, <2>5 DEF HeldRecent, Holding
    <3>2. sinceRead[r] \in 0 .. MaxDelay /\ sinceCommit[m] \in Nat
      BY <2>3 DEF TypeOK
    <3> QED BY <3>1, <3>2
  <2> QED BY <2>4, <2>5
<1> QED BY <1>1, Inductive, PTL DEF Spec, ServedIsRecent

-----------------------------------------------------------------------------
(* Reading through the cache implements RecentView.                        *)

\* A committed change stays committed, and is its owner's.
LEMMA OnlyCommitsStep ==
    ASSUME TypeOK, OnlyCommits, [Next]_vars
    PROVE  OnlyCommits'
<1> USE DEF OnlyCommits
<1>1. ASSUME NEW q \in Requests, Commit(q) PROVE OnlyCommits'
  BY <1>1 DEF Commit, TypeOK, Snapshots
<1>2. CASE /\ UNCHANGED <<db, owner>>
           /\ \A r \in Requests : tx[r] = "committed" => tx'[r] = "committed"
  BY <1>2 DEF TypeOK, Snapshots
<1>3. ASSUME NEW q \in Requests, NEW o \in Mutating, Mutate(q, o) PROVE OnlyCommits'
  BY <1>2, <1>3 DEF Mutate, TypeOK
<1>4. ASSUME NEW q \in Requests, Rollback(q) \/ ReadInsights(q) PROVE OnlyCommits'
  BY <1>2, <1>4 DEF Rollback, ExitReached, ReadInsights, TypeOK
<1>5. ASSUME NEW q \in Requests, NEW z \in Zones, AnswerInsights(q, z) PROVE OnlyCommits'
  BY <1>2, <1>5 DEF AnswerInsights, TypeOK
<1>6. CASE Restart
  BY <1>2, <1>6 DEF Restart, TypeOK
<1>7. CASE UNCHANGED <<db, owner, tx>>
  BY <1>2, <1>7
<1> QED
  BY <1>1, <1>3, <1>4, <1>5, <1>6, <1>7
     DEF Next, Handle, RunHandler, JobRead, JobAbort, JobFill, Tick, vars

\* What is as of a moment when a request commits is so afterwards: the commit is new.
LEMMA CommitKeepsMoment ==
    ASSUME TypeOK, OnlyCommits, NEW q \in Requests, Commit(q),
           NEW u \in Users, NEW s, NEW a \in Nat, View!AsOf(u, s, a)
    PROVE  View!AsOf(u, s, a)'
<1>1. /\ sinceCommit' = [sinceCommit EXCEPT ![q] = 0]
      /\ db' = [db EXCEPT ![owner[q]] = @ \cup {q}]
      /\ tx[q] = "open"
  BY DEF Commit, ExitReached
<1>2. q \notin db[u] /\ db[u] \in SUBSET Requests
  BY <1>1 DEF OnlyCommits, TypeOK, Snapshots
<1>3. s \subseteq db[u]
  BY DEF View!AsOf
<1>4. db'[u] \in {db[u], db[u] \cup {q}}
  BY <1>1 DEF TypeOK
<1>5. ASSUME NEW m \in db'[u]
      PROVE  (sinceCommit'[m] > a => m \in s) /\ (sinceCommit'[m] < a => m \notin s)
  <2>1. CASE m = q
    BY <1>1, <1>2, <1>3, <2>1 DEF TypeOK
  <2>2. CASE m # q
    BY <1>1, <1>2, <1>4, <1>5, <2>2 DEF View!AsOf, TypeOK
  <2> QED BY <2>1, <2>2
<1> QED BY <1>3, <1>4, <1>5 DEF View!AsOf

\* A tick moves a moment of the last Lag ticks one tick back.
LEMMA TickMovesMoment ==
    ASSUME TypeOK, OnlyCommits, Tick,
           NEW u \in Users, NEW s, NEW a \in Nat, a < Oldest, View!AsOf(u, s, a)
    PROVE  View!AsOf(u, s, a + 1)'
<1>1. /\ db' = db
      /\ \A m \in Requests : tx[m] = "committed" =>
            sinceCommit'[m] = Older(sinceCommit[m], Oldest)
  BY DEF Tick
<1>2. s \subseteq db[u] /\ db[u] \in SUBSET Requests
  BY DEF View!AsOf, TypeOK, Snapshots
<1>3. ASSUME NEW m \in db[u]
      PROVE  /\ sinceCommit'[m] > a + 1 => m \in s
             /\ sinceCommit'[m] < a + 1 => m \notin s
  <2>1. /\ sinceCommit[m] \in 0 .. Oldest /\ Oldest \in Nat
        /\ sinceCommit'[m] = Older(sinceCommit[m], Oldest)
    BY <1>1, <1>2 DEF OnlyCommits, TypeOK, Oldest
  <2>2. (sinceCommit[m] > a => m \in s) /\ (sinceCommit[m] < a => m \notin s)
    BY DEF View!AsOf
  <2>3. sinceCommit'[m] > a + 1 => sinceCommit[m] > a
    BY <2>1 DEF Older
  <2>4. sinceCommit'[m] < a + 1 => sinceCommit[m] < a
    BY <2>1 DEF Older
  <2> QED BY <2>2, <2>3, <2>4
<1> QED BY <1>1, <1>2, <1>3 DEF View!AsOf

\* Moments depend on the database alone.
LEMMA SameMoment ==
    ASSUME UNCHANGED <<db, sinceCommit>>
    PROVE  \A u, s, a : View!AsOf(u, s, a)' <=> View!AsOf(u, s, a)
BY DEF View!AsOf

\* Rows just read are as of this tick.
LEMMA NowIsAMoment ==
    ASSUME TypeOK, NEW u \in Users
    PROVE  View!AsOf(u, db[u], 0)
<1>1. \A m \in db[u] : sinceCommit[m] \in Nat
  BY DEF TypeOK, Snapshots
<1> QED BY <1>1 DEF View!AsOf

\* Held rows are the trades as they stood sinceRead ticks ago.
LEMMA HeldAsOfStep ==
    ASSUME TypeOK, ReadersHaveNoJob, OnlyCommits, HeldAsOf, [Next]_vars
    PROVE  HeldAsOf'
<1> USE DEF HeldAsOf, Holding
<1>1. ASSUME NEW q \in Requests, ReadInsights(q) \/ JobRead(q) PROVE HeldAsOf'
  <2>1. /\ UNCHANGED <<db, sinceCommit, owner>>
        /\ snap' = [snap EXCEPT ![q] = db[owner[q]]]
        /\ sinceRead' = [sinceRead EXCEPT ![q] = 0]
        /\ \A r \in Requests \ {q} : tx'[r] = tx[r] /\ job'[r] = job[r]
    BY <1>1 DEF ReadInsights, JobRead, TypeOK
  <2>2. ASSUME NEW r \in Requests, Holding(r)'
        PROVE  View!AsOf(owner[r], snap'[r], sinceRead'[r])
    <3>1. CASE r = q
      BY <2>1, <3>1, NowIsAMoment DEF TypeOK
    <3>2. CASE r # q
      BY <2>1, <2>2, <3>2 DEF TypeOK
    <3> QED BY <3>1, <3>2
  <2> QED BY <2>1, <2>2, SameMoment
<1>2. ASSUME NEW q \in Requests, Commit(q) PROVE HeldAsOf'
  <2>1. /\ UNCHANGED <<owner, job, snap, sinceRead>>
        /\ \A r \in Requests : tx'[r] = "reading" => tx[r] = "reading"
    BY <1>2 DEF Commit, TypeOK
  <2>2. ASSUME NEW r \in Requests, Holding(r)
        PROVE  View!AsOf(owner[r], snap[r], sinceRead[r])'
    <3>1. owner[r] \in Users /\ sinceRead[r] \in Nat
      BY DEF TypeOK
    <3>2. View!AsOf(owner[r], snap[r], sinceRead[r])
      BY <2>2
    <3> QED BY <1>2, <2>1, <3>1, <3>2, CommitKeepsMoment
  <2> QED BY <2>1, <2>2
<1>3. ASSUME NEW q \in Requests, Release(q), job'[q] # "read", tx'[q] # "reading",
             UNCHANGED <<db, owner, sinceCommit>>,
             \A r \in Requests \ {q} : tx'[r] = tx[r] /\ job'[r] = job[r]
      PROVE  HeldAsOf'
  <2>1. \A r \in Requests \ {q} : snap'[r] = snap[r] /\ sinceRead'[r] = sinceRead[r]
    BY <1>3 DEF Release, TypeOK
  <2> QED BY <1>3, <2>1, SameMoment
<1>4. ASSUME NEW q \in Requests, NEW z \in Zones, JobFill(q, z)
      PROVE  HeldAsOf'
  BY <1>3, <1>4 DEF JobFill, ReadersHaveNoJob, TypeOK
<1>5. ASSUME NEW q \in Requests, JobAbort(q) PROVE HeldAsOf'
  BY <1>3, <1>5 DEF JobAbort, ReadersHaveNoJob, TypeOK
<1>6. ASSUME NEW q \in Requests, NEW z \in Zones, AnswerInsights(q, z)
      PROVE  HeldAsOf'
  BY <1>3, <1>6 DEF AnswerInsights, ReadersHaveNoJob, TypeOK
<1>7. CASE Tick
  <2>1. UNCHANGED <<owner, tx, job, snap>>
    BY <1>7 DEF Tick
  <2>2. ASSUME NEW r \in Requests, Holding(r)
        PROVE  View!AsOf(owner[r], snap[r], sinceRead[r])'
    <3>1. owner[r] \in Users /\ sinceRead[r] \in Nat /\ sinceRead[r] < Oldest
      BY DEF TypeOK, Oldest
    <3>2. View!AsOf(owner[r], snap[r], sinceRead[r])
      BY <2>2
    <3>3. sinceRead'[r] = sinceRead[r] + 1
      BY <1>7, <2>2 DEF Tick
    <3> QED BY <1>7, <2>1, <3>1, <3>2, <3>3, TickMovesMoment
  <2> QED BY <2>1, <2>2
<1>8. CASE Restart
  BY <1>8 DEF Restart, TypeOK
<1>9. CASE /\ UNCHANGED <<db, owner, snap, sinceRead, sinceCommit>>
           /\ \A r \in Requests : Holding(r)' => Holding(r)
  BY <1>9, SameMoment
<1>10. ASSUME NEW q \in Requests, NEW o \in Mutating, Mutate(q, o)
       PROVE  HeldAsOf'
  BY <1>9, <1>10 DEF Mutate, ghosts, TypeOK
<1>11. ASSUME NEW q \in Requests, Rollback(q) PROVE HeldAsOf'
  BY <1>9, <1>11 DEF Rollback, ghosts, TypeOK
<1>12. CASE UNCHANGED <<db, owner, tx, job, snap, ghosts>>
  BY <1>9, <1>12 DEF ghosts
<1> QED
  BY <1>1, <1>2, <1>4, <1>5, <1>6, <1>7, <1>8, <1>10, <1>11, <1>12
     DEF Next, Handle, RunHandler, vars

\* A fresh entry is the trades of its user as of a moment at most MaxDelay before it.
EntryIs(k, s, t) == \E a \in t .. t + MaxDelay : View!AsOf(k[1], s, a)

\* A fill from rows held by r puts a moment of the last MaxDelay ticks in the cache.
LEMMA FillAsOf ==
    ASSUME TypeOK, HeldAsOf, EntryAsOf, NEW r \in Requests, Holding(r),
           NEW keys \in SUBSET CacheKey, \A k \in keys : k[1] = owner[r],
           Fill(keys, snap[r]), UNCHANGED <<db, sinceCommit>>
    PROVE  EntryAsOf'
<1> DEFINE misses == {k \in keys : ~Fresh(k)}
<1>1. /\ store' = [k \in DOMAIN store \cup misses |->
                      IF k \in misses THEN snap[r] ELSE store[k]]
      /\ stamp' = [k \in DOMAIN stamp \cup misses |->
                      IF k \in misses THEN 0 ELSE stamp[k]]
      /\ DOMAIN stamp = DOMAIN store
  BY DEF Fill, TypeOK
<1>2. SUFFICES ASSUME NEW k \in DOMAIN store', Fresh(k)' PROVE EntryIs(k, store[k], stamp[k])'
  BY DEF EntryAsOf, EntryIs
<1>3. CASE k \in misses
  <2>1. store'[k] = snap[r] /\ stamp'[k] = 0 /\ k[1] = owner[r]
    BY <1>1, <1>3
  <2>2. View!AsOf(k[1], store'[k], sinceRead[r]) /\ sinceRead[r] \in 0 .. 0 + MaxDelay
    BY <2>1 DEF HeldAsOf, TypeOK
  <2> QED BY <2>1, <2>2, SameMoment DEF EntryIs
<1>4. CASE k \notin misses
  <2>1. k \in DOMAIN store /\ store'[k] = store[k] /\ stamp'[k] = stamp[k]
    BY <1>1, <1>2, <1>4
  <2>2. EntryIs(k, store[k], stamp[k])
    BY <1>2, <2>1 DEF Fresh, EntryAsOf, EntryIs
  <2> QED BY <2>1, <2>2, SameMoment DEF EntryIs
<1> QED BY <1>3, <1>4

\* Fresh entries stay as of a moment: a tick moves it back by as much as it ages them.
LEMMA EntryAsOfStep ==
    ASSUME TypeOK, OnlyCommits, HeldAsOf, EntryAsOf, [Next]_vars
    PROVE  EntryAsOf'
<1>1. ASSUME NEW r \in Requests, NEW z \in Zones, JobFill(r, z)
      PROVE  EntryAsOf'
  <2> DEFINE keys == {<<owner[r], kind, z>> : kind \in Kinds}
  <2>1. keys \in SUBSET CacheKey /\ \A k \in keys : k[1] = owner[r]
    BY DEF CacheKey, TypeOK
  <2>2. Fill(keys, snap[r]) /\ Holding(r) /\ UNCHANGED <<db, sinceCommit>>
    BY <1>1 DEF JobFill, Holding
  <2> HIDE DEF keys
  <2> QED BY <2>1, <2>2, FillAsOf
<1>2. ASSUME NEW r \in Requests, NEW z \in Zones, AnswerInsights(r, z)
      PROVE  EntryAsOf'
  <2> DEFINE keys == {<<owner[r], "insights", z>>}
  <2>1. keys \in SUBSET CacheKey /\ \A k \in keys : k[1] = owner[r]
    BY DEF CacheKey, TypeOK, Kinds
  <2>2. Fill(keys, snap[r]) /\ Holding(r) /\ UNCHANGED <<db, sinceCommit>>
    BY <1>2 DEF AnswerInsights, Holding
  <2> HIDE DEF keys
  <2> QED BY <2>1, <2>2, FillAsOf
<1>3. ASSUME NEW r \in Requests, RunHandler(r) PROVE EntryAsOf'
  <2>1. /\ UNCHANGED <<db, sinceCommit>>
        /\ \A k \in DOMAIN store' : /\ k \in DOMAIN store
                                     /\ store'[k] = store[k] /\ stamp'[k] = stamp[k]
    BY <1>3 DEF RunHandler, Invalidate, TypeOK, ghosts
  <2> QED BY <2>1, SameMoment DEF EntryAsOf, Fresh
<1>4. CASE Restart
  BY <1>4 DEF Restart, Empty, EntryAsOf
<1>5. CASE Tick
  <2>1. /\ UNCHANGED <<db, store>>
        /\ stamp' = [k \in DOMAIN stamp |-> Older(stamp[k], TTL + 1)]
    BY <1>5 DEF Tick
  <2> SUFFICES ASSUME NEW k \in DOMAIN store, Fresh(k)'
               PROVE  EntryIs(k, store[k], stamp[k])'
    BY <2>1 DEF EntryAsOf, EntryIs
  <2>2. /\ stamp[k] \in 0 .. TTL + 1 /\ stamp'[k] = Older(stamp[k], TTL + 1)
        /\ stamp'[k] <= TTL
    BY <2>1 DEF TypeOK, Fresh
  <2>3. stamp[k] < TTL /\ stamp'[k] = stamp[k] + 1
    BY <2>2 DEF Older
  <2>4. Fresh(k)
    BY <2>2, <2>3 DEF Fresh
  <2>5. PICK a \in stamp[k] .. stamp[k] + MaxDelay : View!AsOf(k[1], store[k], a)
    BY <2>4 DEF EntryAsOf
  <2>6. k[1] \in Users /\ a \in Nat /\ a < Oldest
    BY <2>2, <2>3, <2>5 DEF TypeOK, CacheKey, Oldest
  <2>7. View!AsOf(k[1], store[k], a + 1)'
    BY <1>5, <2>1, <2>5, <2>6, TickMovesMoment
  <2>8. a + 1 \in stamp'[k] .. stamp'[k] + MaxDelay
    BY <2>2, <2>3, <2>5
  <2> QED BY <2>7, <2>8 DEF EntryIs
<1>6. ASSUME NEW q \in Requests, Commit(q) PROVE EntryAsOf'
  <2>1. UNCHANGED <<store, stamp>>
    BY <1>6 DEF Commit, cache
  <2>2. ASSUME NEW k \in DOMAIN store, Fresh(k)
        PROVE  EntryIs(k, store[k], stamp[k])'
    <3>1. PICK a \in stamp[k] .. stamp[k] + MaxDelay : View!AsOf(k[1], store[k], a)
      BY <2>2 DEF EntryAsOf
    <3>2. k[1] \in Users /\ a \in Nat
      BY <3>1 DEF TypeOK, CacheKey
    <3>3. View!AsOf(k[1], store[k], a)'
      BY <1>6, <2>1, <3>1, <3>2, CommitKeepsMoment
    <3> QED BY <2>1, <3>1, <3>3 DEF EntryIs
  <2> QED BY <2>1, <2>2 DEF EntryAsOf, EntryIs, Fresh
<1>7. CASE UNCHANGED <<db, store, stamp, sinceCommit>>
  BY <1>7, SameMoment DEF EntryAsOf, Fresh
<1> QED
  BY <1>1, <1>2, <1>3, <1>4, <1>5, <1>6, <1>7
     DEF Next, Handle, Mutate, ReadInsights, Rollback, JobRead, JobAbort,
         cache, ghosts, vars

\* The invariant holds initially and every step keeps it.
LEMMA MomentStep == TypeOK /\ IInv /\ MomentInv /\ [Next]_vars => MomentInv'
BY OnlyCommitsStep, HeldAsOfStep, EntryAsOfStep DEF IInv, MomentInv

\* Whatever is read through the cache, between whatever fills, invalidations, commits
\* and restarts, is the database as it stood at one moment of the last TTL + MaxDelay
\* ticks: the cache implements the view without a cache.
THEOREM CacheImplementsView == Spec => ServesOneMoment
<1> DEFINE done == {r \in Requests : tx[r] = "answered"}
           same == UNCHANGED <<db, owner, sinceCommit, answer, done>>
<1>1. Init => View!Init /\ MomentInv
  BY DEF Init, View!Init, MomentInv, HeldAsOf, Holding, EntryAsOf, Fresh, Empty, OnlyCommits
<1>2. IInv /\ MomentInv /\ [Next]_vars => [View!Next]_<<db, owner, sinceCommit, answer, done>>
  <2> SUFFICES ASSUME TypeOK, CommitsRecorded, MomentInv, [Next]_vars
               PROVE  View!Next \/ same
    BY DEF IInv
  <2> USE DEF MomentInv
  <2>1. ASSUME NEW q \in Requests, Commit(q) PROVE View!Change(q)
    <3>1. q \notin db[owner[q]]
      BY <2>1 DEF Commit, ExitReached, OnlyCommits, TypeOK
    <3>2. done' = done
      BY <2>1 DEF Commit, ExitReached, TypeOK
    <3> QED BY <2>1, <3>1, <3>2 DEF Commit, View!Change
  <2>2. ASSUME NEW q \in Requests, NEW z \in Zones, AnswerInsights(q, z)
        PROVE  View!Answer(q)
    <3> DEFINE k == <<owner[q], "insights", z>>
               s == IF Fresh(k) THEN store[k] ELSE snap[q]
    <3>1. /\ answer' = [answer EXCEPT ![q] = s] /\ UNCHANGED <<db, owner, sinceCommit>>
          /\ tx[q] = "reading" /\ tx' = [tx EXCEPT ![q] = "answered"]
      BY <2>2 DEF AnswerInsights
    <3>2. q \notin done /\ done' = done \cup {q}
      BY <3>1 DEF TypeOK
    <3>3. \E a \in 0 .. TTL + MaxDelay : View!AsOf(owner[q], s, a)
      <4>1. CASE Fresh(k)
        <5>1. PICK a \in stamp[k] .. stamp[k] + MaxDelay : View!AsOf(k[1], store[k], a)
          BY <4>1 DEF EntryAsOf, Fresh
        <5>2. stamp[k] \in Nat /\ stamp[k] <= TTL
          BY <4>1 DEF Fresh, TypeOK
        <5> QED BY <4>1, <5>1, <5>2
      <4>2. CASE ~Fresh(k)
        <5>1. View!AsOf(owner[q], snap[q], sinceRead[q]) /\ sinceRead[q] \in 0 .. MaxDelay
          BY <3>1 DEF HeldAsOf, Holding, TypeOK
        <5> QED BY <4>2, <5>1
      <4> QED BY <4>1, <4>2
    <3>4. PICK a \in 0 .. TTL + MaxDelay : View!AsOf(owner[q], s, a)
      BY <3>3
    <3>5. s \in SUBSET db[owner[q]]
      BY <3>4 DEF View!AsOf
    <3> HIDE DEF s
    <3> QED BY <3>1, <3>2, <3>4, <3>5 DEF View!Answer
  <2>3. CASE Tick
    <3>1. /\ sinceCommit' = [r \in Requests |->
                               IF tx[r] = "committed"
                               THEN Older(sinceCommit[r], Oldest) ELSE sinceCommit[r]]
          /\ UNCHANGED <<db, owner, answer, done>>
      BY <2>3 DEF Tick
    <3>2. ASSUME NEW r \in Requests
          PROVE  (IF tx[r] = "committed" THEN Older(sinceCommit[r], Oldest) ELSE sinceCommit[r])
                  = (IF r \in db[owner[r]] /\ sinceCommit[r] <= TTL + MaxDelay
                     THEN sinceCommit[r] + 1 ELSE sinceCommit[r])
      <4>1. tx[r] = "committed" <=> r \in db[owner[r]]
        BY DEF OnlyCommits, CommitsRecorded, TypeOK
      <4>2. sinceCommit[r] \in 0 .. Oldest
        BY DEF TypeOK
      <4> QED BY <4>1, <4>2 DEF Older, Oldest
    <3> QED BY <3>1, <3>2 DEF View!Tick, View!Next
  <2>4. ASSUME NEW q \in Requests, NEW o \in Mutating, Mutate(q, o) PROVE same
    BY <2>4 DEF Mutate, ghosts, TypeOK
  <2>5. ASSUME NEW q \in Requests, Rollback(q) \/ ReadInsights(q) PROVE same
    BY <2>5 DEF Rollback, ExitReached, ReadInsights, ghosts, TypeOK
  <2>6. CASE Restart
    BY <2>6 DEF Restart, TypeOK
  <2>7. ASSUME UNCHANGED <<db, owner, sinceCommit, answer, tx>> PROVE same
    BY <2>7
  <2> QED
    BY <2>1, <2>2, <2>3, <2>4, <2>5, <2>6, <2>7
       DEF Next, Handle, RunHandler, JobRead, JobAbort, JobFill, ghosts, vars, View!Next
<1> QED
  BY <1>1, <1>2, MomentStep, Inductive, TypeCorrect, PTL
     DEF Spec, ServesOneMoment, View!Spec, View!view
=============================================================================
