-------------------------- MODULE AuthClientProofs --------------------------
(***************************************************************************)
(* Proofs about AuthClient, for any sets of accounts and calls.  IInv is   *)
(* inductive: TypeOK alone first, then the refresh lock, then the account  *)
(* invariants, each from those before it.                                  *)
(***************************************************************************)
EXTENDS AuthClient, TLAPS

USE DEF Calls, Owner, InFlight

-----------------------------------------------------------------------------
\* The shared steps keep the types.
LEMMA ClearTypes ==
  ASSUME TypeOK, ClearSession
  PROVE  /\ ls' \in [access : Owner, refresh : Owner, user : Owner]
         /\ sto' \in [user : Owner, token : Owner, hydrated : BOOLEAN]
  BY DEF TypeOK, ClearSession, Stored

LEMMA CrossTypes ==
  ASSUME TypeOK, NEW why \in {"none", "hydrate", "unauthorized", "refresh", "logout"},
         NEW D, Cross(why, D)
  PROVE  /\ ended' \in {"none", "hydrate", "unauthorized", "refresh", "logout"}
         /\ crossed' \in SUBSET Calls
  BY DEF TypeOK, Cross, Pending

LEMMA WritesTypes ==
  ASSUME TypeOK, NEW c \in Calls, Writes(c)
  PROVE  stale' \in BOOLEAN
  BY DEF TypeOK, Writes

LEMMA DeliverTypes ==
  ASSUME TypeOK, ls' \in [access : Owner, refresh : Owner, user : Owner],
         NEW C, NEW F, Deliver(C, F)
  PROVE  /\ pc' \in [Calls -> {"idle", "ok", "failed"} \cup InFlight]
         /\ \A c \in Calls : pc'[c] = "hydrating" => c = Me
         /\ hdr' \in [Calls -> Owner]
  BY DEF TypeOK, Deliver

\* Every step keeps the types.
LEMMA TypeStep == TypeOK /\ [Next]_vars => TypeOK'
<1> SUFFICES ASSUME TypeOK, [Next]_vars PROVE TypeOK'
  OBVIOUS
<1>1. ASSUME NEW c \in Calls, Send(c) PROVE TypeOK'
  BY <1>1, DeliverTypes DEF Send, TypeOK, session
<1>2. ASSUME NEW c \in Calls, Answered(c) PROVE TypeOK'
  BY <1>2, WritesTypes DEF Answered, TypeOK, session
<1>3. ASSUME NEW c \in Calls, Rejected(c) PROVE TypeOK'
  <2>1. CASE c = Me /\ ls.refresh # None
    BY <1>3, <2>1 DEF Rejected, TypeOK, session
  <2>2. CASE c = Me /\ ls.refresh = None
    BY <1>3, <2>2, ClearTypes, CrossTypes, WritesTypes DEF Rejected, TypeOK
  <2>3. CASE c # Me
    BY <1>3, <2>3 DEF Rejected, TypeOK, session
  <2> QED BY <2>1, <2>2, <2>3
<1>4. ASSUME NEW c \in Calls, UnauthorizedNoRefresh(c) PROVE TypeOK'
  BY <1>4, ClearTypes, CrossTypes, WritesTypes DEF UnauthorizedNoRefresh, TypeOK
<1>5. ASSUME NEW c \in Calls, UnauthorizedQueued(c) PROVE TypeOK'
  BY <1>5 DEF UnauthorizedQueued, TypeOK, session
<1>6. ASSUME NEW c \in Calls, UnauthorizedRefresh(c) PROVE TypeOK'
  BY <1>6 DEF UnauthorizedRefresh, TypeOK, session
<1>7. ASSUME NEW c \in Calls, RefreshOk(c) PROVE TypeOK'
  <2>1. ls' \in [access : Owner, refresh : Owner, user : Owner]
    BY <1>7 DEF RefreshOk, TypeOK
  <2> QED BY <1>7, <2>1, DeliverTypes, WritesTypes DEF RefreshOk, TypeOK
<1>8. ASSUME NEW c \in Calls, RefreshFailed(c) PROVE TypeOK'
  BY <1>8, ClearTypes, CrossTypes, WritesTypes, DeliverTypes DEF RefreshFailed, TypeOK
<1>9. ASSUME HydrateRefreshOk PROVE TypeOK'
  BY <1>9, WritesTypes DEF HydrateRefreshOk, TypeOK, Stored
<1>10. ASSUME HydrateRefreshFailed PROVE TypeOK'
  BY <1>10, ClearTypes, CrossTypes, WritesTypes DEF HydrateRefreshFailed, TypeOK
<1>11. ASSUME Hydrate PROVE TypeOK'
  <2>1. CASE ls.access = None \/ ls.user = None
    <3>1. /\ sto' = [sto EXCEPT !.hydrated = TRUE]
          /\ pc' = [pc EXCEPT ![Me] = "ok"]
          /\ UNCHANGED <<ls, hdr>>
      BY <1>11, <2>1 DEF Hydrate
    <3>2. sto' \in [user : Owner, token : Owner, hydrated : BOOLEAN]
      BY <3>1 DEF TypeOK
    <3>3. /\ pc' \in [Calls -> {"idle", "ok", "failed"} \cup InFlight]
          /\ \A c \in Calls : pc'[c] = "hydrating" => c = Me
      BY <3>1 DEF TypeOK
    <3> QED BY <1>11, <3>1, <3>2, <3>3 DEF Hydrate, TypeOK
  <2>2. CASE ~(ls.access = None \/ ls.user = None)
    <3>1. ls' = ls /\ Deliver({Me}, {})
          /\ sto' = [user |-> ls.user, token |-> ls.access, hydrated |-> TRUE]
      BY <1>11, <2>2 DEF Hydrate
    <3>2. sto' \in [user : Owner, token : Owner, hydrated : BOOLEAN]
      BY <3>1 DEF TypeOK
    <3> QED BY <1>11, <3>1, <3>2, DeliverTypes DEF Hydrate, TypeOK
  <2> QED BY <2>1, <2>2
<1>12. ASSUME NEW a \in Accounts, Submit(a) PROVE TypeOK'
  BY <1>12 DEF Submit, TypeOK, session, calls
<1>13. ASSUME LoginOk PROVE TypeOK'
  BY <1>13, CrossTypes DEF LoginOk, TypeOK, Stored, calls
<1>14. ASSUME LoginFailed PROVE TypeOK'
  BY <1>14 DEF LoginFailed, TypeOK, session, calls
<1>15. ASSUME Logout PROVE TypeOK'
  BY <1>15, ClearTypes, CrossTypes DEF Logout, TypeOK, calls
<1>16. ASSUME Reload PROVE TypeOK'
  BY <1>16 DEF Reload, TypeOK
<1>17. CASE UNCHANGED vars
  BY <1>17 DEF vars, session, calls, TypeOK
<1> QED
  BY <1>1, <1>2, <1>3, <1>4, <1>5, <1>6, <1>7, <1>8, <1>9, <1>10, <1>11, <1>12, <1>13,
     <1>14, <1>15, <1>16, <1>17 DEF Next, Progress

LEMMA TypeInit == Init => TypeOK
<1> SUFFICES ASSUME Init PROVE TypeOK
  OBVIOUS
<1>1. ls \in [access : Owner, refresh : Owner, user : Owner]
  BY DEF Init, Stored
<1>2. /\ sto \in [user : Owner, token : Owner, hydrated : BOOLEAN]
      /\ login \in Owner
      /\ pc \in [Calls -> {"idle", "ok", "failed"} \cup InFlight]
      /\ hdr \in [Calls -> Owner] /\ carried \in [Calls -> Owner]
      /\ \A c \in Calls : pc[c] # "hydrating"
  BY DEF Init
<1> QED BY <1>1, <1>2 DEF Init, TypeOK

\* The session, the calls and the store keep their types.
THEOREM TypeCorrect == Spec => []TypeOK
BY TypeInit, TypeStep, PTL DEF Spec

-----------------------------------------------------------------------------
\* Calls that neither are, nor become, refreshing or queued leave the lock alone.
LEMMA LockKept ==
  ASSUME TypeOK, RefreshLock, NEW c \in Calls,
         pc[c] \notin {"refreshing", "queued"},
         NEW v, v \notin {"refreshing", "queued"},
         pc' = [pc EXCEPT ![c] = v], UNCHANGED <<isRefreshing, failedQueue>>
  PROVE  RefreshLock'
<1>1. \A d \in Calls : /\ pc'[d] = "refreshing" <=> pc[d] = "refreshing"
                       /\ pc'[d] = "queued" <=> pc[d] = "queued"
  BY DEF TypeOK
<1> QED BY <1>1 DEF RefreshLock

LEMMA LockStep == TypeOK /\ RefreshLock /\ [Next]_vars => RefreshLock'
<1> SUFFICES ASSUME TypeOK, RefreshLock, [Next]_vars PROVE RefreshLock'
  OBVIOUS
<1>1. ASSUME NEW c \in Calls, Send(c) PROVE RefreshLock'
  <2>1. \A d \in Calls : pc'[d] = IF d = c THEN "sent" ELSE pc[d]
    BY <1>1 DEF Send, Deliver
  <2>2. pc[c] = "idle" /\ UNCHANGED <<isRefreshing, failedQueue>>
    BY <1>1 DEF Send
  <2> QED BY <2>1, <2>2 DEF RefreshLock
<1>2. ASSUME NEW c \in Calls, Answered(c) PROVE RefreshLock'
  BY <1>2, LockKept DEF Answered
<1>3. ASSUME NEW c \in Calls, Rejected(c) PROVE RefreshLock'
  <2>1. \E v \in {"hydrating", "failed"} : pc' = [pc EXCEPT ![c] = v]
    BY <1>3 DEF Rejected
  <2>2. pc[c] = "sent" /\ UNCHANGED <<isRefreshing, failedQueue>>
    BY <1>3 DEF Rejected
  <2> QED BY <2>1, <2>2, LockKept
<1>4. ASSUME NEW c \in Calls, UnauthorizedNoRefresh(c) PROVE RefreshLock'
  BY <1>4, LockKept DEF UnauthorizedNoRefresh
<1>5. ASSUME NEW c \in Calls, UnauthorizedQueued(c) PROVE RefreshLock'
  <2>1. \A d \in Calls : pc'[d] = IF d = c THEN "queued" ELSE pc[d]
    BY <1>5 DEF UnauthorizedQueued, TypeOK
  <2>2. /\ pc[c] = "sent" /\ isRefreshing /\ isRefreshing' = isRefreshing
        /\ failedQueue' = failedQueue \cup {c}
    BY <1>5 DEF UnauthorizedQueued
  <2> QED BY <2>1, <2>2 DEF RefreshLock
<1>6. ASSUME NEW c \in Calls, UnauthorizedRefresh(c) PROVE RefreshLock'
  <2>1. \A d \in Calls : pc'[d] = IF d = c THEN "refreshing" ELSE pc[d]
    BY <1>6 DEF UnauthorizedRefresh, TypeOK
  <2>2. /\ pc[c] = "sent" /\ ~isRefreshing /\ isRefreshing' = TRUE
        /\ failedQueue' = failedQueue
    BY <1>6 DEF UnauthorizedRefresh
  <2> QED BY <2>1, <2>2 DEF RefreshLock
<1>7. ASSUME NEW c \in Calls, RefreshOk(c) PROVE RefreshLock'
  <2>1. \A d \in Calls : pc'[d] = IF d \in failedQueue \cup {c} THEN "sent" ELSE pc[d]
    BY <1>7 DEF RefreshOk, Deliver
  <2>2. pc[c] = "refreshing" /\ failedQueue' = {} /\ isRefreshing' = FALSE
    BY <1>7 DEF RefreshOk
  <2> QED BY <2>1, <2>2 DEF RefreshLock
<1>8. ASSUME NEW c \in Calls, RefreshFailed(c) PROVE RefreshLock'
  <2>1. \A d \in Calls : pc'[d] = IF d \in failedQueue \cup {c} THEN "failed" ELSE pc[d]
    BY <1>8 DEF RefreshFailed, Deliver
  <2>2. pc[c] = "refreshing" /\ failedQueue' = {} /\ isRefreshing' = FALSE
    BY <1>8 DEF RefreshFailed
  <2> QED BY <2>1, <2>2 DEF RefreshLock
<1>9. ASSUME HydrateRefreshOk PROVE RefreshLock'
  BY <1>9, LockKept DEF HydrateRefreshOk
<1>10. ASSUME HydrateRefreshFailed PROVE RefreshLock'
  BY <1>10, LockKept DEF HydrateRefreshFailed
<1>11. ASSUME Hydrate PROVE RefreshLock'
  <2>1. /\ pc[Me] = "idle"
        /\ \A d \in Calls : d # Me => pc'[d] = pc[d]
        /\ pc'[Me] \in {"ok", "sent"}
        /\ UNCHANGED <<isRefreshing, failedQueue>>
    BY <1>11 DEF Hydrate, Deliver, TypeOK
  <2> QED BY <2>1 DEF RefreshLock
<1>12. ASSUME NEW a \in Accounts, Submit(a) PROVE RefreshLock'
  BY <1>12 DEF Submit, RefreshLock, calls
<1>13. CASE LoginOk
  BY <1>13 DEF LoginOk, RefreshLock, calls
<1>14. CASE LoginFailed
  BY <1>14 DEF LoginFailed, RefreshLock, calls
<1>15. CASE Logout
  BY <1>15 DEF Logout, RefreshLock, calls
<1>16. CASE Reload
  <2>1. \A d \in Calls : pc'[d] = IF d = Me THEN "idle"
                                   ELSE IF pc[d] \in InFlight THEN "failed" ELSE pc[d]
    BY <1>16 DEF Reload
  <2>2. \A d \in Calls : pc'[d] \notin {"refreshing", "queued"}
    BY <2>1
  <2> QED BY <1>16, <2>2 DEF Reload, RefreshLock
<1>17. CASE UNCHANGED vars
  BY <1>17 DEF vars, calls, RefreshLock
<1> QED
  BY <1>1, <1>2, <1>3, <1>4, <1>5, <1>6, <1>7, <1>8, <1>9, <1>10, <1>11, <1>12, <1>13,
     <1>14, <1>15, <1>16, <1>17 DEF Next, Progress

\* isRefreshing admits one refresh at a time, and no waiting call is forgotten:
\* the interceptor of client.ts, however calls, logins and reloads interleave.
THEOREM RefreshIsExclusive == Spec => []RefreshLock
<1>1. Init => RefreshLock
  BY DEF Init, RefreshLock
<1> QED BY <1>1, TypeCorrect, LockStep, PTL DEF Spec

-----------------------------------------------------------------------------
\* Only a hydrated page has a user, a pending call or a pending login.
LEMMA HydratedStep == TypeOK /\ NotHydrated /\ [Next]_vars => NotHydrated'
<1> SUFFICES ASSUME TypeOK, NotHydrated, [Next]_vars PROVE NotHydrated'
  OBVIOUS
<1>1. ASSUME NEW c \in Calls, Send(c) PROVE NotHydrated'
  <2>1. c # Me /\ sto.hydrated /\ sto' = sto
    BY <1>1, MeAssumption DEF Send, NotHydrated, session, TypeOK
  <2>2. pc'[Me] = pc[Me]
    BY <1>1, <2>1 DEF Send, Deliver
  <2> QED BY <2>1, <2>2 DEF NotHydrated
<1>2. ASSUME NEW c \in Calls, Progress(c) PROVE NotHydrated'
  <2>1. c \in Pending
    BY <1>2 DEF Progress, Answered, Rejected, UnauthorizedNoRefresh, UnauthorizedQueued,
       UnauthorizedRefresh, RefreshOk, RefreshFailed, HydrateRefreshOk,
       HydrateRefreshFailed, Pending
  <2>2. sto.hydrated /\ pc[Me] # "idle"
    BY <2>1 DEF NotHydrated, TypeOK
  <2>3. sto'.hydrated
    BY <1>2, <2>2 DEF Progress, Answered, Rejected, UnauthorizedNoRefresh,
       UnauthorizedQueued, UnauthorizedRefresh, RefreshOk, RefreshFailed, HydrateRefreshOk,
       HydrateRefreshFailed, ClearSession, session, TypeOK
  <2>4. pc'[Me] # "idle"
    BY <1>2, <2>2 DEF Progress, Answered, Rejected, UnauthorizedNoRefresh,
       UnauthorizedQueued, UnauthorizedRefresh, RefreshOk, RefreshFailed, HydrateRefreshOk,
       HydrateRefreshFailed, Deliver, TypeOK
  <2> QED BY <2>3, <2>4 DEF NotHydrated
<1>3. ASSUME Hydrate PROVE NotHydrated'
  <2>1. sto'.hydrated /\ pc'[Me] # "idle"
    BY <1>3 DEF Hydrate, Deliver, TypeOK
  <2> QED BY <2>1 DEF NotHydrated
<1>4. ASSUME NEW a \in Accounts, Submit(a) PROVE NotHydrated'
  BY <1>4 DEF Submit, NotHydrated, session, calls, Pending
<1>5. CASE LoginOk
  <2>1. sto.hydrated /\ sto'.hydrated /\ pc' = pc
    BY <1>5 DEF LoginOk, NotHydrated, calls, TypeOK
  <2> QED BY <2>1 DEF NotHydrated
<1>6. CASE LoginFailed
  BY <1>6 DEF LoginFailed, NotHydrated, session, calls, Pending
<1>7. CASE Logout
  <2>1. sto.hydrated /\ sto'.hydrated /\ pc' = pc
    BY <1>7 DEF Logout, ClearSession, NotHydrated, calls, TypeOK
  <2> QED BY <2>1 DEF NotHydrated
<1>8. CASE Reload
  <2>1. \A d \in Calls : pc'[d] = IF d = Me THEN "idle"
                                   ELSE IF pc[d] \in InFlight THEN "failed" ELSE pc[d]
    BY <1>8 DEF Reload
  <2>2. Pending' = {} /\ pc'[Me] = "idle"
    BY <2>1 DEF Pending
  <2> QED BY <1>8, <2>2 DEF Reload, NotHydrated
<1>9. CASE UNCHANGED vars
  BY <1>9 DEF vars, session, calls, NotHydrated, Pending
<1> QED
  BY <1>1, <1>2, <1>3, <1>4, <1>5, <1>6, <1>7, <1>8, <1>9 DEF Next

\* Each step that ends or begins a session puts every call still pending among the
\* crossed ones, so none of them owes its account to the session any more.
LEMMA CrossFrees ==
  ASSUME NEW why, NEW D, Cross(why, D),
         \A c \in Calls : pc'[c] \in InFlight => pc[c] \in InFlight /\ c \notin D
  PROVE  OwnAccount'
BY DEF Cross, OwnAccount, Pending

\* The two account invariants together.
Accounting == SessionConsistent /\ OwnAccount

\* A step that ends the session for everybody keeps both.
LEMMA ClearKeeps ==
  ASSUME TypeOK, ClearSession, NEW why, NEW D, Cross(why, D),
         \A c \in Calls : pc'[c] \in InFlight => pc[c] \in InFlight /\ c \notin D
  PROVE  Accounting'
<1>1. /\ ls'.access = None /\ ls'.refresh = None /\ ls'.user = None
      /\ sto'.user = None /\ sto'.token = None
  BY DEF ClearSession, Stored
<1> QED BY <1>1, CrossFrees DEF Accounting, SessionConsistent

\* A step that leaves the session and its owners alone keeps both, when each call
\* it makes move is one that already carried its own account.
LEMMA QuietKeeps ==
  ASSUME Accounting, UNCHANGED <<ls, sto, crossed, stale, hdr>>,
         ~stale => \A c \in Calls \ crossed :
           /\ pc'[c] \in {"sent", "queued"} => pc[c] \in {"sent", "queued"}
           /\ pc'[c] \in {"refreshing", "hydrating"} =>
                 carried'[c] = ls.user /\ pc[c] \in InFlight
  PROVE  Accounting'
BY DEF Accounting, SessionConsistent, OwnAccount

LEMMA AccountingStep ==
  TypeOK /\ RefreshLock /\ NotHydrated /\ Accounting /\ [Next]_vars => Accounting'
<1> SUFFICES ASSUME TypeOK, RefreshLock, NotHydrated, Accounting, [Next]_vars
             PROVE  Accounting'
  OBVIOUS
<1>0. ~stale => /\ ls.access = ls.user /\ ls.refresh = ls.user
                /\ sto.hydrated => sto.user = ls.user /\ sto.token = ls.user
  BY DEF Accounting, SessionConsistent
<1>a. ~stale => \A c \in Calls \ crossed :
        /\ pc[c] \in InFlight => ls.user # None
        /\ pc[c] \in {"sent", "queued"} => hdr[c] = ls.user
        /\ pc[c] \in {"refreshing", "hydrating"} => carried[c] = ls.user
  BY DEF Accounting, OwnAccount
<1>1. ASSUME NEW c \in Calls, Send(c) PROVE Accounting'
  <2>1. sto.hydrated /\ sto.user # None
    BY <1>1, MeAssumption DEF Send, NotHydrated, TypeOK
  <2>2. /\ \A d \in Calls : pc'[d] = IF d = c THEN "sent" ELSE pc[d]
        /\ \A d \in Calls : hdr'[d] = IF d = c THEN ls.access ELSE hdr[d]
        /\ UNCHANGED <<ls, sto, carried, crossed, stale>>
    BY <1>1 DEF Send, Deliver, session
  <2> QED BY <1>0, <1>a, <2>1, <2>2 DEF Accounting, SessionConsistent, OwnAccount
<1>2. ASSUME NEW c \in Calls, Answered(c) PROVE Accounting'
  <2>1. /\ \A d \in Calls : pc'[d] = IF d = c THEN "ok" ELSE pc[d]
        /\ UNCHANGED <<hdr, carried, crossed>>
        /\ pc[c] = "sent"
    BY <1>2 DEF Answered, TypeOK
  <2>2. CASE c \in Profile \cup {Me}
    <3>1. /\ sto' = [sto EXCEPT !.user = hdr[c]] /\ ls' = [ls EXCEPT !.user = hdr[c]]
          /\ stale' = (stale \/ c \in crossed)
      BY <1>2, <2>2 DEF Answered, Writes
    <3>2. /\ sto'.user = hdr[c] /\ sto'.token = sto.token /\ sto'.hydrated = sto.hydrated
          /\ ls'.user = hdr[c] /\ ls'.access = ls.access /\ ls'.refresh = ls.refresh
      BY <3>1 DEF TypeOK
    <3>3. ~stale' => ~stale /\ c \notin crossed /\ hdr[c] = ls.user
      BY <3>1, <2>1, <1>a
    <3> QED BY <1>0, <1>a, <2>1, <3>2, <3>3 DEF Accounting, SessionConsistent, OwnAccount
  <2>3. CASE c \notin Profile \cup {Me}
    BY <1>2, <2>1, <2>3, <1>a, QuietKeeps DEF Answered, session
  <2> QED BY <2>2, <2>3
<1>3. ASSUME NEW c \in Calls, Rejected(c) PROVE Accounting'
  <2>1. CASE c = Me /\ ls.refresh # None
    <3>1. /\ pc[c] = "sent"
          /\ \A d \in Calls : pc'[d] = IF d = c THEN "hydrating" ELSE pc[d]
          /\ \A d \in Calls : carried'[d] = IF d = c THEN ls.refresh ELSE carried[d]
          /\ UNCHANGED <<ls, sto, crossed, stale, hdr>>
      BY <1>3, <2>1 DEF Rejected, TypeOK, session
    <3> QED BY <1>0, <1>a, <3>1, QuietKeeps
  <2>2. CASE c = Me /\ ls.refresh = None
    <3>1. /\ \A d \in Calls : pc'[d] = IF d = c THEN "failed" ELSE pc[d]
          /\ ClearSession /\ Cross("hydrate", {c})
      BY <1>3, <2>2 DEF Rejected, TypeOK
    <3> QED BY <3>1, ClearKeeps
  <2>3. CASE c # Me
    <3>1. /\ \A d \in Calls : pc'[d] = IF d = c THEN "failed" ELSE pc[d]
          /\ UNCHANGED <<ls, sto, crossed, stale, hdr, carried>>
      BY <1>3, <2>3 DEF Rejected, TypeOK, session
    <3> QED BY <1>a, <3>1, QuietKeeps
  <2> QED BY <2>1, <2>2, <2>3
<1>4. ASSUME NEW c \in Calls, UnauthorizedNoRefresh(c) PROVE Accounting'
  <2>1. /\ \A d \in Calls : pc'[d] = IF d = c THEN "failed" ELSE pc[d]
        /\ ClearSession /\ Cross("unauthorized", {c})
    BY <1>4 DEF UnauthorizedNoRefresh, TypeOK
  <2> QED BY <2>1, ClearKeeps
<1>5. ASSUME NEW c \in Calls, UnauthorizedQueued(c) PROVE Accounting'
  <2>1. /\ \A d \in Calls : pc'[d] = IF d = c THEN "queued" ELSE pc[d]
        /\ pc[c] = "sent"
        /\ UNCHANGED <<ls, sto, crossed, stale, hdr, carried>>
    BY <1>5 DEF UnauthorizedQueued, TypeOK, session
  <2> QED BY <1>a, <2>1, QuietKeeps
<1>6. ASSUME NEW c \in Calls, UnauthorizedRefresh(c) PROVE Accounting'
  <2>1. /\ pc[c] = "sent"
        /\ \A d \in Calls : pc'[d] = IF d = c THEN "refreshing" ELSE pc[d]
        /\ \A d \in Calls : carried'[d] = IF d = c THEN ls.refresh ELSE carried[d]
        /\ UNCHANGED <<ls, sto, crossed, stale, hdr>>
    BY <1>6 DEF UnauthorizedRefresh, TypeOK, session
  <2> QED BY <1>0, <1>a, <2>1, QuietKeeps
<1>7. ASSUME NEW c \in Calls, RefreshOk(c) PROVE Accounting'
  <2>1. /\ ls' = [ls EXCEPT !.access = carried[c], !.refresh = carried[c]]
        /\ sto' = [sto EXCEPT !.token = carried[c]]
        /\ stale' = (stale \/ c \in crossed)
        /\ pc[c] = "refreshing"
    BY <1>7 DEF RefreshOk, Writes
  <2>2. /\ sto'.user = sto.user /\ sto'.token = carried[c] /\ sto'.hydrated = sto.hydrated
        /\ ls'.user = ls.user /\ ls'.access = carried[c] /\ ls'.refresh = carried[c]
    BY <2>1 DEF TypeOK
  <2>3. /\ \A d \in Calls : pc'[d] = IF d \in failedQueue \cup {c} THEN "sent" ELSE pc[d]
        /\ \A d \in Calls : hdr'[d] = IF d \in failedQueue \cup {c} THEN carried[c]
                                                                ELSE hdr[d]
        /\ UNCHANGED <<carried, crossed>>
    BY <1>7, <2>2 DEF RefreshOk, Deliver
  <2>4. ~stale' => ~stale /\ c \notin crossed /\ carried[c] = ls.user
    BY <2>1, <1>a
  <2>5. ~stale' => SessionConsistent'
    BY <1>0, <2>2, <2>4 DEF SessionConsistent
  <2>6. ASSUME ~stale', NEW d \in Calls \ crossed' PROVE
           /\ pc'[d] \in InFlight => ls'.user # None
           /\ pc'[d] \in {"sent", "queued"} => hdr'[d] = ls'.user
           /\ pc'[d] \in {"refreshing", "hydrating"} => carried'[d] = ls'.user
    <3>1. d \in failedQueue => pc[d] = "queued"
      BY DEF RefreshLock
    <3>2. ls.user # None
      BY <1>a, <2>1, <2>4, <2>6
    <3> QED BY <1>a, <2>2, <2>3, <2>4, <2>6, <3>1, <3>2
  <2> QED BY <2>5, <2>6 DEF Accounting, OwnAccount, SessionConsistent
<1>8. ASSUME NEW c \in Calls, RefreshFailed(c) PROVE Accounting'
  <2>1. /\ \A d \in Calls : pc'[d] = IF d \in failedQueue \cup {c} THEN "failed" ELSE pc[d]
        /\ ClearSession /\ Cross("refresh", failedQueue \cup {c})
    BY <1>8 DEF RefreshFailed, Deliver
  <2> QED BY <2>1, ClearKeeps
<1>9. ASSUME HydrateRefreshOk PROVE Accounting'
  <2>1. /\ \A d \in Calls : pc'[d] = IF d = Me THEN "ok" ELSE pc[d]
        /\ stale' = (stale \/ Me \in crossed)
        /\ pc[Me] = "hydrating"
        /\ UNCHANGED <<carried, crossed, hdr>>
    BY <1>9 DEF HydrateRefreshOk, Writes, TypeOK
  <2>2. /\ sto'.user = carried[Me] /\ sto'.token = carried[Me]
        /\ ls'.user = carried[Me] /\ ls'.access = carried[Me] /\ ls'.refresh = carried[Me]
    BY <1>9 DEF HydrateRefreshOk, Stored
  <2>3. ~stale' => ~stale /\ carried[Me] = ls.user
    BY <2>1, <1>a
  <2> QED BY <1>a, <2>1, <2>2, <2>3 DEF Accounting, SessionConsistent, OwnAccount
<1>10. ASSUME HydrateRefreshFailed PROVE Accounting'
  <2>1. /\ \A d \in Calls : pc'[d] = IF d = Me THEN "failed" ELSE pc[d]
        /\ ClearSession /\ Cross("hydrate", {Me})
    BY <1>10 DEF HydrateRefreshFailed, TypeOK
  <2> QED BY <2>1, ClearKeeps
<1>11. ASSUME Hydrate PROVE Accounting'
  <2>1. ~sto.hydrated /\ sto.user = None /\ sto.token = None
    BY <1>11 DEF Hydrate, NotHydrated
  <2>2. CASE ls.access = None \/ ls.user = None
    <3>1. /\ \A d \in Calls : pc'[d] = IF d = Me THEN "ok" ELSE pc[d]
          /\ sto' = [sto EXCEPT !.hydrated = TRUE]
          /\ UNCHANGED <<ls, hdr, carried, crossed, stale>>
      BY <1>11, <2>2 DEF Hydrate, TypeOK
    <3>2. sto'.user = None /\ sto'.token = None
      BY <2>1, <3>1 DEF TypeOK
    <3> QED BY <1>0, <1>a, <2>2, <3>1, <3>2 DEF Accounting, SessionConsistent, OwnAccount
  <2>3. CASE ~(ls.access = None \/ ls.user = None)
    <3>1. /\ \A d \in Calls : pc'[d] = IF d = Me THEN "sent" ELSE pc[d]
          /\ \A d \in Calls : hdr'[d] = IF d = Me THEN ls.access ELSE hdr[d]
          /\ sto'.user = ls.user /\ sto'.token = ls.access
          /\ UNCHANGED <<ls, carried, crossed, stale>>
      BY <1>11, <2>3 DEF Hydrate, Deliver
    <3> QED BY <1>0, <1>a, <2>3, <3>1 DEF Accounting, SessionConsistent, OwnAccount
  <2> QED BY <2>2, <2>3
<1>12. ASSUME NEW a \in Accounts, Submit(a) PROVE Accounting'
  BY <1>12, <1>a, QuietKeeps DEF Submit, session, calls
<1>13. CASE LoginOk
  <2>1. Cross("none", {}) /\ pc' = pc
    BY <1>13 DEF LoginOk, calls
  <2>2. /\ ls'.user = login /\ ls'.access = login /\ ls'.refresh = login
        /\ sto'.user = login /\ sto'.token = login
    BY <1>13 DEF LoginOk, Stored, TypeOK
  <2> QED BY <2>1, <2>2, CrossFrees DEF Accounting, SessionConsistent
<1>14. CASE LoginFailed
  BY <1>14, <1>a, QuietKeeps DEF LoginFailed, session, calls
<1>15. CASE Logout
  <2>1. ClearSession /\ Cross("logout", {}) /\ pc' = pc
    BY <1>15 DEF Logout, calls
  <2> QED BY <2>1, ClearKeeps
<1>16. CASE Reload
  <2>1. \A d \in Calls : pc'[d] = IF d = Me THEN "idle"
                                   ELSE IF pc[d] \in InFlight THEN "failed" ELSE pc[d]
    BY <1>16 DEF Reload
  <2>2. \A d \in Calls : pc'[d] \notin InFlight
    BY <2>1
  <2>3. ~sto'.hydrated /\ ls' = ls /\ stale' = stale
    BY <1>16 DEF Reload
  <2> QED BY <1>0, <2>2, <2>3 DEF Accounting, SessionConsistent, OwnAccount
<1>17. CASE UNCHANGED vars
  BY <1>17, <1>a, QuietKeeps DEF vars, session, calls
<1> QED
  BY <1>1, <1>2, <1>3, <1>4, <1>5, <1>6, <1>7, <1>8, <1>9, <1>10, <1>11, <1>12, <1>13,
     <1>14, <1>15, <1>16, <1>17 DEF Next, Progress

\* IInv is an invariant: the parts that need one another, together.
THEOREM Inductive == Spec => []IInv
<1>1. Init => IInv
  <2> SUFFICES ASSUME Init PROVE IInv
    OBVIOUS
  <2>1. ls.access = ls.user /\ ls.refresh = ls.user
    BY DEF Init, Stored
  <2>2. sto.user = None /\ sto.token = None /\ ~sto.hydrated
    BY DEF Init
  <2>3. TypeOK /\ RefreshLock
    BY TypeInit DEF Init, RefreshLock
  <2>4. NotHydrated /\ SessionConsistent /\ OwnAccount
    BY <2>1, <2>2 DEF Init, NotHydrated, SessionConsistent, OwnAccount, Pending
  <2> QED BY <2>3, <2>4 DEF IInv
<1>2. IInv /\ [Next]_vars => IInv'
  BY TypeStep, LockStep, HydratedStep, AccountingStep DEF IInv, Accounting
<1> QED BY <1>1, <1>2, PTL DEF Spec

\* Whatever interleaves, the stored tokens, the stored user and the user shown are
\* of one account until a refresh or /auth/me outlives its session.
THEOREM SessionIsOneAccount == Spec => []SessionConsistent
<1>1. IInv => SessionConsistent
  BY DEF IInv
<1> QED BY <1>1, Inductive, PTL
=============================================================================
