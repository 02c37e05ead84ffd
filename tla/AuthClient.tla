----------------------------- MODULE AuthClient -----------------------------
(***************************************************************************)
(* The session of the single-page client: the axios instance that renews   *)
(* an expired access token and replays the calls that met it, and the auth *)
(* store that logs in, logs out and hydrates from localStorage.            *)
(*                                                                         *)
(* A token, stored, carried or attached to a call, is abstracted to the    *)
(* account it was issued to.  The server may find any token expired, so    *)
(* each answer is one of those the client tells apart.  JavaScript runs a  *)
(* handler and the promise reactions it causes before the next event: one  *)
(* action is one event with all its reactions.  AuthState.refreshToken is  *)
(* called from nowhere and left out.                                       *)
(***************************************************************************)
CONSTANTS
    Accounts,
    Requests,    \* API calls of the pages; each is made once
    Profile,     \* those that are updateProfile
    Me,          \* hydrate's GET /auth/me
    None         \* null

ASSUME MeAssumption   == Me \notin Requests /\ Profile \subseteq Requests
ASSUME NoneAssumption == None \notin Accounts

VARIABLES
    ls,            \* localStorage: tradeloop_token, _refresh_token, _user
    sto,           \* the store: user, token, hydrated
    login,         \* account whose login or registration is pending, or None
    pc,            \* where each call is
    hdr,           \* account of the token in its Authorization header
    retried,       \* calls with _retry set
    carried,       \* account of the refresh token a refreshing call has posted
    isRefreshing, failedQueue,
    ended,         \* ghost: how the last session ended, "none" since a login
    crossed,       \* ghost: calls in flight when a session ended or began
    stale          \* ghost: a crossed call has since written the session

session == <<ls, sto>>
calls   == <<pc, hdr, retried, carried, isRefreshing, failedQueue>>
vars    == <<session, login, calls, ended, crossed, stale>>

Calls     == Requests \cup {Me}
Owner     == Accounts \cup {None}
InFlight  == {"sent", "queued", "refreshing", "hydrating"}
Pending   == {c \in Calls : pc[c] \in InFlight}

Stored(a) == [access |-> a, refresh |-> a, user |-> a]

Init ==
    /\ \E a \in Owner : ls = Stored(a)
    /\ sto = [user |-> None, token |-> None, hydrated |-> FALSE]
    /\ login = None
    /\ pc = [c \in Calls |-> "idle"]
    /\ hdr = [c \in Calls |-> None]
    /\ retried = {}
    /\ carried = [c \in Calls |-> None]
    /\ isRefreshing = FALSE /\ failedQueue = {}
    /\ ended = "none"
    /\ crossed = {} /\ stale = FALSE

-----------------------------------------------------------------------------
(* Steps the handlers share.                                               *)

\* logout, and the last lines of hydrate.
ClearSession ==
    /\ ls' = Stored(None)
    /\ sto' = [user |-> None, token |-> None, hydrated |-> sto.hydrated]

\* The request interceptor attaches the stored token: the calls of C are sent,
\* those of F fail.
Deliver(C, F) ==
    /\ pc' = [c \in Calls |-> IF c \in C THEN "sent"
                              ELSE IF c \in F THEN "failed" ELSE pc[c]]
    /\ hdr' = [c \in Calls |-> IF c \in C THEN ls'.access ELSE hdr[c]]

\* The session ends or begins for reason why; the calls of D are done with it.
Cross(why, D) ==
    /\ ended' = why
    /\ crossed' = crossed \cup (Pending \ D)

\* Call c writes the session.
Writes(c) == stale' = (stale \/ c \in crossed)

-----------------------------------------------------------------------------
(* Calls of the pages.  Only signed-in pages make them.                    *)

Send(c) ==
    /\ c \in Requests /\ pc[c] = "idle" /\ sto.user # None
    /\ UNCHANGED session
    /\ Deliver({c}, {})
    /\ UNCHANGED <<login, retried, carried, isRefreshing, failedQueue, ended,
                   crossed, stale>>

\* A 2xx answer.  hydrate and updateProfile store the account it names, that of
\* the token.
Answered(c) ==
    /\ pc[c] = "sent" /\ hdr[c] # None
    /\ pc' = [pc EXCEPT ![c] = "ok"]
    /\ IF c \in Profile \cup {Me}
       THEN /\ sto' = [sto EXCEPT !.user = hdr[c]]
            /\ ls' = [ls EXCEPT !.user = hdr[c]]
            /\ Writes(c)
       ELSE UNCHANGED <<session, stale>>
    /\ UNCHANGED <<login, hdr, retried, carried, isRefreshing, failedQueue,
                   ended, crossed>>

\* (mutant of Rejected) every rejected call refreshes by itself.
RejectedAny(c) ==
    /\ pc[c] = "sent"
    /\ IF ls.refresh # None
       THEN /\ pc' = [pc EXCEPT ![c] = "hydrating"]
            /\ carried' = [carried EXCEPT ![c] = ls.refresh]
            /\ UNCHANGED <<session, stale, ended, crossed>>
       ELSE /\ pc' = [pc EXCEPT ![c] = "failed"]
            /\ UNCHANGED <<session, stale, ended, crossed, carried>>
    /\ UNCHANGED <<login, hdr, retried, isRefreshing, failedQueue>>

\* No answer, another error status, or 401 to a call already retried: the call
\* is rejected.  For /auth/me hydrate then tries the refresh token itself.
Rejected(c) ==
    /\ pc[c] = "sent"
    /\ IF c = Me /\ ls.refresh # None
       THEN /\ pc' = [pc EXCEPT ![c] = "hydrating"]
            /\ carried' = [carried EXCEPT ![c] = ls.refresh]
            /\ UNCHANGED <<session, stale, ended, crossed>>
       ELSE /\ pc' = [pc EXCEPT ![c] = "failed"]
            /\ IF c = Me THEN ClearSession /\ Writes(c) /\ Cross("hydrate", {c})
                         ELSE UNCHANGED <<session, stale, ended, crossed>>
            /\ UNCHANGED carried
    /\ UNCHANGED <<login, hdr, retried, isRefreshing, failedQueue>>

\* 401, and nothing to refresh with: logout.
UnauthorizedNoRefresh(c) ==
    /\ pc[c] = "sent" /\ c \notin retried /\ ls.refresh = None
    /\ pc' = [pc EXCEPT ![c] = "failed"]
    /\ ClearSession /\ Writes(c) /\ Cross("unauthorized", {c})
    /\ UNCHANGED <<login, hdr, retried, carried, isRefreshing, failedQueue>>

\* 401 while another call refreshes: wait for it.
UnauthorizedQueued(c) ==
    /\ pc[c] = "sent" /\ c \notin retried /\ ls.refresh # None
    /\ isRefreshing
    /\ pc' = [pc EXCEPT ![c] = "queued"]
    /\ failedQueue' = failedQueue \cup {c}
    /\ UNCHANGED <<session, login, hdr, retried, carried, isRefreshing, ended,
                   crossed, stale>>

\* (mutant of UnauthorizedRefresh) _retry is not looked at.
UnauthorizedAgain(c) ==
    /\ pc[c] = "sent" /\ ls.refresh # None
    /\ ~isRefreshing
    /\ isRefreshing' = TRUE
    /\ retried' = retried \cup {c}
    /\ pc' = [pc EXCEPT ![c] = "refreshing"]
    /\ carried' = [carried EXCEPT ![c] = ls.refresh]
    /\ UNCHANGED <<session, login, hdr, failedQueue, ended, crossed, stale>>

\* 401 otherwise: this call refreshes.
UnauthorizedRefresh(c) ==
    /\ pc[c] = "sent" /\ c \notin retried /\ ls.refresh # None
    /\ ~isRefreshing
    /\ isRefreshing' = TRUE
    /\ retried' = retried \cup {c}
    /\ pc' = [pc EXCEPT ![c] = "refreshing"]
    /\ carried' = [carried EXCEPT ![c] = ls.refresh]
    /\ UNCHANGED <<session, login, hdr, failedQueue, ended, crossed, stale>>

\* The new tokens are stored, the queue and the call itself are sent again.
RefreshOk(c) ==
    /\ pc[c] = "refreshing"
    /\ ls' = [ls EXCEPT !.access = carried[c], !.refresh = carried[c]]
    /\ sto' = [sto EXCEPT !.token = carried[c]]
    /\ Deliver(failedQueue \cup {c}, {})
    /\ failedQueue' = {} /\ isRefreshing' = FALSE
    /\ Writes(c)
    /\ UNCHANGED <<login, retried, carried, ended, crossed>>

\* (mutant of RefreshFailed) the failure is reported to the caller only.
RefreshFailedAlone(c) ==
    /\ pc[c] = "refreshing"
    /\ ClearSession /\ Writes(c) /\ Cross("refresh", failedQueue \cup {c})
    /\ Deliver({}, {c})
    /\ isRefreshing' = FALSE
    /\ UNCHANGED <<login, retried, carried, failedQueue>>

\* Refused or unreachable: the queue and the call are rejected; logout.
RefreshFailed(c) ==
    /\ pc[c] = "refreshing"
    /\ ClearSession /\ Writes(c) /\ Cross("refresh", failedQueue \cup {c})
    /\ Deliver({}, failedQueue \cup {c})
    /\ failedQueue' = {} /\ isRefreshing' = FALSE
    /\ UNCHANGED <<login, retried, carried>>

-----------------------------------------------------------------------------
(* The store.                                                              *)

\* hydrate, on mount: without a stored session it ends, else the stored user is
\* shown at once and checked with /auth/me.
Hydrate ==
    /\ pc[Me] = "idle"
    /\ UNCHANGED ls
    /\ IF ls.access = None \/ ls.user = None
       THEN /\ sto' = [sto EXCEPT !.hydrated = TRUE]
            /\ pc' = [pc EXCEPT ![Me] = "ok"]
            /\ UNCHANGED hdr
       ELSE /\ sto' = [user |-> ls.user, token |-> ls.access, hydrated |-> TRUE]
            /\ Deliver({Me}, {})
    /\ UNCHANGED <<login, retried, carried, isRefreshing, failedQueue, ended,
                   crossed, stale>>

HydrateRefreshOk ==
    /\ pc[Me] = "hydrating"
    /\ ls' = Stored(carried[Me])
    /\ sto' = [user |-> carried[Me], token |-> carried[Me], hydrated |-> TRUE]
    /\ pc' = [pc EXCEPT ![Me] = "ok"]
    /\ Writes(Me)
    /\ UNCHANGED <<login, hdr, retried, carried, isRefreshing, failedQueue,
                   ended, crossed>>

\* Any failure of the refresh call, a refused token and no answer alike.
HydrateRefreshFailed ==
    /\ pc[Me] = "hydrating"
    /\ ClearSession /\ Writes(Me) /\ Cross("hydrate", {Me})
    /\ pc' = [pc EXCEPT ![Me] = "failed"]
    /\ UNCHANGED <<login, hdr, retried, carried, isRefreshing, failedQueue>>

\* login and register, from pages shown while nobody is signed in; loading
\* keeps a second submission out.
Submit(a) ==
    /\ sto.hydrated /\ sto.user = None /\ login = None
    /\ login' = a
    /\ UNCHANGED <<session, calls, ended, crossed, stale>>

LoginOk ==
    /\ login # None
    /\ ls' = Stored(login)
    /\ sto' = [sto EXCEPT !.user = login, !.token = login]
    /\ login' = None
    /\ Cross("none", {})
    /\ UNCHANGED <<calls, stale>>

LoginFailed ==
    /\ login # None
    /\ login' = None
    /\ UNCHANGED <<session, calls, ended, crossed, stale>>

\* (mutant of Logout) localStorage is left alone.
LogoutStoreOnly ==
    /\ sto.user # None
    /\ sto' = [sto EXCEPT !.user = None, !.token = None]
    /\ Cross("logout", {})
    /\ UNCHANGED <<ls, login, calls, stale>>

Logout ==
    /\ sto.user # None
    /\ ClearSession /\ Cross("logout", {})
    /\ UNCHANGED <<login, calls, stale>>

\* The page is reloaded: only localStorage survives.
Reload ==
    /\ sto.hydrated
    /\ sto' = [user |-> None, token |-> None, hydrated |-> FALSE]
    /\ login' = None
    /\ pc' = [c \in Calls |-> IF c = Me THEN "idle"
                              ELSE IF pc[c] \in InFlight THEN "failed" ELSE pc[c]]
    /\ retried' = retried \ {Me}
    /\ crossed' = crossed \ {Me}
    /\ isRefreshing' = FALSE /\ failedQueue' = {}
    /\ UNCHANGED <<ls, hdr, carried, ended, stale>>

-----------------------------------------------------------------------------
\* What the network owes a call: an answer or an error.
Progress(c) ==
    \/ Answered(c) \/ Rejected(c)
    \/ UnauthorizedNoRefresh(c) \/ UnauthorizedQueued(c) \/ UnauthorizedRefresh(c)
    \/ RefreshOk(c) \/ RefreshFailed(c)
    \/ c = Me /\ (HydrateRefreshOk \/ HydrateRefreshFailed)

Next ==
    \/ \E c \in Calls : Send(c) \/ Progress(c)
    \/ Hydrate
    \/ \E a \in Accounts : Submit(a)
    \/ LoginOk \/ LoginFailed
    \/ Logout \/ Reload

Spec     == Init /\ [][Next]_vars
FairSpec == Spec /\ \A c \in Calls : WF_vars(Progress(c))

-----------------------------------------------------------------------------
(* Properties.                                                             *)

TypeOK ==
    /\ ls \in [access : Owner, refresh : Owner, user : Owner]
    /\ sto \in [user : Owner, token : Owner, hydrated : BOOLEAN]
    /\ login \in Owner
    /\ pc \in [Calls -> {"idle", "ok", "failed"} \cup InFlight]
    /\ \A c \in Calls : pc[c] = "hydrating" => c = Me
    /\ hdr \in [Calls -> Owner]
    /\ retried \in SUBSET Calls
    /\ carried \in [Calls -> Owner]
    /\ isRefreshing \in BOOLEAN /\ failedQueue \in SUBSET Calls
    /\ ended \in {"none", "hydrate", "unauthorized", "refresh", "logout"}
    /\ crossed \in SUBSET Calls /\ stale \in BOOLEAN

\* isRefreshing is a lock: exactly while it is set one call refreshes, and the
\* calls waiting for it are exactly those in failedQueue, none forgotten.
RefreshLock ==
    /\ isRefreshing <=> \E c \in Calls : pc[c] = "refreshing"
    /\ \A c, d \in Calls : pc[c] = "refreshing" /\ pc[d] = "refreshing" => c = d
    /\ failedQueue = {c \in Calls : pc[c] = "queued"}
    /\ failedQueue # {} => isRefreshing

\* The stored tokens, the stored user and the user the pages show belong to one
\* account, unless a refresh or /auth/me outlived the session it began in.
SessionConsistent ==
    ~stale =>
        /\ ls.access = ls.user /\ ls.refresh = ls.user
        /\ sto.hydrated => sto.user = ls.user /\ sto.token = ls.user

\* The invariant RefreshLock and SessionConsistent rest on: before hydrate nothing
\* is pending, and a call that has not outlived its session carries its account.
NotHydrated ==
    /\ sto.hydrated <=> pc[Me] # "idle"
    /\ ~sto.hydrated => sto.user = None /\ sto.token = None /\ Pending = {} /\ login = None
OwnAccount ==
    ~stale => \A c \in Calls \ crossed :
        /\ pc[c] \in InFlight => ls.user # None
        /\ pc[c] \in {"sent", "queued"} => hdr[c] = ls.user
        /\ pc[c] \in {"refreshing", "hydrating"} => carried[c] = ls.user

IInv == TypeOK /\ RefreshLock /\ NotHydrated /\ SessionConsistent /\ OwnAccount

\* Every call settles: whatever the server answers, the refreshes and replays
\* the interceptor makes come to an end and no waiting call is lost.
EveryCallSettles == \A c \in Calls : pc[c] \in InFlight ~> pc[c] \notin InFlight

\* "logout clears state and localStorage": cleared they stay, until a login.
LoggedOutStaysOut == ended = "logout" => ls.access = None /\ sto.user = None
=============================================================================
