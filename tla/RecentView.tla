----------------------------- MODULE RecentView -----------------------------
(***************************************************************************)
(* What reading a user's analytics through the cache promises: an answer   *)
(* is computed from the user's trades as they stood at one moment of the   *)
(* last Lag ticks.  There is no cache here, and no job that fills it.      *)
(***************************************************************************)
EXTENDS Naturals

CONSTANTS Users, Requests, Lag

VARIABLES
    db,        \* db[u]: the requests whose change to u's trades is committed
    owner,     \* for whom a request is made
    age,       \* ticks since a change was committed
    answer,    \* the changes an answer reflects
    answered   \* requests that have been answered

view == <<db, owner, age, answer, answered>>

Init ==
    /\ db = [u \in Users |-> {}]
    /\ owner \in [Requests -> Users]
    /\ age = [r \in Requests |-> 0]
    /\ answer = [r \in Requests |-> {}]
    /\ answered = {}

Change(r) ==
    /\ r \notin db[owner[r]]
    /\ db' = [db EXCEPT ![owner[r]] = @ \cup {r}]
    /\ age' = [age EXCEPT ![r] = 0]
    /\ UNCHANGED <<owner, answer, answered>>

\* s is what the trades of u reflected at some moment of the a-th tick ago: every
\* change before that tick, none after it, and a part of those in it.
AsOf(u, s, a) ==
    /\ s \subseteq db[u]
    /\ \A m \in db[u] : (age[m] > a => m \in s) /\ (age[m] < a => m \notin s)

Answer(r) ==
    /\ r \notin answered
    /\ \E a \in 0 .. Lag, s \in SUBSET db[owner[r]] :
          AsOf(owner[r], s, a) /\ answer' = [answer EXCEPT ![r] = s]
    /\ answered' = answered \cup {r}
    /\ UNCHANGED <<db, owner, age>>

\* Ages beyond Lag are not told apart.
Tick ==
    /\ age' = [r \in Requests |->
                  IF r \in db[owner[r]] /\ age[r] <= Lag THEN age[r] + 1 ELSE age[r]]
    /\ UNCHANGED <<db, owner, answer, answered>>

Next == Tick \/ \E r \in Requests : Change(r) \/ Answer(r)

Spec == Init /\ [][Next]_view
=============================================================================
