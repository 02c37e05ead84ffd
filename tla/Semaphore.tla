----------------------------- MODULE Semaphore -----------------------------
(***************************************************************************)
(* What the code asks of the connection pool: at most Capacity actors hold *)
(* a connection at a time, one begins or ends to hold one at a time, and   *)
(* whoever holds one lets go of it in the end.                             *)
(***************************************************************************)
EXTENDS Naturals, FiniteSets

CONSTANTS Actors, Capacity

VARIABLE holders

Init == holders = {}

Acquire(a) ==
    /\ a \notin holders /\ Cardinality(holders) < Capacity
    /\ holders' = holders \cup {a}

Release(a) ==
    /\ a \in holders
    /\ holders' = holders \ {a}

Next == \E a \in Actors : Acquire(a) \/ Release(a)

Spec == Init /\ [][Next]_holders

FairSpec == Spec /\ \A a \in Actors : WF_holders(Release(a))
=============================================================================
