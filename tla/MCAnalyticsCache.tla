-------------------------- MODULE MCAnalyticsCache --------------------------
(* A liveness property forbids symmetry, so that the instance is cut in two: *)
(* two requests of two users with a restart and slow reads, or three of one  *)
(* user, two that change trades and one that reads.                          *)
EXTENDS AnalyticsCache

CONSTANTS Third, Single   \* a request and a user

Instances ==
    /\ owner[Third] = Single
    /\ \/ tx[Third] = "none"
       \/ /\ exitOrder = "before" /\ restarts = 0 /\ op[Third] = "insights"
          /\ \A r \in Requests : owner[r] = Single /\ sinceRead[r] = 0
          /\ \A r \in Requests \ {Third} : op[r] # "insights" /\ tx[r] # "rolledback"
          /\ \A k \in DOMAIN store : k[3] = 0
=============================================================================
