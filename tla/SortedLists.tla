---------------------------- MODULE SortedLists ----------------------------
(***************************************************************************)
(* Python's sorted() and list comprehensions, as the engines and the       *)
(* parser use them.                                                        *)
(***************************************************************************)
EXTENDS Integers, FiniteSets

\* sorted(), by what goes ahead of each.
Sorted(ahead) ==
    [n \in 1 .. Cardinality(DOMAIN ahead) |->
        CHOOSE k \in DOMAIN ahead : Cardinality(ahead[k]) = n - 1]
Ascending(S)  == Sorted([k \in S |-> {j \in S : j < k}])

\* [x for x in s if ...]: the entries at the positions in I.
Entries(s, I) ==
    LET order == Ascending(I) IN [n \in DOMAIN order |-> s[order[n]]]
=============================================================================
