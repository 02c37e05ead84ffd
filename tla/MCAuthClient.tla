---------------------------- MODULE MCAuthClient ----------------------------
(* Two pages' calls and hydrate's with one account, or one page's call and  *)
(* hydrate's with two accounts.                                             *)
EXTENDS AuthClient

CONSTANTS OtherAccount, OtherRequest

\* OtherAccount has taken no part yet.
OneAccount ==
    /\ OtherAccount \notin {ls.access, sto.user, login}
    /\ \A c \in Calls : OtherAccount \notin {hdr[c], carried[c]}

Instances == pc[OtherRequest] = "idle" \/ OneAccount
=============================================================================
