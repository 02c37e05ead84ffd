----------------------------- MODULE PostUpload -----------------------------
(***************************************************************************)
(* run_post_upload for one user: auto-tagging, rule checking and the       *)
(* precompute and compliance steps, against the requests that change the   *)
(* same rows while a job is between two awaits.  Several jobs of the user  *)
(* run interleaved, one per upload.                                        *)
(*                                                                         *)
(* A trade's tag stands for its mistake_category, which the tagger always  *)
(* fills; mood and rule_followed are written by the same statement.  The   *)
(* cache that precompute fills is AnalyticsCache's.                        *)
(***************************************************************************)
EXTENDS RuleChecker

CONSTANTS
    Jobs,        \* uploads, each with its run_post_upload
    Databases    \* subset of {"postgres", "sqlite"}

ASSUME DatabasesAssumption == Databases \subseteq {"postgres", "sqlite"}

VARIABLES
    dbms,
    account,     \* the user's row exists
    live, tag,   \* trades: rows and their tags
    rule,        \* trading_rules rows
    rows,        \* rule_violations: number of rows per (trade, rule)
    orphaned,    \* rules with rows whose trade_id was set to NULL
    pc,          \* where each job is suspended
    sel, todo,   \* rules a job has read; trades or pairs it will write
    overtaken,   \* ghost: jobs for which another job inserted since their SELECT
    duplicated,  \* ghost: an overtaken job has inserted
    clean        \* ghost: jobs since whose start no request changed anything

violations == <<rows, orphaned>>
db   == <<dbms, account, live, tag, rule, violations>>
job  == <<pc, sel, todo>>
vars == <<db, job, overtaken, duplicated, clean>>

Pairs     == Trades \X Rules
Active    == {r \in Rules : rule[r] = "active"}
Existing  == {k \in Pairs : rows[k] > 0}
Enforced  == dbms = "postgres"     \* SQLite runs without PRAGMA foreign_keys

Init ==
    /\ dbms \in Databases
    /\ account = TRUE
    /\ live = {} /\ tag = [t \in Trades |-> "none"]
    /\ rule = [r \in Rules |-> "new"]
    /\ rows = [k \in Pairs |-> 0] /\ orphaned = {}
    /\ pc = [j \in Jobs |-> "idle"]
    /\ sel = [j \in Jobs |-> {}] /\ todo = [j \in Jobs |-> {}]
    /\ overtaken = {} /\ duplicated = FALSE
    /\ clean = {}

-----------------------------------------------------------------------------
(* The job.  Each action runs from one await to the next.                  *)

\* Job j is suspended at pc p, having read rules s and being about to write w.
GoTo(j, p, s, w) ==
    /\ pc' = [pc EXCEPT ![j] = p]
    /\ sel' = [sel EXCEPT ![j] = s]
    /\ todo' = [todo EXCEPT ![j] = w]

\* (mutant of TagRead) the loop stops one trade early.
TagReadSkipsLast(j) ==
    LET untagged == {t \in live : tag[t] = "none" /\ \E s \in live : s > t} IN
    /\ pc[j] = "start"
    /\ IF account /\ Cardinality(live) >= 2 /\ untagged # {}
       THEN GoTo(j, "tagging", {}, untagged)
       ELSE GoTo(j, "rules", {}, {})
    /\ UNCHANGED <<db, overtaken, duplicated, clean>>

\* auto_tag_trades: select the trades and compute tags for the untagged ones.
TagRead(j) ==
    LET untagged == {t \in live : tag[t] = "none"} IN
    /\ pc[j] = "start"
    /\ IF account /\ Cardinality(live) >= 2 /\ untagged # {}
       THEN GoTo(j, "tagging", {}, untagged)
       ELSE GoTo(j, "rules", {}, {})
    /\ UNCHANGED <<db, overtaken, duplicated, clean>>

\* (mutant of TagCommit) the list of updates is kept.
TagCommitKeeps(j) ==
    /\ pc[j] = "tagging"
    /\ IF todo[j] \subseteq live
       THEN /\ tag' = [t \in Trades |-> IF t \in todo[j] THEN "auto" ELSE tag[t]]
            /\ GoTo(j, "rules", {}, todo[j])
       ELSE /\ GoTo(j, "failed", {}, {})
            /\ UNCHANGED tag
    /\ UNCHANGED <<dbms, account, live, rule, violations, overtaken, duplicated, clean>>

\* Its commit: an UPDATE of a row deleted meanwhile matches nothing and raises.
TagCommit(j) ==
    /\ pc[j] = "tagging"
    /\ IF todo[j] \subseteq live
       THEN /\ tag' = [t \in Trades |-> IF t \in todo[j] THEN "auto" ELSE tag[t]]
            /\ GoTo(j, "rules", {}, {})
       ELSE /\ GoTo(j, "failed", {}, {})
            /\ UNCHANGED tag
    /\ UNCHANGED <<dbms, account, live, rule, violations, overtaken, duplicated, clean>>

\* check_trading_rules: select the active rules.
RulesRead(j) ==
    /\ pc[j] = "rules"
    /\ IF account /\ Active # {}
       THEN GoTo(j, "trades", Active, {})
       ELSE GoTo(j, "last", {}, {})
    /\ UNCHANGED <<db, overtaken, duplicated, clean>>

\* Then the trades, and check them.
TradesRead(j) ==
    LET found == CheckAll(live, sel[j]) IN
    /\ pc[j] = "trades"
    /\ IF found # {} THEN GoTo(j, "existing", {}, found)
                     ELSE GoTo(j, "last", {}, {})
    /\ UNCHANGED <<db, overtaken, duplicated, clean>>

\* (mutant of ExistingRead) the violations on record are not looked at.
ExistingIgnored(j) ==
    /\ pc[j] = "existing"
    /\ GoTo(j, "inserting", {}, todo[j])
    /\ overtaken' = overtaken \ {j}
    /\ UNCHANGED <<db, duplicated, clean>>

\* Then the violations on record, to keep the new ones.
ExistingRead(j) ==
    LET new == todo[j] \ Existing IN
    /\ pc[j] = "existing"
    /\ IF new # {} THEN GoTo(j, "inserting", {}, new)
                   ELSE GoTo(j, "last", {}, {})
    /\ overtaken' = overtaken \ {j}
    /\ UNCHANGED <<db, duplicated, clean>>

\* What a row must refer to, where the database enforces foreign keys.
Linked(k) == rule[k[2]] \in {"active", "inactive"} /\ k[1] \in live

\* And insert them, all or none.
InsertCommit(j) ==
    /\ pc[j] = "inserting"
    /\ IF Enforced => \A k \in todo[j] : Linked(k)
       THEN /\ rows' = [k \in Pairs |->
                           IF k \in todo[j] THEN rows[k] + 1 ELSE rows[k]]
            /\ GoTo(j, "last", {}, {})
            /\ overtaken' = overtaken \cup {i \in Jobs \ {j} : pc[i] = "inserting"}
            /\ duplicated' = (duplicated \/ j \in overtaken)
       ELSE /\ GoTo(j, "failed", {}, {})
            /\ UNCHANGED <<rows, overtaken, duplicated>>
    /\ UNCHANGED <<dbms, account, live, tag, rule, orphaned, clean>>

\* precompute_analytics and check_all_compliance write none of these rows.
Finish(j) ==
    /\ pc[j] = "last"
    /\ GoTo(j, "done", {}, {})
    /\ UNCHANGED <<db, overtaken, duplicated, clean>>

\* Any statement may raise; run_post_upload logs it and runs no later step.
Fail(j) ==
    /\ pc[j] \notin {"idle", "done", "failed"}
    /\ GoTo(j, "failed", {}, {})
    /\ UNCHANGED <<db, overtaken, duplicated, clean>>

JobStep(j) ==
    \/ TagRead(j) \/ TagCommit(j)
    \/ RulesRead(j) \/ TradesRead(j) \/ ExistingRead(j) \/ InsertCommit(j)
    \/ Finish(j) \/ Fail(j)

-----------------------------------------------------------------------------
(* Requests of the user, one committed transaction each.                   *)

\* An upload inserts rows with no tags; its job starts after the commit.
Upload(j, T) ==
    /\ account /\ pc[j] = "idle"
    /\ T # {} /\ T \cap live = {} /\ \A t \in T : tag[t] = "none"
    /\ live' = live \cup T
    /\ GoTo(j, "start", {}, {})
    /\ clean' = {j}
    /\ UNCHANGED <<dbms, account, tag, rule, violations, overtaken, duplicated>>

\* update_trade: the user sets the tags, or sets them back to null.
PatchTag(t, v) ==
    /\ account /\ t \in live
    /\ tag' = [tag EXCEPT ![t] = v]
    /\ clean' = {}
    /\ UNCHANGED <<dbms, account, live, rule, violations, job, overtaken, duplicated>>

\* delete_trade and delete_all_trades.  Ids are never reused: a deleted trade's
\* tag stays behind as "deleted".  ON DELETE SET NULL where it is enforced.
DeleteTrades(T) ==
    /\ account
    /\ T = live \/ \E t \in live : T = {t}
    /\ live' = live \ T
    /\ tag' = [t \in Trades |-> IF t \in T THEN "deleted" ELSE tag[t]]
    /\ IF Enforced
       THEN /\ rows' = [k \in Pairs |-> IF k[1] \in T THEN 0 ELSE rows[k]]
            /\ orphaned' = orphaned \cup {k[2] : k \in Existing \cap (T \X Rules)}
       ELSE UNCHANGED violations
    /\ clean' = {}
    /\ UNCHANGED <<dbms, account, rule, job, overtaken, duplicated>>

CreateRule(r) ==
    /\ account /\ rule[r] = "new"
    /\ rule' = [rule EXCEPT ![r] = "active"]
    /\ clean' = {}
    /\ UNCHANGED <<dbms, account, live, tag, violations, job, overtaken, duplicated>>

ToggleRule(r) ==
    /\ account /\ rule[r] \in {"active", "inactive"}
    /\ rule' = [rule EXCEPT ![r] = IF @ = "active" THEN "inactive" ELSE "active"]
    /\ clean' = {}
    /\ UNCHANGED <<dbms, account, live, tag, violations, job, overtaken, duplicated>>

\* (mutant of DeleteRule) the foreign key of rule_violations has no CASCADE.
DeleteRuleOnly(r) ==
    /\ account /\ rule[r] \in {"active", "inactive"}
    /\ rule' = [rule EXCEPT ![r] = "deleted"]
    /\ clean' = {}
    /\ UNCHANGED <<dbms, account, live, tag, violations, job, overtaken, duplicated>>

\* ON DELETE CASCADE where it is enforced.
DeleteRule(r) ==
    /\ account /\ rule[r] \in {"active", "inactive"}
    /\ rule' = [rule EXCEPT ![r] = "deleted"]
    /\ IF Enforced
       THEN /\ rows' = [k \in Pairs |-> IF k[2] = r THEN 0 ELSE rows[k]]
            /\ orphaned' = orphaned \ {r}
       ELSE UNCHANGED violations
    /\ clean' = {}
    /\ UNCHANGED <<dbms, account, live, tag, job, overtaken, duplicated>>

\* delete_account deletes the trades and the user; the rest is left to CASCADE.
DeleteAccount ==
    /\ account
    /\ account' = FALSE
    /\ live' = {}
    /\ tag' = [t \in Trades |-> IF t \in live THEN "deleted" ELSE tag[t]]
    /\ IF Enforced
       THEN /\ rule' = [r \in Rules |-> "deleted"]
            /\ rows' = [k \in Pairs |-> 0] /\ orphaned' = {}
       ELSE UNCHANGED <<rule, violations>>
    /\ clean' = {}
    /\ UNCHANGED <<dbms, job, overtaken, duplicated>>

Request ==
    \/ \E j \in Jobs, T \in SUBSET Trades : Upload(j, T)
    \/ \E t \in Trades, v \in {"user", "none"} : PatchTag(t, v)
    \/ \E T \in SUBSET Trades : DeleteTrades(T)
    \/ \E r \in Rules : CreateRule(r) \/ ToggleRule(r) \/ DeleteRule(r)
    \/ DeleteAccount

Next == Request \/ \E j \in Jobs : JobStep(j)

Spec == Init /\ [][Next]_vars

-----------------------------------------------------------------------------
(* Properties.                                                             *)

PCs == {"idle", "start", "tagging", "rules", "trades", "existing", "inserting",
        "last", "done", "failed"}

TypeOK ==
    /\ dbms \in Databases
    /\ account \in BOOLEAN
    /\ live \in SUBSET Trades
    /\ tag \in [Trades -> {"none", "auto", "user", "deleted"}]
    /\ rule \in [Rules -> {"new", "active", "inactive", "deleted"}]
    /\ rows \in [Pairs -> Nat] /\ orphaned \in SUBSET Rules
    /\ pc \in [Jobs -> PCs]
    /\ sel \in [Jobs -> SUBSET Rules]
    /\ DOMAIN todo = Jobs
    /\ \A j \in Jobs : todo[j] # {} => pc[j] \in {"tagging", "existing", "inserting"}
    /\ \A j \in Jobs : todo[j] \subseteq IF pc[j] = "tagging" THEN Trades ELSE Pairs
    /\ overtaken \in SUBSET Jobs
    /\ duplicated \in BOOLEAN
    /\ clean \in SUBSET Jobs

\* A violation is on record at most once unless two jobs overlapped between
\* reading the recorded violations and inserting the new ones: nothing but that
\* SELECT keeps check_trading_rules from recording it again.
RecordedOnce == ~duplicated => \A k \in Pairs : rows[k] <= 1

\* What RecordedOnce rests on: a job that nothing overtook since its SELECT still
\* inserts only pairs with no row.
StillNew ==
    \A j \in Jobs \ overtaken : pc[j] = "inserting" =>
        \A k \in todo[j] : rows[k] = 0

\* A recorded violation belongs to an existing rule, and to an existing trade or
\* to none, where the database enforces ForeignKey("trading_rules.id",
\* ondelete="CASCADE") and ForeignKey("trades.id", ondelete="SET NULL") of
\* RuleViolation.  On SQLite a row outlives its trade and its rule.
ViolationsLinked ==
    Enforced =>
        /\ \A k \in Existing : rule[k[2]] \in {"active", "inactive"} /\ k[1] \in live
        /\ \A r \in orphaned : rule[r] \in {"active", "inactive"}

\* When a job ends normally and nothing was changed by the user since its upload,
\* its upload is fully processed, whatever other jobs did meanwhile: every trade
\* is tagged and every violation of an active rule is on record.
QuietJobCovers ==
    \A j \in clean : pc[j] = "done" =>
        /\ Cardinality(live) >= 2 => \A t \in live : tag[t] # "none"
        /\ CheckAll(live, Active) \subseteq Existing

\* What QuietJobCovers rests on: what such a job has covered at each await.
Covered(j) ==
    LET found    == CheckAll(live, Active)
        allTagged == Cardinality(live) >= 2 => \A t \in live : tag[t] # "none" IN
    /\ account /\ pc[j] # "idle"
    /\ pc[j] = "tagging" => \A t \in live : tag[t] # "none" \/ t \in todo[j]
    /\ pc[j] \in {"rules", "trades", "existing", "inserting", "last", "done"} => allTagged
    /\ pc[j] = "trades" => sel[j] = Active
    /\ pc[j] \in {"existing", "inserting"} => found \subseteq todo[j] \cup Existing
    /\ pc[j] \in {"last", "done"} => found \subseteq Existing

IInv ==
    /\ TypeOK
    /\ RecordedOnce /\ StillNew /\ ViolationsLinked
    /\ \A j \in clean : Covered(j)

\* "Only tags trades that don't already have a manual tag": no step replaces a
\* tag of the user by an automatic one.
ManualTagKept == [][\A t \in Trades : tag[t] = "user" => tag'[t] # "auto"]_vars
=============================================================================
