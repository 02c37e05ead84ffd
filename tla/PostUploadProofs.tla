-------------------------- MODULE PostUploadProofs --------------------------
(***************************************************************************)
(* Proofs about PostUpload, for any trades, rules, jobs and requests:      *)
(* types, that violations are recorded once, and that on a database that   *)
(* enforces foreign keys no recorded violation dangles.                    *)
(***************************************************************************)
EXTENDS PostUpload, TLAPS

-----------------------------------------------------------------------------
(* What the checkers return.                                               *)

LEMMA CheckersSelect ==
  ASSUME NEW S, NEW n
  PROVE  /\ MaxTradesPerDay(S, n) \subseteq S
         /\ MaxLossPerTrade(S, n) \subseteq S
         /\ NoTradingAfter(S, n) \subseteq S
         /\ NoTradingBefore(S, n) \subseteq S
         /\ MaxPositionSize(S, n) \subseteq S
         /\ MaxConsecutiveLosses(S, n) \subseteq S
  BY DEF MaxTradesPerDay, MaxLossPerTrade, NoTradingAfter, NoTradingBefore,
         MaxPositionSize, MaxConsecutiveLosses

LEMMA LossPerDaySelects == ASSUME NEW S, NEW n PROVE MaxLossPerDay(S, n) \subseteq S
  BY Zenon DEF MaxLossPerDay

\* Each checker lists some of the trades it was given.
LEMMA CheckSelects ==
  ASSUME NEW S, NEW r \in Rules
  PROVE  Check(S, r) \subseteq S
<1>1. RuleType[r] \in RuleTypes
  BY RulesAssumption
<1> QED BY <1>1, CheckersSelect, LossPerDaySelects DEF Check, RuleTypes

LEMMA CheckAllSelects ==
  ASSUME NEW S \in SUBSET Trades, NEW R \in SUBSET Rules
  PROVE  CheckAll(S, R) \subseteq Pairs
  BY CheckSelects DEF CheckAll, Pairs

-----------------------------------------------------------------------------
(* Types.                                                                  *)

TodoAt(p) == IF p = "tagging" THEN SUBSET Trades
             ELSE IF p \in {"existing", "inserting"} THEN SUBSET Pairs ELSE {{}}

\* A job moves to a known place with a well-typed list.
LEMMA GoToTypes ==
  ASSUME TypeOK, NEW j \in Jobs, NEW p \in PCs, NEW s \in SUBSET Rules,
         NEW w \in TodoAt(p), GoTo(j, p, s, w)
  PROVE  /\ pc' \in [Jobs -> PCs]
         /\ sel' \in [Jobs -> SUBSET Rules]
         /\ DOMAIN todo' = Jobs
         /\ \A i \in Jobs : todo'[i] # {} => pc'[i] \in {"tagging", "existing", "inserting"}
         /\ \A i \in Jobs : todo'[i] \subseteq IF pc'[i] = "tagging" THEN Trades ELSE Pairs
<1>1. /\ pc' = [pc EXCEPT ![j] = p] /\ sel' = [sel EXCEPT ![j] = s]
      /\ todo' = [todo EXCEPT ![j] = w]
  BY DEF GoTo
<1>2. \A i \in Jobs : /\ pc'[i] = IF i = j THEN p ELSE pc[i]
                      /\ todo'[i] = IF i = j THEN w ELSE todo[i]
  BY <1>1 DEF TypeOK
<1>3. /\ w # {} => p \in {"tagging", "existing", "inserting"}
      /\ w \subseteq IF p = "tagging" THEN Trades ELSE Pairs
  BY DEF TodoAt
<1>4. DOMAIN todo' = Jobs
  BY <1>1 DEF TypeOK
<1> QED BY <1>1, <1>2, <1>3, <1>4 DEF TypeOK

LEMMA TypeInit == Init => TypeOK
<1> SUFFICES ASSUME Init PROVE TypeOK
  OBVIOUS
<1>1. \A j \in Jobs : todo[j] = {}
  BY DEF Init
<1>2. /\ DOMAIN todo = Jobs
      /\ pc \in [Jobs -> PCs] /\ sel \in [Jobs -> SUBSET Rules]
  BY DEF Init, PCs
<1>3. /\ tag \in [Trades -> {"none", "auto", "user", "deleted"}]
      /\ rule \in [Rules -> {"new", "active", "inactive", "deleted"}]
      /\ rows \in [Pairs -> Nat]
  BY DEF Init
<1> QED BY <1>1, <1>2, <1>3 DEF Init, TypeOK

LEMMA JobTypes == ASSUME TypeOK, NEW j \in Jobs, JobStep(j) PROVE TypeOK'
<1>0. /\ todo[j] \subseteq IF pc[j] = "tagging" THEN Trades ELSE Pairs
      /\ sel[j] \in SUBSET Rules /\ live \in SUBSET Trades
  BY DEF TypeOK
<1>1. CASE TagRead(j)
  <2> DEFINE untagged == {t \in live : tag[t] = "none"}
  <2>1. untagged \in TodoAt("tagging")
    BY <1>0 DEF TodoAt
  <2>2. {} \in TodoAt("rules") /\ {} \in SUBSET Rules
    BY DEF TodoAt
  <2>3. GoTo(j, "tagging", {}, untagged) \/ GoTo(j, "rules", {}, {})
    BY <1>1 DEF TagRead
  <2> HIDE DEF untagged
  <2> QED BY <1>1, <2>1, <2>2, <2>3, GoToTypes DEF TagRead, TypeOK, PCs, db, violations
<1>2. CASE TagCommit(j)
  <2>1. {} \in TodoAt("rules") /\ {} \in TodoAt("failed") /\ {} \in SUBSET Rules
    BY DEF TodoAt
  <2>2. GoTo(j, "rules", {}, {}) \/ GoTo(j, "failed", {}, {})
    BY <1>2 DEF TagCommit
  <2>3. tag' \in [Trades -> {"none", "auto", "user", "deleted"}]
    BY <1>2 DEF TagCommit, TypeOK
  <2> QED BY <1>2, <2>1, <2>2, <2>3, GoToTypes DEF TagCommit, TypeOK, PCs, violations
<1>3. CASE RulesRead(j)
  <2>1. {} \in TodoAt("trades") /\ {} \in TodoAt("last") /\ {} \in SUBSET Rules
    BY DEF TodoAt
  <2>2. Active \in SUBSET Rules
    BY DEF Active
  <2>3. GoTo(j, "trades", Active, {}) \/ GoTo(j, "last", {}, {})
    BY <1>3 DEF RulesRead
  <2> QED BY <1>3, <2>1, <2>2, <2>3, GoToTypes DEF RulesRead, TypeOK, PCs, db, violations
<1>4. CASE TradesRead(j)
  <2>1. CheckAll(live, sel[j]) \in TodoAt("existing")
    BY <1>0, CheckAllSelects DEF TodoAt
  <2>2. {} \in TodoAt("last") /\ {} \in SUBSET Rules
    BY DEF TodoAt
  <2>3. GoTo(j, "existing", {}, CheckAll(live, sel[j])) \/ GoTo(j, "last", {}, {})
    BY <1>4 DEF TradesRead
  <2> QED BY <1>4, <2>1, <2>2, <2>3, GoToTypes DEF TradesRead, TypeOK, PCs, db, violations
<1>5. CASE ExistingRead(j)
  <2>1. todo[j] \ Existing \in TodoAt("inserting")
    BY <1>0, <1>5 DEF TodoAt, ExistingRead
  <2>2. {} \in TodoAt("last") /\ {} \in SUBSET Rules
    BY DEF TodoAt
  <2>3. GoTo(j, "inserting", {}, todo[j] \ Existing) \/ GoTo(j, "last", {}, {})
    BY <1>5 DEF ExistingRead
  <2> QED BY <1>5, <2>1, <2>2, <2>3, GoToTypes DEF ExistingRead, TypeOK, PCs, db, violations
<1>6. CASE InsertCommit(j)
  <2>1. {} \in TodoAt("last") /\ {} \in TodoAt("failed") /\ {} \in SUBSET Rules
    BY DEF TodoAt
  <2>2. GoTo(j, "last", {}, {}) \/ GoTo(j, "failed", {}, {})
    BY <1>6 DEF InsertCommit
  <2>3. rows' \in [Pairs -> Nat]
    BY <1>6 DEF InsertCommit, TypeOK
  <2>4. overtaken' \in SUBSET Jobs /\ duplicated' \in BOOLEAN
    BY <1>6 DEF InsertCommit, TypeOK
  <2> QED BY <1>6, <2>1, <2>2, <2>3, <2>4, GoToTypes DEF InsertCommit, TypeOK, PCs
<1>7. CASE Finish(j)
  <2>1. {} \in TodoAt("done") /\ {} \in SUBSET Rules
    BY DEF TodoAt
  <2> QED BY <1>7, <2>1, GoToTypes DEF Finish, TypeOK, PCs, db, violations
<1>8. CASE Fail(j)
  <2>1. {} \in TodoAt("failed") /\ {} \in SUBSET Rules
    BY DEF TodoAt
  <2> QED BY <1>8, <2>1, GoToTypes DEF Fail, TypeOK, PCs, db, violations
<1> QED BY <1>1, <1>2, <1>3, <1>4, <1>5, <1>6, <1>7, <1>8 DEF JobStep

LEMMA RequestTypes == ASSUME TypeOK, Request PROVE TypeOK'
<1>1. ASSUME NEW j \in Jobs, NEW T \in SUBSET Trades, Upload(j, T) PROVE TypeOK'
  <2>1. {} \in TodoAt("start") /\ {} \in SUBSET Rules
    BY DEF TodoAt
  <2> QED BY <1>1, <2>1, GoToTypes DEF Upload, TypeOK, PCs, violations
<1>2. ASSUME NEW t \in Trades, NEW v \in {"user", "none"}, PatchTag(t, v) PROVE TypeOK'
  BY <1>2 DEF PatchTag, TypeOK, job, violations
<1>3. ASSUME NEW T \in SUBSET Trades, DeleteTrades(T) PROVE TypeOK'
  <2>1. rows' \in [Pairs -> Nat] /\ orphaned' \in SUBSET Rules
    BY <1>3 DEF DeleteTrades, TypeOK, Existing, Pairs, violations
  <2>2. /\ live' \in SUBSET Trades
        /\ tag' \in [Trades -> {"none", "auto", "user", "deleted"}]
    BY <1>3 DEF DeleteTrades, TypeOK
  <2> QED BY <1>3, <2>1, <2>2 DEF DeleteTrades, TypeOK, job
<1>4. ASSUME NEW r \in Rules, CreateRule(r) PROVE TypeOK'
  BY <1>4 DEF CreateRule, TypeOK, job, violations
<1>5. ASSUME NEW r \in Rules, ToggleRule(r) PROVE TypeOK'
  BY <1>5 DEF ToggleRule, TypeOK, job, violations
<1>6. ASSUME NEW r \in Rules, DeleteRule(r) PROVE TypeOK'
  <2>1. rows' \in [Pairs -> Nat] /\ orphaned' \in SUBSET Rules
    BY <1>6 DEF DeleteRule, TypeOK, violations
  <2> QED BY <1>6, <2>1 DEF DeleteRule, TypeOK, job
<1>7. CASE DeleteAccount
  <2>1. /\ rows' \in [Pairs -> Nat] /\ orphaned' \in SUBSET Rules
        /\ rule' \in [Rules -> {"new", "active", "inactive", "deleted"}]
    BY <1>7 DEF DeleteAccount, TypeOK, violations
  <2>2. tag' \in [Trades -> {"none", "auto", "user", "deleted"}]
    BY <1>7 DEF DeleteAccount, TypeOK
  <2> QED BY <1>7, <2>1, <2>2 DEF DeleteAccount, TypeOK, job
<1> QED BY <1>1, <1>2, <1>3, <1>4, <1>5, <1>6, <1>7 DEF Request

LEMMA TypeStep == TypeOK /\ [Next]_vars => TypeOK'
<1>1. TypeOK /\ UNCHANGED vars => TypeOK'
  BY DEF TypeOK, vars, db, violations, job
<1> QED BY <1>1, JobTypes, RequestTypes DEF Next

\* The rows and the jobs keep their types.
THEOREM TypeCorrect == Spec => []TypeOK
  BY TypeInit, TypeStep, PTL DEF Spec

-----------------------------------------------------------------------------
(* Violations are recorded once.                                           *)

\* Where the other jobs are, and j after it moved.
LEMMA GoToEffect ==
  ASSUME TypeOK, NEW j \in Jobs, NEW p, NEW s, NEW w, GoTo(j, p, s, w)
  PROVE  \A i \in Jobs : /\ pc'[i] = IF i = j THEN p ELSE pc[i]
                         /\ sel'[i] = IF i = j THEN s ELSE sel[i]
                         /\ todo'[i] = IF i = j THEN w ELSE todo[i]
  BY DEF GoTo, TypeOK

Dedup == RecordedOnce /\ StillNew

\* Nothing is inserted, and nobody starts inserting.
LEMMA DedupKept ==
  ASSUME TypeOK, TypeOK', Dedup,
         \A k \in Pairs : rows'[k] <= rows[k],
         UNCHANGED <<overtaken, duplicated>>,
         \A i \in Jobs : pc'[i] = "inserting" => pc[i] = "inserting" /\ todo'[i] = todo[i]
  PROVE  Dedup'
<1>1. \A k \in Pairs : rows[k] \in Nat /\ rows'[k] \in Nat
  BY DEF TypeOK
<1>2. \A i \in Jobs : pc[i] = "inserting" => todo[i] \subseteq Pairs
  BY DEF TypeOK
<1>3. RecordedOnce'
  BY <1>1 DEF Dedup, RecordedOnce
<1>4. ASSUME NEW i \in Jobs \ overtaken', pc'[i] = "inserting", NEW k \in todo'[i]
      PROVE  rows'[k] = 0
  <2>1. pc[i] = "inserting" /\ k \in todo[i] /\ i \notin overtaken
    BY <1>4
  <2>2. k \in Pairs /\ rows[k] = 0
    BY <1>2, <2>1 DEF Dedup, StillNew
  <2> QED BY <1>1, <2>2
<1> QED BY <1>3, <1>4 DEF Dedup, StillNew

LEMMA DedupJob == ASSUME TypeOK, TypeOK', Dedup, NEW j \in Jobs, JobStep(j) PROVE Dedup'
<1>0. /\ \A k \in Pairs : rows[k] \in Nat
      /\ \A i \in Jobs : pc[i] = "inserting" => todo[i] \subseteq Pairs
  BY DEF TypeOK
<1>1. CASE TagRead(j) \/ RulesRead(j) \/ TradesRead(j) \/ Finish(j) \/ Fail(j)
  <2>1. UNCHANGED <<rows, overtaken, duplicated>>
    BY <1>1 DEF TagRead, RulesRead, TradesRead, Finish, Fail, db, violations
  <2>2. \E p \in PCs \ {"inserting"} : \E s, w : GoTo(j, p, s, w)
    BY <1>1 DEF TagRead, RulesRead, TradesRead, Finish, Fail, PCs
  <2>3. \A i \in Jobs : pc'[i] = "inserting" => pc[i] = "inserting" /\ todo'[i] = todo[i]
    BY <2>2, GoToEffect
  <2> QED BY <1>0, <2>1, <2>3, DedupKept
<1>2. CASE TagCommit(j)
  <2>1. UNCHANGED <<rows, overtaken, duplicated>>
    BY <1>2 DEF TagCommit, violations
  <2>2. GoTo(j, "rules", {}, {}) \/ GoTo(j, "failed", {}, {})
    BY <1>2 DEF TagCommit
  <2>3. \A i \in Jobs : pc'[i] = "inserting" => pc[i] = "inserting" /\ todo'[i] = todo[i]
    BY <2>2, GoToEffect
  <2> QED BY <1>0, <2>1, <2>3, DedupKept
<1>3. CASE ExistingRead(j)
  <2>1. UNCHANGED <<rows, duplicated>> /\ overtaken' = overtaken \ {j}
    BY <1>3 DEF ExistingRead, db, violations
  <2>2. RecordedOnce'
    BY <2>1 DEF Dedup, RecordedOnce
  <2>3. ASSUME NEW i \in Jobs \ overtaken', pc'[i] = "inserting", NEW k \in todo'[i]
        PROVE  rows'[k] = 0
    <3>1. CASE i = j
      <4>1. k \in todo[j] \ Existing
        BY <1>3, <2>3, <3>1, GoToEffect DEF ExistingRead
      <4>2. k \in Pairs
        BY <1>3, <4>1 DEF ExistingRead, TypeOK
      <4> QED BY <1>0, <2>1, <4>1, <4>2 DEF Existing
    <3>2. CASE i # j
      <4>1. i \notin overtaken /\ pc[i] = "inserting" /\ k \in todo[i]
        BY <1>3, <2>1, <2>3, <3>2, GoToEffect DEF ExistingRead
      <4> QED BY <2>1, <4>1 DEF Dedup, StillNew
    <3> QED BY <3>1, <3>2
  <2> QED BY <2>2, <2>3 DEF Dedup, StillNew
<1>4. CASE InsertCommit(j)
  <2>1. CASE Enforced => \A k \in todo[j] : Linked(k)
    <3>1. /\ \A k \in Pairs : rows'[k] = IF k \in todo[j] THEN rows[k] + 1 ELSE rows[k]
          /\ GoTo(j, "last", {}, {})
          /\ overtaken' = overtaken \cup {i \in Jobs \ {j} : pc[i] = "inserting"}
          /\ duplicated' = (duplicated \/ j \in overtaken)
          /\ pc[j] = "inserting"
      BY <1>4, <2>1 DEF InsertCommit
    <3>2. RecordedOnce'
      <4> SUFFICES ASSUME ~duplicated', NEW k \in Pairs PROVE rows'[k] <= 1
        BY DEF RecordedOnce
      <4>1. j \notin overtaken /\ ~duplicated
        BY <3>1
      <4>2. rows[k] <= 1 /\ (k \in todo[j] => rows[k] = 0)
        BY <3>1, <4>1 DEF Dedup, RecordedOnce, StillNew
      <4> QED BY <1>0, <3>1, <4>2
    <3>3. \A i \in Jobs \ overtaken' : pc'[i] # "inserting"
      BY <3>1, GoToEffect
    <3> QED BY <3>2, <3>3 DEF Dedup, StillNew
  <2>2. CASE ~(Enforced => \A k \in todo[j] : Linked(k))
    <3>1. GoTo(j, "failed", {}, {}) /\ UNCHANGED <<rows, overtaken, duplicated>>
      BY <1>4, <2>2 DEF InsertCommit
    <3>2. \A i \in Jobs : pc'[i] = "inserting" => pc[i] = "inserting" /\ todo'[i] = todo[i]
      BY <3>1, GoToEffect
    <3> QED BY <1>0, <3>1, <3>2, DedupKept
  <2> QED BY <2>1, <2>2
<1> QED BY <1>1, <1>2, <1>3, <1>4 DEF JobStep

LEMMA DedupRequest == ASSUME TypeOK, TypeOK', Dedup, Request PROVE Dedup'
<1>0. \A k \in Pairs : rows[k] \in Nat
  BY DEF TypeOK
<1>1. UNCHANGED <<overtaken, duplicated>>
  BY DEF Request, Upload, PatchTag, DeleteTrades, CreateRule, ToggleRule, DeleteRule,
         DeleteAccount
<1>2. \A k \in Pairs : rows'[k] <= rows[k]
  BY <1>0 DEF Request, Upload, PatchTag, DeleteTrades, CreateRule, ToggleRule, DeleteRule,
              DeleteAccount, violations
<1>3. \A i \in Jobs : pc'[i] = "inserting" => pc[i] = "inserting" /\ todo'[i] = todo[i]
  <2>1. ASSUME NEW j \in Jobs, NEW T \in SUBSET Trades, Upload(j, T)
        PROVE  \A i \in Jobs : pc'[i] = "inserting" =>
                                pc[i] = "inserting" /\ todo'[i] = todo[i]
    BY <2>1, GoToEffect DEF Upload
  <2>2. CASE UNCHANGED job
    BY <2>2 DEF job
  <2> QED BY <2>1, <2>2 DEF Request, PatchTag, DeleteTrades, CreateRule, ToggleRule,
                            DeleteRule, DeleteAccount
<1> QED BY <1>1, <1>2, <1>3, DedupKept

LEMMA DedupStep == TypeOK /\ TypeOK' /\ Dedup /\ [Next]_vars => Dedup'
<1>1. TypeOK /\ Dedup /\ UNCHANGED vars => Dedup'
  BY DEF vars, db, violations, job, Dedup, RecordedOnce, StillNew
<1> QED BY <1>1, DedupJob, DedupRequest DEF Next

\* The SELECT of the recorded violations keeps check_trading_rules from recording
\* one twice, except between jobs that overlap after it: for any rules and trades.
THEOREM ViolationsRecordedOnce == Spec => []RecordedOnce
<1>1. Init => Dedup
  BY DEF Init, Dedup, RecordedOnce, StillNew
<1>2. Dedup => RecordedOnce
  BY DEF Dedup
<1> QED BY <1>1, <1>2, TypeCorrect, DedupStep, PTL DEF Spec

-----------------------------------------------------------------------------
(* No dangling violation, where foreign keys are enforced.                 *)

LEMMA LinksJob == ASSUME TypeOK, ViolationsLinked, NEW j \in Jobs, JobStep(j) PROVE ViolationsLinked'
<1>1. CASE InsertCommit(j) /\ (Enforced => \A k \in todo[j] : Linked(k))
  <2>1. /\ \A k \in Pairs : rows'[k] = IF k \in todo[j] THEN rows[k] + 1 ELSE rows[k]
        /\ UNCHANGED <<dbms, live, rule, orphaned>>
    BY <1>1 DEF InsertCommit
  <2>2. ASSUME Enforced, NEW k \in Existing'
        PROVE  rule'[k[2]] \in {"active", "inactive"} /\ k[1] \in live'
    <3>1. k \in Pairs
      BY DEF Existing
    <3>2. CASE k \in todo[j]
      BY <1>1, <2>1, <2>2, <3>2 DEF Linked
    <3>3. CASE k \notin todo[j]
      BY <2>1, <2>2, <3>1, <3>3 DEF Existing, ViolationsLinked
    <3> QED BY <3>2, <3>3
  <2> QED BY <2>1, <2>2 DEF ViolationsLinked, Enforced
<1>2. CASE UNCHANGED <<dbms, live, rule, rows, orphaned>>
  BY <1>2 DEF ViolationsLinked, Enforced, Existing
<1> QED
  BY <1>1, <1>2 DEF JobStep, TagRead, TagCommit, RulesRead, TradesRead, ExistingRead,
     InsertCommit, Finish, Fail, db, violations

LEMMA LinksRequest == ASSUME TypeOK, ViolationsLinked, Request PROVE ViolationsLinked'
<1>0. Enforced => /\ \A k \in Pairs : rows[k] > 0 => /\ rule[k[2]] \in {"active", "inactive"}
                                                     /\ k[1] \in live
                  /\ \A r \in orphaned : rule[r] \in {"active", "inactive"}
  BY DEF ViolationsLinked, Existing
<1>1. ASSUME NEW j \in Jobs, NEW T \in SUBSET Trades, Upload(j, T) PROVE ViolationsLinked'
  BY <1>0, <1>1 DEF Upload, violations, ViolationsLinked, Enforced, Existing
<1>2. ASSUME NEW t \in Trades, NEW v \in {"user", "none"}, PatchTag(t, v) PROVE ViolationsLinked'
  BY <1>0, <1>2 DEF PatchTag, violations, ViolationsLinked, Enforced, Existing
<1>3. ASSUME NEW T \in SUBSET Trades, DeleteTrades(T) PROVE ViolationsLinked'
  <2> SUFFICES ASSUME Enforced'
               PROVE  /\ \A k \in Existing' : /\ rule'[k[2]] \in {"active", "inactive"}
                                              /\ k[1] \in live'
                      /\ \A q \in orphaned' : rule'[q] \in {"active", "inactive"}
    BY DEF ViolationsLinked
  <2>1. /\ Enforced
        /\ \A k \in Pairs : rows'[k] = IF k[1] \in T THEN 0 ELSE rows[k]
        /\ orphaned' = orphaned \cup {k[2] : k \in Existing \cap (T \X Rules)}
        /\ live' = live \ T /\ rule' = rule
    BY <1>3 DEF DeleteTrades, Enforced
  <2>2. \A k \in Existing' : rule'[k[2]] \in {"active", "inactive"} /\ k[1] \in live'
    BY <1>0, <2>1 DEF Existing
  <2>3. \A r \in orphaned' : rule'[r] \in {"active", "inactive"}
    BY <1>0, <2>1 DEF Existing
  <2> QED BY <2>2, <2>3
<1>4. ASSUME NEW r \in Rules, CreateRule(r) \/ ToggleRule(r) PROVE ViolationsLinked'
  <2>1. /\ \A q \in Rules : rule[q] \in {"active", "inactive"} =>
                              rule'[q] \in {"active", "inactive"}
        /\ UNCHANGED <<dbms, live, violations>>
    BY <1>4 DEF CreateRule, ToggleRule, TypeOK
  <2> QED BY <1>0, <2>1 DEF violations, ViolationsLinked, Enforced, Existing, Pairs,
                            TypeOK
<1>5. ASSUME NEW r \in Rules, DeleteRule(r) PROVE ViolationsLinked'
  <2> SUFFICES ASSUME Enforced'
               PROVE  /\ \A k \in Existing' : /\ rule'[k[2]] \in {"active", "inactive"}
                                              /\ k[1] \in live'
                      /\ \A q \in orphaned' : rule'[q] \in {"active", "inactive"}
    BY DEF ViolationsLinked
  <2>1. /\ Enforced
        /\ \A k \in Pairs : rows'[k] = IF k[2] = r THEN 0 ELSE rows[k]
        /\ orphaned' = orphaned \ {r}
        /\ live' = live
        /\ \A q \in Rules : rule'[q] = IF q = r THEN "deleted" ELSE rule[q]
    BY <1>5 DEF DeleteRule, Enforced, TypeOK
  <2>2. \A k \in Existing' : rule'[k[2]] \in {"active", "inactive"} /\ k[1] \in live'
    BY <1>0, <2>1 DEF Existing, Pairs
  <2>3. \A q \in orphaned' : rule'[q] \in {"active", "inactive"}
    BY <1>0, <2>1 DEF TypeOK
  <2> QED BY <2>2, <2>3
<1>6. CASE DeleteAccount
  BY <1>6 DEF DeleteAccount, ViolationsLinked, Enforced, Existing, violations
<1> QED BY <1>1, <1>2, <1>3, <1>4, <1>5, <1>6 DEF Request

LEMMA LinksStep == TypeOK /\ ViolationsLinked /\ [Next]_vars => ViolationsLinked'
<1>1. ViolationsLinked /\ UNCHANGED vars => ViolationsLinked'
  BY DEF vars, db, violations, ViolationsLinked, Enforced, Existing
<1> QED BY <1>1, LinksJob, LinksRequest DEF Next

\* ON DELETE CASCADE and SET NULL keep every recorded violation linked, also under a
\* job that read rule and trade before they were deleted -- where they are enforced.
THEOREM EnforcedKeysLink == Spec => []ViolationsLinked
<1>1. Init => ViolationsLinked
  BY DEF Init, ViolationsLinked, Existing
<1> QED BY <1>1, TypeCorrect, LinksStep, PTL DEF Spec

-----------------------------------------------------------------------------
(* A job left alone by its user covers its upload.                         *)

Quiet == \A j \in clean : Covered(j)

\* Every step of a job leaves the rows a quiet job relies on alone, or adds to them.
LEMMA JobsOnlyAdd ==
  ASSUME TypeOK, NEW i \in Jobs, JobStep(i)
  PROVE  /\ UNCHANGED <<dbms, account, live, rule, clean>>
         /\ \A t \in Trades : tag[t] # "none" => tag'[t] # "none"
         /\ Existing \subseteq Existing'
         /\ Active' = Active /\ CheckAll(live, Active)' = CheckAll(live, Active)
<1>1. UNCHANGED <<dbms, account, live, rule, clean>>
  BY DEF JobStep, TagRead, TagCommit, RulesRead, TradesRead, ExistingRead, InsertCommit,
         Finish, Fail, db
<1>2. \A t \in Trades : tag[t] # "none" => tag'[t] # "none"
  BY DEF JobStep, TagRead, TagCommit, RulesRead, TradesRead, ExistingRead, InsertCommit,
         Finish, Fail, db
<1>3. \A k \in Pairs : rows[k] > 0 => rows'[k] > 0
  <2>1. \A k \in Pairs : rows[k] \in Nat
    BY DEF TypeOK
  <2>2. rows' = rows \/ rows' = [k \in Pairs |-> IF k \in todo[i] THEN rows[k] + 1 ELSE rows[k]]
    BY DEF JobStep, TagRead, TagCommit, RulesRead, TradesRead, ExistingRead, InsertCommit,
           Finish, Fail, db, violations
  <2> QED BY <2>1, <2>2
<1>4. Existing \subseteq Existing'
  BY <1>3 DEF Existing
<1>5. Active' = Active
  BY <1>1 DEF Active
<1> QED BY <1>1, <1>2, <1>4, <1>5

\* So a job that does not move stays covered.
LEMMA OthersHelp ==
  ASSUME TypeOK, NEW i \in Jobs, JobStep(i), NEW j \in Jobs, j # i, Covered(j)
  PROVE  Covered(j)'
<1>1. \E p, s, w : GoTo(i, p, s, w)
  BY DEF JobStep, TagRead, TagCommit, RulesRead, TradesRead, ExistingRead, InsertCommit,
         Finish, Fail
<1>2. pc'[j] = pc[j] /\ sel'[j] = sel[j] /\ todo'[j] = todo[j]
  BY <1>1, GoToEffect
<1>3. \A t \in live : t \in Trades
  BY DEF TypeOK
<1> QED BY <1>2, <1>3, JobsOnlyAdd DEF Covered

\* And a job that moves covers what its next await requires.
LEMMA JobCovers ==
  ASSUME TypeOK, NEW j \in Jobs, JobStep(j), Covered(j)
  PROVE  Covered(j)'
<1>0. /\ account' /\ account
      /\ UNCHANGED <<live, rule>>
      /\ Active' = Active /\ CheckAll(live, Active)' = CheckAll(live, Active)
      /\ Existing \subseteq Existing'
      /\ \A t \in live : t \in Trades
  BY JobsOnlyAdd DEF Covered, TypeOK
<1>1. CASE TagRead(j)
  <2> DEFINE untagged == {t \in live : tag[t] = "none"}
  <2>1. tag' = tag
    BY <1>1 DEF TagRead, db
  <2>2. CASE Cardinality(live) >= 2 /\ untagged # {}
    <3>1. pc'[j] = "tagging" /\ todo'[j] = untagged
      BY <1>0, <1>1, <2>2, GoToEffect DEF TagRead
    <3> QED BY <1>0, <2>1, <3>1 DEF Covered
  <2>3. CASE ~(Cardinality(live) >= 2 /\ untagged # {})
    <3>1. pc'[j] = "rules"
      BY <1>1, <2>3, GoToEffect DEF TagRead
    <3> QED BY <1>0, <2>1, <2>3, <3>1 DEF Covered
  <2> QED BY <2>2, <2>3
<1>2. CASE TagCommit(j)
  <2>1. CASE todo[j] \subseteq live
    <3>1. /\ pc'[j] = "rules" /\ pc[j] = "tagging"
          /\ \A t \in Trades : tag'[t] = IF t \in todo[j] THEN "auto" ELSE tag[t]
      BY <1>2, <2>1, GoToEffect DEF TagCommit
    <3>2. \A t \in live : tag'[t] # "none"
      BY <1>0, <3>1 DEF Covered
    <3> QED BY <1>0, <3>1, <3>2 DEF Covered
  <2>2. CASE ~(todo[j] \subseteq live)
    <3>1. pc'[j] = "failed"
      BY <1>2, <2>2, GoToEffect DEF TagCommit
    <3> QED BY <1>0, <3>1 DEF Covered
  <2> QED BY <2>1, <2>2
<1>3. CASE RulesRead(j)
  <2>1. tag' = tag /\ pc[j] = "rules"
    BY <1>3 DEF RulesRead, db
  <2>2. CASE Active # {}
    <3>1. pc'[j] = "trades" /\ sel'[j] = Active
      BY <1>0, <1>3, <2>2, GoToEffect DEF RulesRead
    <3> QED BY <1>0, <2>1, <3>1 DEF Covered
  <2>3. CASE Active = {}
    <3>1. pc'[j] = "last"
      BY <1>3, <2>3, GoToEffect DEF RulesRead
    <3>2. CheckAll(live, Active) = {}
      BY <2>3 DEF CheckAll
    <3> QED BY <1>0, <2>1, <3>1, <3>2 DEF Covered
  <2> QED BY <2>2, <2>3
<1>4. CASE TradesRead(j)
  <2>1. tag' = tag /\ pc[j] = "trades" /\ sel[j] = Active
    BY <1>4 DEF TradesRead, db, Covered
  <2>2. CASE CheckAll(live, sel[j]) # {}
    <3>1. pc'[j] = "existing" /\ todo'[j] = CheckAll(live, Active)
      BY <1>4, <2>1, <2>2, GoToEffect DEF TradesRead
    <3> QED BY <1>0, <2>1, <3>1 DEF Covered
  <2>3. CASE CheckAll(live, sel[j]) = {}
    <3>1. pc'[j] = "last"
      BY <1>4, <2>3, GoToEffect DEF TradesRead
    <3> QED BY <1>0, <2>1, <2>3, <3>1 DEF Covered
  <2> QED BY <2>2, <2>3
<1>5. CASE ExistingRead(j)
  <2>1. /\ tag' = tag /\ pc[j] = "existing"
        /\ CheckAll(live, Active) \subseteq todo[j] \cup Existing
    BY <1>5 DEF ExistingRead, db, Covered
  <2>2. CASE todo[j] \ Existing # {}
    <3>1. pc'[j] = "inserting" /\ todo'[j] = todo[j] \ Existing
      BY <1>5, <2>2, GoToEffect DEF ExistingRead
    <3> QED BY <1>0, <2>1, <3>1 DEF Covered
  <2>3. CASE todo[j] \ Existing = {}
    <3>1. pc'[j] = "last"
      BY <1>5, <2>3, GoToEffect DEF ExistingRead
    <3> QED BY <1>0, <2>1, <2>3, <3>1 DEF Covered
  <2> QED BY <2>2, <2>3
<1>6. CASE InsertCommit(j)
  <2>1. /\ tag' = tag /\ pc[j] = "inserting" /\ todo[j] \subseteq Pairs
        /\ CheckAll(live, Active) \subseteq todo[j] \cup Existing
    BY <1>6 DEF InsertCommit, Covered, TypeOK
  <2>2. CASE Enforced => \A k \in todo[j] : Linked(k)
    <3>1. /\ \A k \in Pairs : rows'[k] = IF k \in todo[j] THEN rows[k] + 1 ELSE rows[k]
          /\ pc'[j] = "last"
      BY <1>6, <2>2, GoToEffect DEF InsertCommit
    <3>2. todo[j] \subseteq Existing'
      BY <2>1, <3>1 DEF Existing, TypeOK
    <3> QED BY <1>0, <2>1, <3>1, <3>2 DEF Covered
  <2>3. CASE ~(Enforced => \A k \in todo[j] : Linked(k))
    <3>1. pc'[j] = "failed"
      BY <1>6, <2>3, GoToEffect DEF InsertCommit
    <3> QED BY <1>0, <3>1 DEF Covered
  <2> QED BY <2>2, <2>3
<1>7. CASE Finish(j)
  <2>1. tag' = tag /\ pc[j] = "last" /\ pc'[j] = "done"
    BY <1>7, GoToEffect DEF Finish, db
  <2> QED BY <1>0, <2>1 DEF Covered
<1>8. CASE Fail(j)
  <2>1. pc'[j] = "failed"
    BY <1>8, GoToEffect DEF Fail
  <2> QED BY <1>0, <2>1 DEF Covered
<1> QED BY <1>1, <1>2, <1>3, <1>4, <1>5, <1>6, <1>7, <1>8 DEF JobStep

LEMMA QuietStep == TypeOK /\ Quiet /\ [Next]_vars => Quiet'
<1> SUFFICES ASSUME TypeOK, Quiet, [Next]_vars PROVE Quiet'
  OBVIOUS
<1>1. ASSUME NEW i \in Jobs, JobStep(i) PROVE Quiet'
  <2>1. clean' = clean /\ clean \subseteq Jobs
    BY <1>1, JobsOnlyAdd DEF TypeOK
  <2> QED BY <1>1, <2>1, JobCovers, OthersHelp DEF Quiet
<1>2. ASSUME NEW j \in Jobs, NEW T \in SUBSET Trades, Upload(j, T) PROVE Quiet'
  <2>1. clean' = {j} /\ pc'[j] = "start" /\ account'
    BY <1>2, GoToEffect DEF Upload
  <2> QED BY <2>1 DEF Quiet, Covered
<1>3. ASSUME Request PROVE Quiet'
  <2>1. CASE clean' = {}
    BY <2>1 DEF Quiet
  <2> QED BY <1>2, <1>3, <2>1 DEF Request, PatchTag, DeleteTrades, CreateRule, ToggleRule,
                              DeleteRule, DeleteAccount
<1>4. CASE UNCHANGED vars
  BY <1>4 DEF vars, db, violations, job, Quiet, Covered, Active, Existing
<1> QED BY <1>1, <1>3, <1>4 DEF Next

\* A post-upload job that ends normally, and whose user changed nothing since the
\* upload, has tagged every trade and recorded every violation, whatever the jobs of
\* earlier uploads did meanwhile.
THEOREM QuietJobsCover == Spec => []QuietJobCovers
<1>1. Init => Quiet
  BY DEF Init, Quiet
<1>2. Quiet => QuietJobCovers
  BY DEF Quiet, Covered, QuietJobCovers
<1> QED BY <1>1, <1>2, TypeCorrect, QuietStep, PTL DEF Spec
=============================================================================
