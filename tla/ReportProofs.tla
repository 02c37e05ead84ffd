---------------------------- MODULE ReportProofs ----------------------------
(***************************************************************************)
(* The report engines, for any history in time order, any offset and any   *)
(* week: their loops compute what the reports say, their sums agree,       *)
(* engines that look for the same habit name the same trades, and a later  *)
(* day only adds to a report.                                              *)
(***************************************************************************)
EXTENDS HistoryProofs, Reports

-----------------------------------------------------------------------------
(* The trades of the reports.                                              *)

\* What imports bring and the job leaves: a verdict comes with its mistake.
Coherents == {t \in TradeRecord : Coherent(t)}

\* The trades are of that kind and in the order of their timestamps.
Timed(h) == h \in Seq(Coherents) /\ InTime(h)

\* The auto-tagger gives every trade the three tags together or none of them.
LEMMA TaggedIsTimed ==
  ASSUME NEW h, Timed(h)
  PROVE  Timed(Tagged(h)) /\ Len(Tagged(h)) = Len(h)
PROOF
  <1>1. Len(h) \in Nat /\ DOMAIN h = 1 .. Len(h) /\ \A i \in 1 .. Len(h) : h[i] \in Coherents
    BY LenProperties, ElementOfSeq DEF Timed
  <1>2. CASE Len(h) < 2
    BY <1>2 DEF Tagged
  <1>3. CASE ~(Len(h) < 2)
    <2> DEFINE Keep(old, new) == IF old = Unset THEN new ELSE old
               New(i) == [h[i] EXCEPT
                            !.mood = Keep(@, MoodOf(h, i)), !.mistake = Keep(@, MistakeOf(h, i)),
                            !.followed = Keep(@, IF MistakeOf(h, i) = "none" THEN "yes" ELSE "no")]
               g == [i \in 1 .. Len(h) |-> New(i)]
    <2>1. Tagged(h) = g
      BY <1>3 DEF Tagged, Positions
    <2>2. ASSUME NEW i \in 1 .. Len(h)
          PROVE  New(i) \in Coherents /\ New(i).at = h[i].at
      <3> DEFINE m == Keep(h[i].mood, MoodOf(h, i))
                 k == Keep(h[i].mistake, MistakeOf(h, i))
                 f == Keep(h[i].followed, IF MistakeOf(h, i) = "none" THEN "yes" ELSE "no")
      <3>1. h[i] \in TradeRecord /\ Coherent(h[i])
        BY <1>1 DEF Coherents
      <3>2. MoodOf(h, i) \in Words /\ MistakeOf(h, i) \in Words /\ MistakeOf(h, i) # Unset
        BY DEF MoodOf, MistakeOf, Words, Unset
      <3>3. m \in Texts /\ k \in Texts /\ f \in {Unset, "yes", "no"}
        BY <3>1, <3>2, HistoryAssumption DEF TradeRecord
      <3>4. New(i) = [h[i] EXCEPT !.mood = m, !.mistake = k, !.followed = f]
        OBVIOUS
      <3> HIDE DEF New, m, k, f
      <3>5. New(i) \in TradeRecord /\ New(i).at = h[i].at /\ New(i).mistake = k /\ New(i).followed = f
        BY <3>1, <3>3, <3>4 DEF TradeRecord
      <3>6. Coherent(New(i))
        BY <3>1, <3>2, <3>5 DEF Coherent, Unset, k, f
      <3> QED
        BY <3>6, <3>5 DEF Coherents
    <2> HIDE DEF New
    <2>3. g \in [1 .. Len(h) -> Coherents]
      BY <2>2
    <2>4. g \in Seq(Coherents) /\ DOMAIN g = 1 .. Len(h) /\ Len(g) = Len(h)
      <3>1. g \in Seq(Coherents)
        BY <1>1, <2>3, SeqDef
      <3> HIDE DEF g
      <3> QED
        BY <1>1, <2>3, <3>1, LenProperties
    <2>5. \A i \in 1 .. Len(h) : g[i].at = h[i].at
      BY <2>2
    <2> HIDE DEF g
    <2>6. InTime(g)
      BY <2>4, <2>5 DEF Timed, InTime, Positions
    <2> QED
      BY <2>1, <2>4, <2>6 DEF Timed
  <1> QED
    BY <1>2, <1>3

\* So do imports, whatever the trade's time, and deletions.
LEMMA EditsKeepTime ==
  ASSUME NEW h, Timed(h)
  PROVE  /\ \A t \in Coherents : Timed(Placed(h, t))
         /\ \A m \in Positions(h) : Timed(RemoveAt(h, m))
PROOF
  <1> DEFINE key == [x \in Coherents |-> x.at]
  <1>1. \A x \in Coherents : key[x] = x.at /\ key[x] \in Int
    BY DEF Coherents, TradeRecord
  <1>2. \A g \in Seq(Coherents) : Increasing(g, key) <=> InTime(g)
    <2> SUFFICES ASSUME NEW g \in Seq(Coherents) PROVE Increasing(g, key) <=> InTime(g)
      OBVIOUS
    <2>1. DOMAIN g = Positions(g) /\ \A i \in DOMAIN g : key[g[i]] = g[i].at
      BY LenProperties, ElementOfSeq, <1>1 DEF Positions
    <2> HIDE DEF key
    <2> QED
      BY <2>1 DEF Increasing, InTime
  <1>3. DOMAIN h = Positions(h)
    BY LenProperties DEF Timed, Positions
  <1>4. ASSUME NEW t \in Coherents
        PROVE  Placed(h, t) = Inserted(h, key, t)
    <2>1. \A i \in DOMAIN h : key[h[i]] = h[i].at
      BY LenProperties, ElementOfSeq, <1>1 DEF Timed
    <2>2. {i \in Positions(h) : h[i].at <= t.at} = {i \in DOMAIN h : key[h[i]] <= key[t]}
      BY <1>1, <1>3, <2>1
    <2> HIDE DEF key
    <2> QED
      BY <2>2 DEF Placed, Inserted
  <1> HIDE DEF key
  <1>5. Increasing(h, key) /\ h \in Seq(Coherents)
    BY <1>2 DEF Timed
  <1>6. ASSUME NEW t \in Coherents
        PROVE  Timed(Placed(h, t))
    BY <1>1, <1>2, <1>4, <1>5, InsertKeeps DEF Timed
  <1>7. ASSUME NEW m \in Positions(h)
        PROVE  Timed(RemoveAt(h, m))
    BY <1>2, <1>3, <1>5, RemoveKeeps DEF Timed
  <1> QED
    BY <1>6, <1>7

\* The type invariant says the same of the user's trades.
LEMMA TimedIsTyped ==
  /\ ReportTypeOK <=> Timed(history) /\ offset \in Offsets /\ edits \in Nat
  /\ ReportTypeOK' <=> Timed(history') /\ offset' \in Offsets /\ edits' \in Nat
PROOF
  <1>1. ASSUME NEW h
        PROVE  Timed(h) <=> /\ h \in Seq(TradeRecord) /\ InTime(h)
                            /\ \A i \in Positions(h) : Coherent(h[i])
    <2>1. ASSUME Timed(h)
          PROVE  h \in Seq(TradeRecord) /\ \A i \in Positions(h) : Coherent(h[i])
      <3>1. Coherents \subseteq TradeRecord
        BY DEF Coherents
      <3>2. h \in Seq(TradeRecord)
        BY <2>1, <3>1, SeqMonotonic DEF Timed
      <3>3. \A i \in 1 .. Len(h) : h[i] \in Coherents
        BY <2>1, ElementOfSeq DEF Timed
      <3> QED
        BY <3>2, <3>3 DEF Coherents, Positions
    <2>2. ASSUME h \in Seq(TradeRecord), \A i \in Positions(h) : Coherent(h[i])
          PROVE  h \in Seq(Coherents)
      <3>1. Len(h) \in Nat /\ h \in [1 .. Len(h) -> TradeRecord]
        BY <2>2, LenProperties
      <3>2. h \in [1 .. Len(h) -> Coherents]
        BY <2>2, <3>1 DEF Coherents, Positions
      <3> QED
        BY <3>1, <3>2, SeqDef
    <2> QED
      BY <2>1, <2>2 DEF Timed
  <1>2. ReportTypeOK <=> Timed(history) /\ offset \in Offsets /\ edits \in Nat
    BY <1>1 DEF ReportTypeOK
  <1>3. ReportTypeOK' <=> Timed(history') /\ offset' \in Offsets /\ edits' \in Nat
    BY <1>1 DEF ReportTypeOK, InTime, Positions
  <1> QED
    BY <1>2, <1>3

\* The histories a user may have imported before are in the order of time.
LEMMA ReportStarts == ReportInit => ReportTypeOK
PROOF BY HistoryAssumption DEF ReportInit, ReportTypeOK

\* Imports of any time, deletions and tags keep a history in that order.
LEMMA ReportSteps == ReportTypeOK /\ [ReportNext]_reportVars => ReportTypeOK'
PROOF
  <1> SUFFICES ASSUME ReportTypeOK, [ReportNext]_reportVars PROVE ReportTypeOK'
    OBVIOUS
  <1>1. Timed(history) /\ offset \in Offsets /\ edits \in Nat
    BY TimedIsTyped
  <1>2. ASSUME NEW t \in Arrivals, ImportTrade(t)
        PROVE  ReportTypeOK'
    <2>1. t \in Coherents
      BY HistoryAssumption DEF Coherents
    <2>2. Timed(history') /\ edits' \in Nat /\ offset' = offset
      BY <1>1, <1>2, <2>1, EditsKeepTime DEF ImportTrade, Edit
    <2> QED
      BY <1>1, <2>2, TimedIsTyped
  <1>3. ASSUME NEW i \in Positions(history), RemoveTrade(i)
        PROVE  ReportTypeOK'
    <2>1. Timed(history') /\ edits' \in Nat /\ offset' = offset
      BY <1>1, <1>3, EditsKeepTime DEF RemoveTrade, Edit
    <2> QED
      BY <1>1, <2>1, TimedIsTyped
  <1>4. CASE AutoTag
    BY <1>1, <1>4, TaggedIsTimed, TimedIsTyped DEF AutoTag
  <1>5. CASE UNCHANGED reportVars
    BY <1>1, <1>5, TimedIsTyped DEF reportVars
  <1> QED
    BY <1>2, <1>3, <1>4, <1>5 DEF ReportNext

\* Type correctness of the trades the reports read: imports of any time, deletions and
\* tags keep them in time order, with a mistake wherever there is a verdict
\* (trade_service.py:133, auto_tagger.py:22).
THEOREM ReportTypeCorrect == ReportSpec => []ReportTypeOK
PROOF BY ReportStarts, ReportSteps, PTL DEF ReportSpec

-----------------------------------------------------------------------------
(* Sorting.                                                                *)

\* What goes ahead of what in a ranking.
Ranks(S, gain, order) ==
    [k \in S |-> {j \in S : gain[j] > gain[k] \/ (gain[j] = gain[k] /\ order[j] < order[k])}]

\* A ranking by numbers, ties broken by an order of their own, lists each key once.
LEMMA RankedFacts ==
  ASSUME NEW S, IsFiniteSet(S), NEW gain, NEW order,
         \A k \in S : gain[k] \in Int /\ order[k] \in Int,
         \A j, k \in S : order[j] = order[k] => j = k
  PROVE  Lists(RankedBy(S, gain, order), Ranks(S, gain, order), Cardinality(S))
PROOF
  <1> DEFINE ahead == Ranks(S, gain, order)
  <1>1. DOMAIN ahead = S
    BY DEF Ranks
  <1>2. \A j, k \in S : j \in ahead[k] <=>
          (gain[j] > gain[k] \/ (gain[j] = gain[k] /\ order[j] < order[k]))
    BY DEF Ranks
  <1>3. \A k \in S : ahead[k] \subseteq S
    BY DEF Ranks
  <1>4. RankedBy(S, gain, order) = Sorted(ahead)
    BY DEF RankedBy, Ranks
  <1> HIDE DEF ahead
  <1>5. LinearOrder(ahead)
    <2> SUFFICES ASSUME NEW k \in S
                 PROVE  /\ ahead[k] \subseteq S /\ k \notin ahead[k]
                        /\ \A j \in S : /\ j = k \/ j \in ahead[k] \/ k \in ahead[j]
                                        /\ j \in ahead[k] => ahead[j] \subseteq ahead[k]
      BY <1>1 DEF LinearOrder
    <2>1. k \notin ahead[k]
      BY <1>2
    <2>2. ASSUME NEW j \in S
          PROVE  j = k \/ j \in ahead[k] \/ k \in ahead[j]
      BY <1>2
    <2>3. ASSUME NEW j \in S, j \in ahead[k], NEW i \in ahead[j]
          PROVE  i \in ahead[k]
      <3>1. i \in S
        BY <1>3
      <3> QED
        BY <1>2, <2>3, <3>1
    <2> QED
      BY <1>3, <2>1, <2>2, <2>3
  <1> QED
    BY <1>1, <1>4, <1>5, SortedFacts DEF ahead

\* So one of them leads.
LEMMA LeadingIs ==
  ASSUME NEW gain, IsFiniteSet(DOMAIN gain), DOMAIN gain # {}, NEW order,
         \A k \in DOMAIN gain : gain[k] \in Int /\ order[k] \in Int,
         \A j, k \in DOMAIN gain : order[j] = order[k] => j = k
  PROVE  Leading(gain, order) \in DOMAIN gain
PROOF
  <1> DEFINE S == DOMAIN gain
             ahead == Ranks(S, gain, order)
             f == RankedBy(S, gain, order)
             N == Cardinality(S)
  <1>1. Lists(f, ahead, N)
    BY RankedFacts
  <1>2. DOMAIN ahead = S /\ \A k \in S : ahead[k] \subseteq S
    BY DEF Ranks
  <1>3. \A j, k \in S : j \in ahead[k] <=>
          (gain[j] > gain[k] \/ (gain[j] = gain[k] /\ order[j] < order[k]))
    BY DEF Ranks
  <1> HIDE DEF f, ahead, N
  <1>4. N \in Nat /\ 1 \in 1 .. N
    BY <1>1, <1>2 DEF Lists
  <1>5. PICK k \in S : Cardinality(ahead[k]) = 0
    BY <1>1, <1>2, <1>4 DEF Lists
  <1>6. ahead[k] = {}
    <2>1. IsFiniteSet(ahead[k])
      BY <1>2, FS_Subset
    <2> QED
      BY <1>5, <2>1, FS_EmptySet
  <1>7. \A j \in S \ {k} : gain[k] > gain[j] \/ (gain[k] = gain[j] /\ order[k] < order[j])
    BY <1>3, <1>6
  <1> QED
    BY <1>7 DEF Leading

-----------------------------------------------------------------------------
(* Sums over trades, and loops.                                            *)

\* What a history of trades in time order is made of.
LEMMA TimedFacts ==
  ASSUME NEW h, Timed(h)
  PROVE  /\ Len(h) \in Nat /\ DOMAIN h = 1 .. Len(h) /\ Positions(h) = 1 .. Len(h)
         /\ \A i \in 1 .. Len(h) : /\ h[i] \in Coherents /\ h[i] \in TradeRecord
                                   /\ h[i].at \in Nat /\ h[i].pnl \in Int
                                   /\ h[i].qty \in Nat
         /\ \A i, j \in 1 .. Len(h) : i < j => h[i].at <= h[j].at
PROOF
  <1>1. Len(h) \in Nat /\ DOMAIN h = 1 .. Len(h) /\ \A i \in 1 .. Len(h) : h[i] \in Coherents
    BY LenProperties, ElementOfSeq DEF Timed
  <1>2. \A i \in 1 .. Len(h) : h[i] \in TradeRecord
    BY <1>1 DEF Coherents
  <1>3. \A i \in 1 .. Len(h) : h[i].at \in Nat /\ h[i].pnl \in Int /\ h[i].qty \in Nat
    BY <1>2 DEF TradeRecord
  <1> QED
    BY <1>1, <1>2, <1>3 DEF Timed, InTime, Positions

\* What they made, as a history of an account.
Ledger(h) == [i \in Positions(h) |-> [day |-> 0, pnl |-> h[i].pnl]]

\* A sum over trades is the net result of that history.
LEMMA LedgerFacts ==
  ASSUME NEW h, Timed(h)
  PROVE  /\ Ledger(h) \in Histories /\ Len(Ledger(h)) = Len(h)
         /\ DOMAIN Ledger(h) = 1 .. Len(h)
         /\ \A i \in 1 .. Len(h) : Ledger(h)[i].pnl = h[i].pnl
         /\ \A I : PnlOf(h, I) = Net(Ledger(h), I)
PROOF
  <1> DEFINE g == Ledger(h)
  <1>1. Len(h) \in Nat /\ Positions(h) = 1 .. Len(h) /\ \A i \in 1 .. Len(h) : h[i].pnl \in Int
    BY TimedFacts
  <1>2. DOMAIN g = 1 .. Len(h) /\ \A i \in 1 .. Len(h) : g[i] = [day |-> 0, pnl |-> h[i].pnl]
    BY <1>1 DEF Ledger
  <1>3. \A i \in 1 .. Len(h) : g[i] \in [day : Int, pnl : Int] /\ g[i].pnl = h[i].pnl
    BY <1>1, <1>2
  <1>4. g \in [1 .. Len(h) -> [day : Int, pnl : Int]]
    <2> DEFINE n == Len(h)
    <2>1. g = [i \in 1 .. n |-> g[i]]
      BY <1>1, <1>2 DEF Ledger
    <2> HIDE DEF g
    <2> QED
      BY <1>3, <2>1
  <1>5. g \in Histories
    <2> DEFINE n == Len(h)
               T == [day : Int, pnl : Int]
    <2>1. n \in Nat /\ g \in [1 .. n -> T]
      BY <1>1, <1>4
    <2> HIDE DEF n, g, T
    <2>2. g \in Seq(T)
      BY <2>1, SeqDef
    <2> QED
      BY <2>2 DEF Histories, T
  <1>6. Len(g) = Len(h)
    <2> HIDE DEF g
    <2>1. Len(g) \in Nat /\ DOMAIN g = 1 .. Len(g)
      BY <1>5, LenProperties DEF Histories
    <2> QED
      BY <1>1, <1>2, <2>1
  <1>7. ASSUME NEW I
        PROVE  PnlOf(h, I) = Net(g, I)
    <2>1. [i \in Positions(h) |-> h[i].pnl] = [i \in DOMAIN g |-> g[i].pnl]
      <3> HIDE DEF g
      <3> QED
        BY <1>1, <1>2, <1>3
    <2> HIDE DEF g
    <2> QED
      BY <2>1 DEF PnlOf, Net
  <1> QED
    BY <1>2, <1>3, <1>5, <1>6, <1>7

\* So what is said of a sum holds of what trades made.
LEMMA PnlFacts ==
  ASSUME NEW h, Timed(h), NEW I \in SUBSET Positions(h)
  PROVE  /\ IsFiniteSet(I) /\ PnlOf(h, I) \in Int /\ PnlOf(h, {}) = 0
         /\ \A J \in SUBSET Positions(h) :
               I \cap J = {} => PnlOf(h, I \cup J) = PnlOf(h, I) + PnlOf(h, J)
         /\ \A i \in Positions(h) : PnlOf(h, {i}) = h[i].pnl
PROOF
  <1> DEFINE g == Ledger(h)
  <1>1. /\ g \in Histories /\ DOMAIN g = Positions(h) /\ \A J : PnlOf(h, J) = Net(g, J)
        /\ \A i \in Positions(h) : g[i].pnl = h[i].pnl
    BY LedgerFacts, TimedFacts
  <1> HIDE DEF g
  <1> QED
    BY <1>1, NetFacts

\* They depend on the trades of the part only.
LEMMA PnlSame ==
  ASSUME NEW g, Timed(g), NEW h, Timed(h), NEW I, NEW J,
         I \subseteq Positions(g), I \subseteq Positions(h), \A i \in I : g[i].pnl = h[i].pnl
  PROVE  PnlOf(g, I) = PnlOf(h, I)
PROOF
  <1> DEFINE madeG == [i \in Positions(g) |-> g[i].pnl]
             madeH == [i \in Positions(h) |-> h[i].pnl]
  <1>1. \A i \in I : madeG[i] = madeH[i]
    OBVIOUS
  <1>2. IsFiniteSet(I)
    BY PnlFacts
  <1>3. PnlOf(g, I) = SumFunctionOnSet(madeG, I) /\ PnlOf(h, I) = SumFunctionOnSet(madeH, I)
    BY DEF PnlOf
  <1> HIDE DEF madeG, madeH
  <1> QED
    BY <1>1, <1>2, <1>3, SumSame

\* A loop over 1 .. N from v0 that goes on by F, all of whose values are in V.
LoopRun(N, V, v0, F, f) ==
    f \in [0 .. N -> V] /\ f[0] = v0 /\ \A k \in 1 .. N : f[k] = F[<<k, f[k - 1]>>]
LoopSteps(N, V, F) == \A k \in 1 .. N, v \in V : F[<<k, v>>] \in V

\* Such a loop has a run, so that its recursive function satisfies its equations.
LEMMA LoopRuns ==
  ASSUME NEW N \in Nat, NEW V, NEW v0 \in V, NEW F, LoopSteps(N, V, F)
  PROVE  \E f : LoopRun(N, V, v0, F, f)
PROOF
  <1> DEFINE Run(n, f) == f \in [0 .. n -> V] /\ f[0] = v0 /\ \A k \in 1 .. n : f[k] = F[<<k, f[k - 1]>>]
             P == {n \in Nat : n <= N => \E f : Run(n, f)}
  <1>1. 0 \in P
    <2>1. Run(0, [k \in 0 .. 0 |-> v0])
      OBVIOUS
    <2> HIDE DEF Run
    <2> QED
      BY <2>1
  <1>2. ASSUME NEW n \in Nat, n \in P
        PROVE  n + 1 \in P
    <2> SUFFICES ASSUME n + 1 <= N PROVE \E f : Run(n + 1, f)
      OBVIOUS
    <2>1. PICK f : Run(n, f)
      BY <1>2
    <2> DEFINE g == [k \in 0 .. n + 1 |-> IF k <= n THEN f[k] ELSE F[<<n + 1, f[n]>>]]
    <2>2. F[<<n + 1, f[n]>>] \in V
      BY <2>1 DEF LoopSteps
    <2>3. g \in [0 .. n + 1 -> V] /\ g[0] = v0
      BY <2>1, <2>2
    <2>4. ASSUME NEW k \in 1 .. n + 1
          PROVE  g[k] = F[<<k, g[k - 1]>>]
      <3>1. k - 1 \in 0 .. n /\ k - 1 <= n /\ k - 1 \in 0 .. n + 1 /\ k \in 0 .. n + 1
        OBVIOUS
      <3>2. g[k - 1] = f[k - 1]
        BY <3>1
      <3>3. CASE k <= n
        BY <2>1, <3>2, <3>3
      <3>4. CASE k = n + 1
        <4>1. k - 1 = n /\ ~(k <= n) /\ g[k] = F[<<n + 1, f[n]>>]
          BY <3>1, <3>4
        <4> QED
          BY <3>2, <3>4, <4>1
      <3> QED
        BY <3>3, <3>4
    <2> HIDE DEF g
    <2>5. Run(n + 1, g)
      BY <2>3, <2>4
    <2> HIDE DEF Run
    <2> QED
      BY <2>5
  <1> HIDE DEF P
  <1>3. N \in P
    BY <1>1, <1>2, NatsByInduction
  <1> QED
    BY <1>3 DEF P, LoopRun

-----------------------------------------------------------------------------
(* Streaks: the loop has laid out the runs of the trades it has read.      *)

\* A streak as the loop keeps it.
StreakRecord == [type : {"win", "loss"}, count : Nat, pnl : Int]

\* g is the streaks all after one more trade: the last one is longer or one begins.
Longer(g, all, t, L) ==
    /\ L > 0 /\ Len(g) = L /\ \A i \in 1 .. L - 1 : g[i] = all[i]
    /\ g[L] = [type |-> all[L].type, count |-> all[L].count + 1, pnl |-> all[L].pnl + t.pnl]
OneMore(g, all, t, L) ==
    /\ Len(g) = L + 1 /\ \A i \in 1 .. L : g[i] = all[i]
    /\ g[L + 1] = Streak(t)

\* That is what a trade does to the streaks.
LEMMA JoinedFacts ==
  ASSUME NEW all \in Seq(StreakRecord), NEW t, t.pnl \in Int
  PROVE  /\ Len(all) \in Nat /\ Joined(all, t) \in Seq(StreakRecord)
         /\ all = <<>> <=> Len(all) = 0
         /\ Len(all) > 0 => all[Len(all)] \in StreakRecord
         /\ Joins(all, t) => Longer(Joined(all, t), all, t, Len(all))
         /\ ~Joins(all, t) => OneMore(Joined(all, t), all, t, Len(all))
PROOF
  <1> DEFINE L == Len(all)
             g == Joined(all, t)
             front == SubSeq(all, 1, L - 1)
             more == [type |-> all[L].type, count |-> all[L].count + 1, pnl |-> all[L].pnl + t.pnl]
  <1>1. L \in Nat /\ (all = <<>> <=> L = 0) /\ (L > 0 => all[L] \in StreakRecord)
    <2>1. L \in Nat /\ (all = <<>> <=> L = 0)
      BY LenProperties, EmptySeq
    <2>2. L > 0 => L \in 1 .. L
      BY <2>1
    <2> QED
      BY <2>1, <2>2, ElementOfSeq
  <1>2. Streak(t) \in StreakRecord
    BY DEF Streak, StreakRecord
  <1>3. CASE Joins(all, t)
    <2>1. L > 0 /\ all[L] \in StreakRecord
      BY <1>1, <1>3 DEF Joins
    <2>2. more \in StreakRecord
      BY <2>1 DEF StreakRecord
    <2>3. g = Append(front, more)
      BY <1>3 DEF Joined, Front, Last
    <2>4. front \in Seq(StreakRecord) /\ Len(front) = L - 1 /\ \A i \in 1 .. L - 1 : front[i] = all[i]
      <3> DEFINE N == Len(all)
      <3>1. N \in Nat /\ N - 1 \in 0 .. N /\ N = L /\ N = Len(all)
        BY <1>1, <2>1
      <3> HIDE DEF N
      <3>2. Parts(SubSeq(all, 1, N - 1), SubSeq(all, N - 1 + 1, N), StreakRecord, all, N, N - 1)
        BY <3>1, TwoParts
      <3> QED
        BY <3>1, <3>2 DEF Parts
    <2> HIDE DEF front, more, g
    <2>5. /\ g \in Seq(StreakRecord) /\ Len(g) = Len(front) + 1 /\ g[Len(front) + 1] = more
          /\ \A i \in 1 .. Len(front) : g[i] = front[i]
      BY <2>2, <2>3, <2>4, AppendProperties
    <2>6. Len(g) = L /\ g[L] = more /\ \A i \in 1 .. L - 1 : g[i] = all[i]
      <3>1. (L - 1) + 1 = L
        BY <1>1
      <3> QED
        BY <2>4, <2>5, <3>1
    <2>7. Longer(g, all, t, L)
      BY <2>1, <2>6 DEF Longer, more
    <2> QED
      BY <1>1, <1>3, <2>5, <2>7 DEF g
  <1>4. CASE ~Joins(all, t)
    <2>1. g = Append(all, Streak(t))
      BY <1>4 DEF Joined
    <2> HIDE DEF g
    <2>2. /\ g \in Seq(StreakRecord) /\ Len(g) = L + 1 /\ g[L + 1] = Streak(t)
          /\ \A i \in 1 .. L : g[i] = all[i]
      BY <1>2, <2>1, AppendProperties
    <2>3. OneMore(g, all, t, L)
      BY <2>2 DEF OneMore
    <2> QED
      BY <1>1, <1>4, <2>2, <2>3 DEF g
  <1> QED
    BY <1>3, <1>4

\* The loop over the trades satisfies its equations.
LEMMA StreakLoop ==
  ASSUME NEW h, Timed(h)
  PROVE  /\ StreaksUpTo(h)[0] = <<>>
         /\ \A n \in 1 .. Len(h) : StreaksUpTo(h)[n] = Joined(StreaksUpTo(h)[n - 1], h[n])
         /\ \A n \in 0 .. Len(h) : StreaksUpTo(h)[n] \in Seq(StreakRecord)
PROOF
  <1> DEFINE V == Seq(StreakRecord)
             N == Len(h)
             Next2(g, n) == IF n = 0 THEN <<>> ELSE Joined(g[n - 1], h[n])
             F == [p \in (1 .. N) \X V |-> Joined(p[2], h[p[1]])]
             R == StreaksUpTo(h)
  <1>1. N \in Nat /\ \A i \in 1 .. N : h[i].pnl \in Int
    BY TimedFacts
  <1>2. <<>> \in V
    BY EmptySeq
  <1>3. \A all \in V : \A n \in 1 .. N : Joined(all, h[n]) \in V /\ F[<<n, all>>] = Joined(all, h[n])
    <2> SUFFICES ASSUME NEW all \in V, NEW n \in 1 .. N
                 PROVE  Joined(all, h[n]) \in V /\ F[<<n, all>>] = Joined(all, h[n])
      OBVIOUS
    <2>1. Joined(all, h[n]) \in V
      BY <1>1, JoinedFacts
    <2> QED
      BY <2>1
  <1>4. LoopSteps(N, V, F)
    BY <1>3 DEF LoopSteps
  <1> HIDE DEF F, V
  <1>5. PICK f : f \in [0 .. N -> V] /\ f[0] = <<>> /\ \A k \in 1 .. N : f[k] = F[<<k, f[k - 1]>>]
    BY SMTT(30), <1>1, <1>2, <1>4, LoopRuns DEF LoopRun
  <1>6. \A k \in 1 .. N : k - 1 \in 0 .. N /\ k # 0
    BY <1>1
  <1>7. \A k \in 1 .. N : f[k] = Joined(f[k - 1], h[k])
    BY <1>3, <1>5, <1>6
  <1>8. f = [n \in 0 .. N |-> Next2(f, n)]
    <2>1. \A n \in 0 .. N : n = 0 \/ n \in 1 .. N
      BY <1>1
    <2>2. \A n \in 0 .. N : f[n] = Next2(f, n)
      BY <1>5, <1>6, <1>7, <2>1
    <2> HIDE DEF Next2
    <2> QED
      BY <1>5, <2>2
  <1>9. R = CHOOSE g : g = [n \in 0 .. N |-> Next2(g, n)]
    BY DEF StreaksUpTo
  <1>10. R = [n \in 0 .. N |-> Next2(R, n)]
    <2> HIDE DEF Next2, R
    <2> QED
      BY <1>8, <1>9
  <1>11. \A n \in 0 .. N : R[n] = Next2(R, n)
    <2> HIDE DEF Next2, R
    <2> QED
      BY <1>10
  <1> HIDE DEF R
  <1>12. R[0] = <<>> /\ \A n \in 1 .. N : R[n] = Joined(R[n - 1], h[n])
    <2>1. 0 \in 0 .. N /\ \A n \in 1 .. N : n \in 0 .. N /\ n # 0
      BY <1>1
    <2> QED
      BY <1>11, <2>1
  <1> DEFINE P == {n \in Nat : n <= N => R[n] \in V}
  <1>13. 0 \in P
    BY <1>2, <1>12
  <1>14. ASSUME NEW n \in Nat, n \in P
         PROVE  n + 1 \in P
    <2> SUFFICES ASSUME n + 1 <= N PROVE R[n + 1] \in V
      OBVIOUS
    <2>1. n + 1 \in 1 .. N /\ (n + 1) - 1 = n /\ R[n] \in V
      BY <1>1, <1>14
    <2> QED
      BY <1>3, <1>12, <2>1
  <1> HIDE DEF P
  <1>15. \A n \in 0 .. N : n \in P
    BY <1>13, <1>14, NatsByInduction
  <1>16. \A n \in 0 .. N : R[n] \in V
    BY <1>1, <1>15 DEF P
  <1> QED
    BY <1>12, <1>16 DEF R, V

\* A trade's side is its own, or that of the trade before it.
LEMMA SideFacts ==
  ASSUME NEW h, Timed(h), NEW n \in 1 .. Len(h)
  PROVE  /\ Side(h, n) \in {"win", "loss"}
         /\ Side(h, n) = IF h[n].pnl > 0 THEN "win"
                         ELSE IF h[n].pnl < 0 \/ n = 1 THEN "loss" ELSE Side(h, n - 1)
PROOF
  <1> DEFINE Signed(m) == {k \in 1 .. m : h[k].pnl # 0}
  <1>1. \A i \in 1 .. Len(h) : h[i].pnl \in Int
    BY TimedFacts
  <1>2. \A m : Side(h, m) = IF Signed(m) # {} /\ h[Max(Signed(m))].pnl > 0 THEN "win" ELSE "loss"
    BY DEF Side
  <1>3. CASE h[n].pnl # 0
    <2>1. n \in Signed(n) /\ Signed(n) \in SUBSET Int /\ \A k \in Signed(n) : k <= n
      BY <1>3
    <2>2. Max(Signed(n)) = n
      <3>1. n \in Int /\ Signed(n) # {}
        BY <2>1
      <3> DEFINE T == Signed(n)
      <3>2. T \in SUBSET Int /\ T # {} /\ n \in Int /\ \A k \in T : k <= n
        BY <2>1, <3>1
      <3> HIDE DEF T
      <3>3. Max(T) \in T /\ \A k \in T : k <= Max(T)
        BY <3>2, MaxOfBounded
      <3>4. n \in T
        BY <2>1 DEF T
      <3>5. Max(T) = n
        <4>1. Max(T) \in Int /\ n \in Int /\ Max(T) <= n /\ n <= Max(T)
          BY <3>2, <3>3, <3>4
        <4> HIDE DEF T
        <4> QED
          BY <4>1
      <3> QED
        BY <3>5 DEF T
    <2>3. Side(h, n) = IF h[n].pnl > 0 THEN "win" ELSE "loss"
      BY <1>2, <2>1, <2>2
    <2>4. h[n].pnl > 0 \/ h[n].pnl < 0
      BY <1>1, <1>3
    <2> QED
      BY <2>3, <2>4
  <1>4. CASE h[n].pnl = 0
    <2>1. Signed(n) = Signed(n - 1)
      <3>1. \A k : k \in 1 .. n <=> k = n \/ k \in 1 .. n - 1
        OBVIOUS
      <3> QED
        BY <1>4, <3>1
    <2>2. Side(h, n) = Side(h, n - 1)
      BY <1>2, <2>1
    <2>3. n = 1 => Side(h, n) = "loss"
      <3>1. n = 1 => 1 .. n - 1 = {}
        OBVIOUS
      <3>2. n = 1 => Signed(n - 1) = {}
        BY <3>1
      <3> QED
        BY <1>2, <2>2, <3>2
    <2>4. Side(h, n) \in {"win", "loss"}
      BY <1>2
    <2> QED
      BY <1>4, <2>2, <2>3, <2>4
  <1> QED
    BY <1>3, <1>4

\* A member that is not above the others is the least, which Min names.
LEMMA MinIs ==
  ASSUME NEW T \in SUBSET Int, NEW m \in T, \A x \in T : m <= x
  PROVE  Min(T) = m
PROOF
  <1>1. Min(T) \in T /\ \A x \in T : Min(T) <= x
    BY DEF Min
  <1>2. Min(T) <= m /\ m <= Min(T) /\ m \in Int /\ Min(T) \in Int
    BY <1>1
  <1> QED
    BY <1>2

\* The starts of runs up to trade n, and the run from i to e.
StartsTo(h, n) == {i \in 1 .. n : i = 1 \/ Side(h, i) # Side(h, i - 1)}
RunOf(h, i, e) == [type |-> Side(h, i), count |-> e - i + 1, pnl |-> PnlOf(h, i .. e)]
EndOf(s, k, L, n) == IF k < L THEN s[k + 1] - 1 ELSE n

\* all is the runs of the first n trades, which start at the positions s.
LaidOut(h, n, all, s) ==
    /\ s \in [1 .. Len(all) -> StartsTo(h, n)]
    /\ \A i \in StartsTo(h, n) : \E k \in 1 .. Len(all) : s[k] = i
    /\ \A k, l \in 1 .. Len(all) : k < l => s[k] < s[l]
    /\ \A k \in 1 .. Len(all) : all[k] = RunOf(h, s[k], EndOf(s, k, Len(all), n))
    /\ all = <<>> <=> n = 0
    /\ n > 0 => Side(h, s[Len(all)]) = Side(h, n)

\* A trade that begins no run makes the last one longer.
LEMMA LaidLonger ==
  ASSUME NEW h, Timed(h), NEW n \in 1 .. Len(h) - 1, NEW all \in Seq(StreakRecord),
         NEW s, LaidOut(h, n, all, s), Side(h, n + 1) = Side(h, n), Joins(all, h[n + 1])
  PROVE  LaidOut(h, n + 1, Joined(all, h[n + 1]), s)
PROOF
  <1> DEFINE L == Len(all)
             t == h[n + 1]
             g == Joined(all, t)
  <1>1. /\ Len(h) \in Nat /\ Positions(h) = 1 .. Len(h) /\ n + 1 \in 1 .. Len(h)
        /\ t.pnl \in Int /\ n \in Nat /\ n > 0 /\ Joins(all, t)
    BY TimedFacts
  <1>2. /\ L \in Nat /\ L > 0 /\ Len(g) = L /\ (\A i \in 1 .. L - 1 : g[i] = all[i])
        /\ g[L] = [type |-> all[L].type, count |-> all[L].count + 1, pnl |-> all[L].pnl + t.pnl]
    <2> HIDE DEF t
    <2>1. L \in Nat /\ Longer(g, all, t, L)
      BY <1>1, JoinedFacts
    <2> HIDE DEF g, L
    <2> QED
      BY <2>1 DEF Longer
  <1>3. StartsTo(h, n + 1) = StartsTo(h, n)
    <2>1. \A i : i \in 1 .. n + 1 <=> i \in 1 .. n \/ i = n + 1
      BY <1>1
    <2>2. (n + 1) - 1 = n /\ n + 1 # 1
      BY <1>1
    <2> QED
      BY <2>1, <2>2 DEF StartsTo
  <1>4. /\ s \in [1 .. L -> StartsTo(h, n)]
        /\ \A i \in StartsTo(h, n) : \E k \in 1 .. L : s[k] = i
        /\ \A k, l \in 1 .. L : k < l => s[k] < s[l]
        /\ \A k \in 1 .. L : all[k] = RunOf(h, s[k], EndOf(s, k, L, n))
        /\ Side(h, s[L]) = Side(h, n)
    BY <1>1 DEF LaidOut
  <1> HIDE DEF g, L
  <1>5. ASSUME NEW k \in 1 .. L
        PROVE  g[k] = RunOf(h, s[k], EndOf(s, k, L, n + 1))
    <2>1. CASE k < L
      <3>1. k \in 1 .. L - 1 /\ g[k] = all[k]
        BY <1>2, <2>1
      <3> QED
        BY <1>4, <2>1, <3>1 DEF EndOf
    <2>2. CASE ~(k < L)
      <3>1. k = L
        BY <1>2, <2>2
      <3>2. s[L] \in 1 .. n
        BY <1>2, <1>4 DEF StartsTo
      <3>3. all[L] = RunOf(h, s[L], n)
        BY <1>4, <2>2, <3>1 DEF EndOf
      <3>4. PnlOf(h, s[L] .. n + 1) = PnlOf(h, s[L] .. n) + t.pnl
        <4> DEFINE I == s[L] .. n
                   J == {n + 1}
        <4>1. /\ s[L] .. n + 1 = I \cup J /\ I \cap J = {}
              /\ I \in SUBSET Positions(h) /\ J \in SUBSET Positions(h) /\ n + 1 \in Positions(h)
          BY <1>1, <3>2
        <4>2. PnlOf(h, J) = t.pnl
          BY <4>1, PnlFacts
        <4> HIDE DEF I, J, t
        <4>3. PnlOf(h, I \cup J) = PnlOf(h, I) + PnlOf(h, J)
          BY <4>1, PnlFacts
        <4> QED
          BY <4>1, <4>2, <4>3 DEF I
      <3>5. n - s[L] + 1 + 1 = (n + 1) - s[L] + 1
        BY SMTT(30), <1>1, <3>2
      <3>6. /\ all[L].type = Side(h, s[L]) /\ all[L].count = n - s[L] + 1
            /\ all[L].pnl = PnlOf(h, s[L] .. n)
        BY <3>3 DEF RunOf
      <3>7. g[L] = RunOf(h, s[L], n + 1)
        BY <1>2, <3>4, <3>5, <3>6 DEF RunOf
      <3> QED
        BY <3>1, <3>7 DEF EndOf
    <2> QED
      BY <2>1, <2>2
  <1>6. g # <<>> /\ n + 1 # 0
    <2>1. g = <<>> => Len(g) = 0
      OBVIOUS
    <2> QED
      BY <1>1, <1>2, <2>1
  <1> QED
    BY <1>2, <1>3, <1>4, <1>5, <1>6 DEF LaidOut, g

\* A trade that begins one closes the last one.
LEMMA LaidMore ==
  ASSUME NEW h, Timed(h), NEW n \in 0 .. Len(h) - 1, NEW all \in Seq(StreakRecord),
         NEW s, LaidOut(h, n, all, s), n = 0 \/ Side(h, n + 1) # Side(h, n),
         ~Joins(all, h[n + 1]), Side(h, n + 1) = Streak(h[n + 1]).type
  PROVE  LaidOut(h, n + 1, Joined(all, h[n + 1]),
                 [k \in 1 .. Len(all) + 1 |-> IF k <= Len(all) THEN s[k] ELSE n + 1])
PROOF
  <1> DEFINE L == Len(all)
             t == h[n + 1]
             g == Joined(all, t)
             r == [k \in 1 .. L + 1 |-> IF k <= L THEN s[k] ELSE n + 1]
  <1>1. /\ Len(h) \in Nat /\ Positions(h) = 1 .. Len(h) /\ n + 1 \in 1 .. Len(h)
        /\ t.pnl \in Int /\ n \in Nat /\ ~Joins(all, t)
    BY TimedFacts
  <1>2. L \in Nat /\ Len(g) = L + 1 /\ (\A i \in 1 .. L : g[i] = all[i]) /\ g[L + 1] = Streak(t)
    <2> HIDE DEF t
    <2>1. L \in Nat /\ OneMore(g, all, t, L)
      BY <1>1, JoinedFacts
    <2> HIDE DEF g, L
    <2> QED
      BY <2>1 DEF OneMore
  <1>3. StartsTo(h, n + 1) = StartsTo(h, n) \cup {n + 1}
    <2>1. \A i : i \in 1 .. n + 1 <=> i \in 1 .. n \/ i = n + 1
      BY <1>1
    <2>2. (n + 1) - 1 = n /\ (n = 0 => n + 1 = 1)
      BY <1>1
    <2> QED
      BY <2>1, <2>2 DEF StartsTo
  <1>4. /\ s \in [1 .. L -> StartsTo(h, n)]
        /\ \A i \in StartsTo(h, n) : \E k \in 1 .. L : s[k] = i
        /\ \A k, l \in 1 .. L : k < l => s[k] < s[l]
        /\ \A k \in 1 .. L : all[k] = RunOf(h, s[k], EndOf(s, k, L, n))
    BY DEF LaidOut
  <1>5. \A k \in 1 .. L : s[k] \in 1 .. n
    BY <1>4 DEF StartsTo
  <1>6. \A k \in 1 .. L + 1 : k \in 1 .. L \/ (k = L + 1 /\ ~(k <= L))
    BY <1>2
  <1>7. (\A k \in 1 .. L : k \in 1 .. L + 1 /\ r[k] = s[k]) /\ r[L + 1] = n + 1 /\ L + 1 \in 1 .. L + 1
    <2>1. (\A k \in 1 .. L : k \in 1 .. L + 1 /\ k <= L) /\ L + 1 \in 1 .. L + 1 /\ ~(L + 1 <= L)
      BY <1>2
    <2> HIDE DEF L
    <2> QED
      BY <2>1
  <1> HIDE DEF g
  <1>8. r \in [1 .. L + 1 -> StartsTo(h, n + 1)]
    <2>1. r = [k \in 1 .. L + 1 |-> r[k]]
      OBVIOUS
    <2>2. \A k \in 1 .. L + 1 : r[k] \in StartsTo(h, n + 1)
      <3> HIDE DEF r, L
      <3> QED
        BY <1>3, <1>4, <1>6, <1>7
    <2> HIDE DEF r, L
    <2> QED
      BY <2>1, <2>2
  <1> HIDE DEF r, L
  <1>9. ASSUME NEW i \in StartsTo(h, n + 1)
        PROVE  \E k \in 1 .. L + 1 : r[k] = i
    BY <1>3, <1>4, <1>7
  <1>10. ASSUME NEW k \in 1 .. L + 1, NEW l \in 1 .. L + 1, k < l
         PROVE  r[k] < r[l]
    <2>1. k \in 1 .. L
      BY <1>2, <1>10
    <2>2. CASE l \in 1 .. L
      BY <1>4, <1>7, <1>10, <2>1, <2>2
    <2>3. CASE l = L + 1
      <3>1. r[k] \in 1 .. n /\ r[l] = n + 1
        BY <1>5, <1>7, <2>1, <2>3
      <3> QED
        BY <1>1, <3>1
    <2> QED
      BY <1>6, <2>2, <2>3
  <1>11. ASSUME NEW k \in 1 .. L + 1
         PROVE  g[k] = RunOf(h, r[k], EndOf(r, k, L + 1, n + 1))
    <2>1. CASE k \in 1 .. L
      <3>1. g[k] = RunOf(h, s[k], EndOf(s, k, L, n)) /\ r[k] = s[k]
        BY <1>2, <1>4, <1>7, <2>1
      <3>2. EndOf(r, k, L + 1, n + 1) = EndOf(s, k, L, n)
        <4>1. k < L + 1 /\ k \in 1 .. L
          BY <1>2, <2>1
        <4>2. CASE k < L
          <5>1. k + 1 \in 1 .. L
            BY <1>2, <4>1, <4>2
          <5> QED
            BY <1>7, <4>1, <4>2, <5>1 DEF EndOf
        <4>3. CASE ~(k < L)
          <5>1. k + 1 = L + 1 /\ (n + 1) - 1 = n
            BY <1>1, <1>2, <4>1, <4>3
          <5> QED
            BY <1>7, <4>1, <4>3, <5>1 DEF EndOf
        <4> QED
          BY <4>2, <4>3
      <3> QED
        BY <3>1, <3>2
    <2>2. CASE k = L + 1
      <3>1. EndOf(r, k, L + 1, n + 1) = n + 1 /\ r[k] = n + 1
        BY <1>2, <1>7, <2>2 DEF EndOf
      <3>2. (n + 1) .. (n + 1) = {n + 1} /\ (n + 1) - (n + 1) + 1 = 1
        BY <1>1
      <3>3. PnlOf(h, (n + 1) .. (n + 1)) = t.pnl
        BY <1>1, <3>2, PnlFacts, {} \in SUBSET Positions(h)
      <3>4. RunOf(h, n + 1, n + 1) = [type |-> Streak(t).type, count |-> 1, pnl |-> t.pnl]
        BY <3>2, <3>3 DEF RunOf
      <3>5. Streak(t) = [type |-> Streak(t).type, count |-> 1, pnl |-> t.pnl]
        BY DEF Streak
      <3> QED
        BY <1>2, <2>2, <3>1, <3>4, <3>5
    <2> QED
      BY <1>6, <2>1, <2>2
  <1>12. g # <<>> /\ n + 1 # 0
    <2>1. g = <<>> => Len(g) = 0
      OBVIOUS
    <2> QED
      BY <1>1, <1>2, <2>1
  <1>13. LaidOut(h, n + 1, g, r)
    BY <1>2, <1>7, <1>8, <1>9, <1>10, <1>11, <1>12 DEF LaidOut
  <1> QED
    BY <1>13 DEF g, r, L

\* So after every trade the loop has laid out the runs (analytics.py:264-283).
LEMMA StreaksLaid ==
  ASSUME NEW h, Timed(h)
  PROVE  \A n \in 0 .. Len(h) : \E s : LaidOut(h, n, StreaksUpTo(h)[n], s)
PROOF
  <1> DEFINE R == StreaksUpTo(h)
             P == {n \in Nat : n <= Len(h) => \E s : LaidOut(h, n, R[n], s)}
  <1>1. Len(h) \in Nat /\ \A i \in 1 .. Len(h) : h[i].pnl \in Int
    BY TimedFacts
  <1>2. /\ R[0] = <<>> /\ \A n \in 1 .. Len(h) : R[n] = Joined(R[n - 1], h[n])
        /\ \A n \in 0 .. Len(h) : R[n] \in Seq(StreakRecord)
    BY StreakLoop
  <1>3. 0 \in P
    <2>1. LaidOut(h, 0, <<>>, <<>>)
      BY EmptySeq DEF LaidOut, StartsTo
    <2> QED
      BY <1>2, <2>1
  <1> HIDE DEF R
  <1>4. ASSUME NEW n \in Nat, n \in P
        PROVE  n + 1 \in P
    <2> SUFFICES ASSUME n + 1 <= Len(h) PROVE \E s : LaidOut(h, n + 1, R[n + 1], s)
      OBVIOUS
    <2> DEFINE all == R[n]
               t == h[n + 1]
    <2>1. PICK s : LaidOut(h, n, all, s)
      BY <1>4
    <2>2. /\ n + 1 \in 1 .. Len(h) /\ (n + 1) - 1 = n /\ n \in 0 .. Len(h) - 1 /\ n \in 0 .. Len(h)
          /\ (n > 0 => n \in 1 .. Len(h) - 1 /\ n \in 1 .. Len(h)) /\ (n + 1 = 1 <=> n = 0)
      BY <1>1
    <2>3. all \in Seq(StreakRecord) /\ R[n + 1] = Joined(all, t) /\ t.pnl \in Int
      BY <1>1, <1>2, <2>2
    <2>4. Side(h, n + 1) = IF t.pnl > 0 THEN "win"
                           ELSE IF t.pnl < 0 \/ n = 0 THEN "loss" ELSE Side(h, n)
      BY <2>2, SideFacts
    <2>5. n > 0 => Side(h, n) \in {"win", "loss"}
      BY <2>2, SideFacts
    <2>6. all = <<>> <=> n = 0
      BY <2>1 DEF LaidOut
    <2>7. n > 0 => all[Len(all)].type = Side(h, n)
      <3> SUFFICES ASSUME n > 0 PROVE all[Len(all)].type = Side(h, n)
        OBVIOUS
      <3>1. Len(all) \in 1 .. Len(all)
        BY <2>3, <2>6, EmptySeq
      <3>2. all[Len(all)] = RunOf(h, s[Len(all)], EndOf(s, Len(all), Len(all), n))
        BY <2>1, <3>1 DEF LaidOut
      <3>3. Side(h, s[Len(all)]) = Side(h, n)
        BY <2>1 DEF LaidOut
      <3> QED
        BY <3>2, <3>3 DEF RunOf
    <2>8. Streak(t).type = IF t.pnl > 0 THEN "win" ELSE "loss"
      BY DEF Streak
    <2>9. Joins(all, t) <=> n > 0 /\ Side(h, n + 1) = Side(h, n)
      <3>1. Joins(all, t) <=> n > 0 /\ (t.pnl = 0 \/ Streak(t).type = Side(h, n))
        BY <2>6, <2>7 DEF Joins, Last
      <3> HIDE DEF all, t
      <3>2. CASE t.pnl = 0
        BY <2>4, <3>1, <3>2
      <3>3. CASE t.pnl > 0
        BY <2>4, <2>8, <3>1, <3>3
      <3>4. CASE t.pnl < 0
        BY <2>4, <2>8, <3>1, <3>4
      <3> QED
        BY <2>3, <3>2, <3>3, <3>4
    <2>10. CASE Joins(all, t)
      <3>1. LaidOut(h, n + 1, Joined(all, t), s)
        BY <2>1, <2>2, <2>3, <2>9, <2>10, LaidLonger
      <3> QED
        BY <2>3, <3>1
    <2>11. CASE ~Joins(all, t)
      <3>1. n = 0 \/ Side(h, n + 1) # Side(h, n)
        BY <2>9, <2>11
      <3>2. Side(h, n + 1) = Streak(t).type
        <4> HIDE DEF all, t
        <4>1. CASE n = 0
          BY <2>3, <2>4, <2>8, <4>1
        <4>2. CASE n # 0
          BY <2>3, <2>4, <2>8, <3>1, <4>2
        <4> QED
          BY <4>1, <4>2
      <3>3. \E r : LaidOut(h, n + 1, Joined(all, t), r)
        BY <2>1, <2>2, <2>3, <2>11, <3>1, <3>2, LaidMore
      <3> QED
        BY <2>3, <3>3
    <2> QED
      BY <2>10, <2>11
  <1> HIDE DEF P
  <1>5. \A n \in 0 .. Len(h) : n \in P
    BY <1>3, <1>4, NatsByInduction
  <1> QED
    BY <1>1, <1>5 DEF P, R

\* A run ends where the next one starts, so the streaks are the maximal runs.
LEMMA StreaksAreRuns ==
  ASSUME NEW h, Timed(h)
  PROVE  LET starts == Ascending(Starts(h)) IN
         Streaks(h) = [k \in DOMAIN starts |-> RunFrom(h, starts[k])]
PROOF
  <1> DEFINE all == Streaks(h)
             L == Len(all)
             N == Len(h)
             T == Starts(h)
  <1>1. N \in Nat /\ Positions(h) = 1 .. N
    BY TimedFacts
  <1>2. PICK s : LaidOut(h, N, all, s)
    BY <1>1, StreaksLaid DEF Streaks
  <1>3. all \in Seq(StreakRecord)
    BY <1>1, StreakLoop DEF Streaks
  <1>4. L \in Nat /\ all = [k \in 1 .. L |-> all[k]]
    BY <1>3, LenProperties
  <1>5. T = StartsTo(h, N) /\ T \in SUBSET (1 .. N)
    BY <1>1 DEF Starts, StartsTo
  <1> HIDE DEF T, all, L, N
  <1>6. /\ s \in [1 .. L -> T] /\ (\A i \in T : \E k \in 1 .. L : s[k] = i)
        /\ \A k, l \in 1 .. L : k < l => s[k] < s[l]
        /\ \A k \in 1 .. L : all[k] = RunOf(h, s[k], EndOf(s, k, L, N))
    BY <1>2, <1>5 DEF LaidOut, L
  <1>7. Ascending(T) = s
    <2>1. T \in SUBSET Int
      BY <1>1, <1>5
    <2> QED
      BY <1>4, <1>6, <2>1, AscendingIs
  <1>8. ASSUME NEW k \in 1 .. L
        PROVE  all[k] = RunFrom(h, s[k])
    <2> DEFINE ends == {j - 1 : j \in {i \in T : i > s[k]}} \cup {N}
               e == EndOf(s, k, L, N)
    <2>1. s[k] \in 1 .. N /\ \A i \in T : i \in 1 .. N
      BY <1>5, <1>6
    <2>2. ends \in SUBSET Int
      BY <1>1, <2>1
    <2>3. e \in ends /\ \A x \in ends : e <= x
      <3>1. CASE k < L
        <4>1. k + 1 \in 1 .. L /\ k < k + 1
          BY <1>4, <3>1
        <4>2. s[k + 1] \in T /\ s[k + 1] > s[k] /\ e = s[k + 1] - 1
          BY <1>6, <2>1, <3>1, <4>1 DEF EndOf
        <4>3. ASSUME NEW i \in T, i > s[k]
              PROVE  s[k + 1] - 1 <= i - 1
          <5>1. PICK m \in 1 .. L : s[m] = i
            BY <1>6
          <5>2. ~(m < k) /\ m # k
            <6>1. s[k] \in Int /\ i \in Int
              BY <2>1
            <6>2. m < k => i < s[k]
              BY <1>6, <5>1
            <6> QED
              BY <4>3, <5>1, <6>1, <6>2
          <5>3. m = k + 1 \/ k + 1 < m
            BY <1>4, <5>2
          <5>4. s[k + 1] <= i
            <6>1. i \in Int /\ s[k + 1] \in Int
              BY <2>1, <4>2
            <6>2. k + 1 < m => s[k + 1] < i
              BY <1>6, <4>1, <5>1
            <6> QED
              BY <5>1, <5>3, <6>1, <6>2
          <5> QED
            BY <2>1, <4>2, <5>4
        <4>4. s[k + 1] - 1 <= N
          BY <1>1, <2>1, <4>2
        <4> HIDE DEF e
        <4> QED
          BY <4>2, <4>3, <4>4
      <3>2. CASE ~(k < L)
        <4>1. k = L /\ e = N
          BY <1>4, <3>2 DEF EndOf
        <4>2. ASSUME NEW i \in T, i > s[k]
              PROVE  FALSE
          <5>1. PICK m \in 1 .. L : s[m] = i
            BY <1>6
          <5>2. m < k \/ m = k
            BY <1>4, <4>1
          <5>3. s[k] \in Int /\ i \in Int /\ (m < k => i < s[k])
            BY <1>6, <2>1, <5>1
          <5> QED
            BY <4>2, <5>1, <5>2, <5>3
        <4> HIDE DEF e
        <4> QED
          BY <1>1, <4>1, <4>2
      <3> QED
        BY <3>1, <3>2
    <2> HIDE DEF ends, e
    <2>4. Min(ends) = e
      BY <2>2, <2>3, MinIs
    <2>5. RunFrom(h, s[k]) = [type |-> Side(h, s[k]), count |-> e - s[k] + 1,
                              pnl |-> PnlOf(h, s[k] .. e)]
      BY <2>4 DEF RunFrom, ends, T, N
    <2> QED
      BY <1>6, <2>5 DEF RunOf, e
  <1>9. all = [k \in 1 .. L |-> RunFrom(h, s[k])]
    BY <1>4, <1>8
  <1>10. DOMAIN s = 1 .. L
    BY <1>6
  <1> QED
    BY <1>7, <1>9, <1>10 DEF all, T

-----------------------------------------------------------------------------
(* Runs of losses.                                                         *)

\* Consecutive losses are counted trade by trade, wherever the count is read.
LEMMA LossesLoop ==
  ASSUME NEW h, Timed(h)
  PROVE  /\ LossesUpTo(h, 0) = 0
         /\ \A i \in 0 .. Len(h) : LossesUpTo(h, i) \in Nat
         /\ \A i \in 1 .. Len(h) :
               LossesUpTo(h, i) = IF h[i].pnl >= 0 THEN 0 ELSE LossesUpTo(h, i - 1) + 1
PROOF
  <1> DEFINE N == Len(h)
             Up(g, k) == IF k = 0 \/ h[k].pnl >= 0 THEN 0 ELSE g[k - 1] + 1
             F == [p \in (1 .. N) \X Nat |-> IF h[p[1]].pnl >= 0 THEN 0 ELSE p[2] + 1]
  <1>1. N \in Nat
    BY TimedFacts
  <1>2. \A k \in 1 .. N, v \in Nat : F[<<k, v>>] = IF h[k].pnl >= 0 THEN 0 ELSE v + 1
    OBVIOUS
  <1> HIDE DEF F, N
  <1>3. LoopSteps(N, Nat, F)
    <2>1. ASSUME NEW k \in 1 .. N, NEW v \in Nat
          PROVE  F[<<k, v>>] \in Nat
      <3>1. F[<<k, v>>] = IF h[k].pnl >= 0 THEN 0 ELSE v + 1
        BY <1>2
      <3>2. 0 \in Nat /\ v + 1 \in Nat
        OBVIOUS
      <3> QED
        BY <3>1, <3>2
    <2> QED
      BY <2>1 DEF LoopSteps
  <1>4. PICK f : f \in [0 .. N -> Nat] /\ f[0] = 0 /\ \A k \in 1 .. N : f[k] = F[<<k, f[k - 1]>>]
    <2>1. 0 \in Nat
      OBVIOUS
    <2>2. \E f : LoopRun(N, Nat, 0, F, f)
      BY <1>1, <1>3, <2>1, LoopRuns
    <2> QED
      BY <2>2 DEF LoopRun
  <1>5. \A k \in 0 .. N : f[k] = Up(f, k)
    <2> SUFFICES ASSUME NEW k \in 0 .. N PROVE f[k] = Up(f, k)
      OBVIOUS
    <2>1. k = 0 \/ (k \in 1 .. N /\ k # 0 /\ k - 1 \in 0 .. N)
      BY <1>1
    <2>2. CASE k = 0
      BY <1>4, <2>2
    <2>3. CASE k \in 1 .. N /\ k # 0 /\ k - 1 \in 0 .. N
      <3>1. f[k] = F[<<k, f[k - 1]>>]
        BY <1>4, <2>3
      <3> QED
        BY <1>2, <1>4, <2>3, <3>1
    <2> QED
      BY <2>1, <2>2, <2>3
  <1>6. ASSUME NEW i \in 0 .. N
        PROVE  LossesUpTo(h, i) = f[i]
    <2> DEFINE R == CHOOSE g : g = [k \in 0 .. i |-> Up(g, k)]
               g0 == [k \in 0 .. i |-> f[k]]
    <2>1. i \in Nat /\ \A k \in 0 .. i : k \in 0 .. N /\ (k # 0 => k - 1 \in 0 .. i)
      BY <1>1
    <2>2. g0 = [k \in 0 .. i |-> Up(g0, k)]
      <3>1. \A k \in 0 .. i : k # 0 => g0[k - 1] = f[k - 1]
        BY <2>1
      <3>2. \A k \in 0 .. i : g0[k] = Up(g0, k)
        BY <1>5, <2>1, <3>1
      <3> HIDE DEF Up
      <3> QED
        BY <3>2
    <2>3. R = [k \in 0 .. i |-> Up(R, k)]
      <3> HIDE DEF Up, g0
      <3> QED
        BY <2>2
    <2>4. \A k \in 0 .. i : R[k] = Up(R, k)
      <3> HIDE DEF Up, R
      <3> QED
        BY <2>3
    <2>5. LossesUpTo(h, i) = R[i]
      BY DEF LossesUpTo
    <2> HIDE DEF R, g0
    <2> DEFINE P == {k \in Nat : k <= i => R[k] = f[k]}
    <2>6. 0 \in P
      <3>1. R[0] = 0 /\ f[0] = 0
        BY <1>4, <2>1, <2>4
      <3> QED
        BY <3>1
    <2>7. ASSUME NEW k \in Nat, k \in P
          PROVE  k + 1 \in P
      <3> SUFFICES ASSUME k + 1 <= i PROVE R[k + 1] = f[k + 1]
        OBVIOUS
      <3>1. k + 1 \in 0 .. i /\ k + 1 # 0 /\ (k + 1) - 1 = k /\ k + 1 \in 0 .. N /\ k <= i
        BY <1>1, <2>1
      <3>2. R[k + 1] = IF h[k + 1].pnl >= 0 THEN 0 ELSE R[k] + 1
        BY <2>4, <3>1
      <3>3. f[k + 1] = IF h[k + 1].pnl >= 0 THEN 0 ELSE f[k] + 1
        BY <1>5, <3>1
      <3> QED
        BY <2>7, <3>1, <3>2, <3>3
    <2> HIDE DEF P
    <2>8. i \in P
      BY <2>1, <2>6, <2>7, NatsByInduction
    <2> QED
      BY <2>1, <2>5, <2>8 DEF P
  <1>7. 0 \in 0 .. N /\ \A i \in 1 .. N : i \in 0 .. N /\ i - 1 \in 0 .. N /\ i # 0
    BY <1>1
  <1>8. \A i \in 1 .. N : LossesUpTo(h, i) = IF h[i].pnl >= 0 THEN 0 ELSE LossesUpTo(h, i - 1) + 1
    BY <1>5, <1>6, <1>7
  <1> QED
    BY <1>4, <1>6, <1>7, <1>8 DEF N

\* Losses in a row are in one losing streak.
LEMMA LossesInStreaks ==
  ASSUME NEW h, Timed(h), NEW i \in 1 .. Len(h)
  PROVE  \/ LossesUpTo(h, i) = 0
         \/ \E k \in 1 .. Len(Streaks(h)) : /\ Streaks(h)[k].type = "loss"
                                            /\ LossesUpTo(h, i) <= Streaks(h)[k].count
PROOF
  <1> DEFINE R == StreaksUpTo(h)
             N == Len(h)
             Counted(j, n) ==
                \/ LossesUpTo(h, j) = 0
                \/ \E k \in 1 .. Len(R[n]) : R[n][k].type = "loss" /\ LossesUpTo(h, j) <= R[n][k].count
             Current(n) == LET L == Len(R[n]) IN
                           L > 0 /\ R[n][L].type = "loss" /\ LossesUpTo(h, n) <= R[n][L].count
             Good(n) == /\ \A j \in 1 .. n : Counted(j, n)
                        /\ LossesUpTo(h, n) = 0 \/ Current(n)
             P == {n \in Nat : n <= N => Good(n)}
  <1>1. N \in Nat /\ \A j \in 1 .. N : h[j].pnl \in Int
    BY TimedFacts
  <1>2. /\ R[0] = <<>> /\ \A n \in 1 .. N : R[n] = Joined(R[n - 1], h[n])
        /\ \A n \in 0 .. N : R[n] \in Seq(StreakRecord)
    BY StreakLoop
  <1>3. /\ LossesUpTo(h, 0) = 0
        /\ \A j \in 0 .. N : LossesUpTo(h, j) \in Nat
        /\ \A j \in 1 .. N :
              LossesUpTo(h, j) = IF h[j].pnl >= 0 THEN 0 ELSE LossesUpTo(h, j - 1) + 1
    BY LossesLoop
  <1> HIDE DEF R, N
  <1>4. 0 \in P
    BY <1>3
  <1>5. ASSUME NEW n \in Nat, n \in P
        PROVE  n + 1 \in P
    <2> SUFFICES ASSUME n + 1 <= N PROVE Good(n + 1)
      OBVIOUS
    <2> DEFINE all == R[n]
               L == Len(all)
               t == h[n + 1]
               g == R[n + 1]
    <2>1. n + 1 \in 1 .. N /\ (n + 1) - 1 = n /\ n \in 0 .. N /\ Good(n)
      BY <1>1, <1>5
    <2>2. all \in Seq(StreakRecord) /\ t.pnl \in Int /\ g = Joined(all, t)
      BY <1>1, <1>2, <2>1
    <2>3. LossesUpTo(h, n + 1) = IF t.pnl >= 0 THEN 0 ELSE LossesUpTo(h, n) + 1
      BY <1>3, <2>1
    <2>4. LossesUpTo(h, n) \in Nat /\ LossesUpTo(h, n + 1) \in Nat
          /\ \A j \in 1 .. n : LossesUpTo(h, j) \in Nat
      <3>1. n + 1 \in 0 .. N /\ \A j \in 1 .. n : j \in 0 .. N
        BY <1>1, <2>1
      <3> QED
        BY <1>3, <2>1, <3>1
    <2>5. LossesUpTo(h, n) = 0 \/ (L > 0 /\ all[L].type = "loss" /\ LossesUpTo(h, n) <= all[L].count)
      BY <2>1
    <2>6. \A j \in 1 .. n : \/ LossesUpTo(h, j) = 0
                            \/ \E k \in 1 .. L : /\ all[k].type = "loss"
                                                 /\ LossesUpTo(h, j) <= all[k].count
      BY <2>1
    <2>7. \A k \in 1 .. L : all[k].count \in Nat
      <3>1. \A k \in 1 .. L : all[k] \in StreakRecord
        BY <2>2, ElementOfSeq
      <3> QED
        BY <3>1 DEF StreakRecord
    <2> HIDE DEF all, t, g
    <2>8. \A j : j \in 1 .. n + 1 <=> j \in 1 .. n \/ j = n + 1
      BY <2>1
    <2>9. CASE Joins(all, t)
      <3>1. /\ L \in Nat /\ L > 0 /\ Len(g) = L /\ (\A k \in 1 .. L - 1 : g[k] = all[k])
            /\ g[L].type = all[L].type /\ g[L].count = all[L].count + 1
        <4>1. /\ L \in Nat /\ L > 0 /\ Len(g) = L /\ (\A k \in 1 .. L - 1 : g[k] = all[k])
              /\ g[L] = [type |-> all[L].type, count |-> all[L].count + 1, pnl |-> all[L].pnl + t.pnl]
          <5>1. L \in Nat /\ Longer(g, all, t, L)
            BY <2>2, <2>9, JoinedFacts DEF g
          <5> QED
            BY <5>1 DEF Longer
        <4> QED
          BY <4>1
      <3>2. L \in 1 .. L /\ \A k \in 1 .. L : k = L \/ k \in 1 .. L - 1
        BY <3>1
      <3>3. \A k \in 1 .. L : g[k].type = all[k].type /\ all[k].count <= g[k].count /\ g[k].count \in Nat
        BY SMTT(30), <2>7, <3>1, <3>2
      <3>4. LossesUpTo(h, n + 1) = 0 \/ (g[L].type = "loss" /\ LossesUpTo(h, n + 1) <= g[L].count)
        <4>1. CASE t.pnl >= 0
          BY <2>3, <4>1
        <4>2. CASE ~(t.pnl >= 0)
          <5>1. Streak(t).type = "loss" /\ t.pnl # 0
            BY <2>2, <4>2 DEF Streak
          <5>2. all[L].type = "loss"
            BY <2>9, <5>1 DEF Joins, Last
          <5>3. LossesUpTo(h, n) <= all[L].count /\ all[L].count \in Nat
            BY <2>4, <2>5, <2>7, <3>2
          <5> QED
            BY <2>3, <2>4, <3>1, <4>2, <5>2, <5>3
        <4> QED
          BY <4>1, <4>2
      <3>5. ASSUME NEW j \in 1 .. n
            PROVE  \/ LossesUpTo(h, j) = 0
                   \/ \E k \in 1 .. L : g[k].type = "loss" /\ LossesUpTo(h, j) <= g[k].count
        <4> SUFFICES ASSUME LossesUpTo(h, j) # 0
                     PROVE  \E k \in 1 .. L : g[k].type = "loss" /\ LossesUpTo(h, j) <= g[k].count
          OBVIOUS
        <4>1. PICK k \in 1 .. L : all[k].type = "loss" /\ LossesUpTo(h, j) <= all[k].count
          BY <2>6
        <4>2. /\ LossesUpTo(h, j) \in Nat /\ all[k].count \in Nat /\ g[k].count \in Nat
              /\ all[k].count <= g[k].count /\ g[k].type = "loss"
          BY <2>4, <2>7, <3>3, <4>1
        <4>3. LossesUpTo(h, j) <= g[k].count
          BY <4>1, <4>2
        <4> QED
          BY <4>2, <4>3
      <3> QED
        BY <2>8, <3>1, <3>2, <3>4, <3>5 DEF g
    <2>10. CASE ~Joins(all, t)
      <3>1. /\ L \in Nat /\ Len(g) = L + 1 /\ (\A k \in 1 .. L : g[k] = all[k])
            /\ g[L + 1] = Streak(t)
        <4>1. L \in Nat /\ OneMore(g, all, t, L)
          BY <2>2, <2>10, JoinedFacts DEF g
        <4> QED
          BY <4>1 DEF OneMore
      <3>2. L + 1 \in 1 .. L + 1 /\ \A k \in 1 .. L : k \in 1 .. L + 1
        BY <3>1
      <3>3. LossesUpTo(h, n + 1) = 0
            \/ (g[L + 1].type = "loss" /\ LossesUpTo(h, n + 1) <= g[L + 1].count)
        <4>1. CASE t.pnl >= 0
          BY <2>3, <4>1
        <4>2. CASE ~(t.pnl >= 0)
          <5>1. Streak(t).type = "loss" /\ Streak(t).count = 1
            BY <2>2, <4>2 DEF Streak
          <5>2. LossesUpTo(h, n) = 0
            <6>1. ~(L > 0 /\ all[L].type = "loss")
              BY <2>10, <3>1, <5>1 DEF Joins, Last
            <6> QED
              BY <2>5, <6>1
          <5> QED
            BY <2>3, <3>1, <4>2, <5>1, <5>2
        <4> QED
          BY <4>1, <4>2
      <3>4. ASSUME NEW j \in 1 .. n
            PROVE  \/ LossesUpTo(h, j) = 0
                   \/ \E k \in 1 .. L + 1 : g[k].type = "loss" /\ LossesUpTo(h, j) <= g[k].count
        BY <2>6, <3>1, <3>2
      <3> QED
        BY <2>8, <3>1, <3>2, <3>3, <3>4 DEF g
    <2> QED
      BY <2>9, <2>10
  <1> HIDE DEF P
  <1>6. N \in P
    BY <1>1, <1>4, <1>5, NatsByInduction
  <1>7. Good(N)
    BY <1>1, <1>6 DEF P
  <1>8. R[N] = Streaks(h)
    BY DEF R, N, Streaks
  <1> QED
    BY <1>7, <1>8 DEF N

\* The longest run of losses is no longer than the longest losing streak.
LEMMA LossesBounded ==
  ASSUME NEW h, Timed(h), NEW z
  PROVE  RiskMetrics(h, z).losses <= LongestStreak(h, "loss")
PROOF
  <1> DEFINE all == Streaks(h)
             A == {0} \cup {LossesUpTo(h, i) : i \in Positions(h)}
             B == {0} \cup {s.count : s \in {r \in ToSet(all) : r.type = "loss"}}
  <1>1. Len(h) \in Nat /\ Positions(h) = 1 .. Len(h)
    BY TimedFacts
  <1>2. all \in Seq(StreakRecord) /\ Len(all) \in Nat /\ DOMAIN all = 1 .. Len(all)
    BY <1>1, StreakLoop, LenProperties DEF Streaks
  <1> HIDE DEF all
  <1>3. \A k \in 1 .. Len(all) : all[k].count \in Nat
    <2>1. \A k \in 1 .. Len(all) : all[k] \in StreakRecord
      BY <1>2, ElementOfSeq
    <2> QED
      BY <2>1 DEF StreakRecord
  <1>4. \A k \in 1 .. Len(all) : all[k].type = "loss" => all[k].count \in B
    BY <1>2 DEF ToSet
  <1>5. \A x \in B : x = 0 \/ \E k \in 1 .. Len(all) : x = all[k].count
    BY <1>2 DEF ToSet
  <1>6. RiskMetrics(h, z).losses = Max(A) /\ LongestStreak(h, "loss") = Max(B)
    BY DEF RiskMetrics, LongestStreak, all
  <1>7. \A x \in A : x \in Nat /\ \E y \in B : x <= y
    <2> SUFFICES ASSUME NEW x \in A PROVE x \in Nat /\ \E y \in B : x <= y
      OBVIOUS
    <2>1. CASE x = 0
      BY <2>1
    <2>2. CASE x # 0
      <3>1. PICK i \in 1 .. Len(h) : x = LossesUpTo(h, i)
        BY <1>1, <2>2
      <3>2. i \in 0 .. Len(h)
        BY <1>1
      <3>3. PICK k \in 1 .. Len(all) : all[k].type = "loss" /\ x <= all[k].count
        BY <2>2, <3>1, LossesInStreaks DEF all
      <3> HIDE DEF B
      <3> QED
        BY <1>4, <3>1, <3>2, <3>3, LossesLoop
    <2> QED
      BY <2>1, <2>2
  <1>8. PICK u \in Nat : \A x \in B : x <= u
    <2> DEFINE count == [k \in 1 .. Len(all) |-> all[k].count]
    <2>1. \A k \in 1 .. Len(all) : count[k] = all[k].count /\ count[k] \in Int
      BY <1>3
    <2> HIDE DEF count
    <2>2. PICK u \in Nat : \A k \in 1 .. Len(all) : count[k] <= u
      BY <1>2, <2>1, TermsBounded
    <2>3. \A x \in B : x <= u
      <3> HIDE DEF B
      <3> QED
        BY <1>5, <2>1, <2>2
    <2> QED
      BY <2>3
  <1>9. B \subseteq Nat /\ B # {} /\ A # {}
    <2>1. B # {} /\ A # {}
      OBVIOUS
    <2> HIDE DEF B
    <2> QED
      BY <1>3, <1>5, <2>1
  <1> HIDE DEF A, B
  <1>10. Max(B) \in B /\ \A x \in B : x <= Max(B)
    <2>1. B \in SUBSET Int /\ u \in Int
      BY <1>8, <1>9
    <2> QED
      BY <1>8, <1>9, <2>1, MaxOfBounded
  <1>11. \A x \in A : x <= u
    <2> SUFFICES ASSUME NEW x \in A PROVE x <= u
      OBVIOUS
    <2>1. PICK y \in B : x <= y
      BY <1>7
    <2>2. x \in Nat /\ y \in Nat /\ y <= u
      BY <1>7, <1>8, <1>9
    <2> QED
      BY <2>1, <2>2
  <1>12. Max(A) \in A
    <2>1. A \in SUBSET Int /\ u \in Int
      BY <1>7
    <2> QED
      BY <1>9, <1>11, <2>1, MaxOfBounded
  <1>13. PICK y \in B : Max(A) <= y
    BY <1>7, <1>12
  <1>14. Max(A) \in Nat /\ y \in Nat /\ Max(B) \in Nat /\ y <= Max(B)
    BY <1>7, <1>9, <1>10, <1>12
  <1>15. Max(A) <= Max(B)
    BY <1>13, <1>14
  <1> QED
    BY <1>6, <1>15

-----------------------------------------------------------------------------
(* The daily curve and its drawdowns: after each point the scan knows the  *)
(* last high, the first day and the least sum below it, and has on record  *)
(* what lies between earlier highs.                                        *)

\* The local days of trades in time order never go back.
LEMMA DaysGoOn ==
  ASSUME NEW h, Timed(h), NEW z \in Int
  PROVE  /\ DayOf(h, z) \in [1 .. Len(h) -> Int]
         /\ \A i \in 1 .. Len(h) : DayOf(h, z)[i] = LocalDay(h[i], z) /\ LocalDay(h[i], z) \in Int
         /\ \A i, j \in 1 .. Len(h) : i <= j => LocalDay(h[i], z) <= LocalDay(h[j], z)
PROOF
  <1>1. /\ Len(h) \in Nat /\ Positions(h) = 1 .. Len(h)
        /\ \A i \in 1 .. Len(h) : h[i].at \in Nat
        /\ \A i, j \in 1 .. Len(h) : i < j => h[i].at <= h[j].at
    BY TimedFacts
  <1>2. \A i \in 1 .. Len(h) : LocalDay(h[i], z) \in Int
    BY <1>1 DEF LocalDay
  <1>3. ASSUME NEW i \in 1 .. Len(h), NEW j \in 1 .. Len(h), i <= j
        PROVE  LocalDay(h[i], z) <= LocalDay(h[j], z)
    <2> DEFINE a == h[i].at
               b == h[j].at
    <2>1. a \in Nat /\ b \in Nat /\ a <= b
      <3>1. i = j \/ i < j
        BY <1>1, <1>3
      <3> QED
        BY <1>1, <3>1
    <2> HIDE DEF a, b
    <2>2. (a + 60 * z) \div 1440 <= (b + 60 * z) \div 1440
      BY <2>1
    <2> QED
      BY <2>2 DEF LocalDay, a, b
  <1> QED
    BY <1>1, <1>2, <1>3 DEF DayOf

\* The last trades of the days, and the point of the curve at one.
LastOnes(h, z) ==
    {i \in 1 .. Len(h) : i = Len(h) \/ LocalDay(h[i + 1], z) # LocalDay(h[i], z)}
PointAt(h, z, i) == [day |-> LocalDay(h[i], z), pnl |-> PnlOf(h, 1 .. i)]

\* The daily curve has one point for each of them.
LEMMA CurveIs ==
  ASSUME NEW h, Timed(h), NEW z \in Int
  PROVE  LET a == Ascending(LastOnes(h, z)) IN
         DailyCloses(h, z) = [k \in DOMAIN a |-> PointAt(h, z, a[k])]
PROOF
  <1> DEFINE N == Len(h)
             D == DayOf(h, z)
             I == {i \in DOMAIN D : \A j \in DOMAIN D : j < i => D[j] # D[i]}
             order == Ascending(I)
             M == Cardinality(I)
             Class(d) == {i \in DOMAIN D : D[i] = d}
             last == [k \in 1 .. M |-> Max(Class(D[order[k]]))]
             E == LastOnes(h, z)
  <1>1. N \in Nat /\ Positions(h) = 1 .. N /\ DOMAIN h = 1 .. N
    BY TimedFacts
  <1>2. /\ DOMAIN D = 1 .. N /\ \A i \in 1 .. N : D[i] \in Int /\ D[i] = LocalDay(h[i], z)
        /\ \A i, j \in 1 .. N : i <= j => D[i] <= D[j]
    BY DaysGoOn
  <1>3. E = {i \in 1 .. N : i = N \/ D[i + 1] # D[i]}
    <2>1. ASSUME NEW i \in 1 .. N, i # N
          PROVE  i + 1 \in 1 .. N
      <3> HIDE DEF N
      <3> QED
        BY <1>1, <2>1
    <2> QED
      BY <1>2, <2>1 DEF LastOnes
  <1> HIDE DEF D, N, E
  <1>4. I \in SUBSET (1 .. N) /\ I \in SUBSET Int /\ IsFiniteSet(I)
    <2>1. I \in SUBSET (1 .. N)
      BY <1>2
    <2> HIDE DEF I
    <2>2. IsFiniteSet(1 .. N)
      BY <1>1, FS_Interval
    <2>3. I \in SUBSET Int
      BY <1>1, <2>1
    <2> QED
      BY <2>1, <2>2, <2>3, FS_Subset
  <1>5. \A i \in I, j \in 1 .. N : j < i => D[j] # D[i]
    BY <1>2
  <1>6. \A i \in 1 .. N : (\A j \in 1 .. N : j < i => D[j] # D[i]) => i \in I
    BY <1>2
  <1> HIDE DEF I
  <1>7. /\ M \in Nat /\ DOMAIN order = 1 .. M
        /\ \A n \in 1 .. M : order[n] \in I
        /\ \A k \in I : \E n \in 1 .. M : order[n] = k
        /\ \A m, n \in 1 .. M : m < n <=> order[m] < order[n]
    <2>1. Enumerates(order, I, M)
      BY <1>4, AscendingFacts
    <2> HIDE DEF order, M
    <2> QED
      BY <2>1 DEF Enumerates
  <1> HIDE DEF order, M
  <1>8. ASSUME NEW d, NEW i \in 1 .. N, D[i] = d
        PROVE  /\ Max(Class(d)) \in 1 .. N /\ D[Max(Class(d))] = d
               /\ \A j \in 1 .. N : D[j] = d => j <= Max(Class(d))
    <2> DEFINE C == Class(d)
    <2>1. C \in SUBSET Int /\ C # {} /\ N \in Int /\ (\A x \in C : x <= N) /\ C \subseteq 1 .. N
      BY <1>1, <1>2, <1>8
    <2>2. (\A j \in 1 .. N : D[j] = d => j \in C) /\ \A j \in C : D[j] = d
      BY <1>2
    <2> HIDE DEF C
    <2>3. Max(C) \in C /\ \A x \in C : x <= Max(C)
      BY <2>1, MaxOfBounded
    <2> QED
      BY <2>1, <2>2, <2>3 DEF C
  <1> HIDE DEF Class
  <1>9. ASSUME NEW k \in 1 .. M
        PROVE  /\ order[k] \in 1 .. N /\ last[k] \in 1 .. N /\ D[last[k]] = D[order[k]]
               /\ \A j \in 1 .. N : D[j] = D[order[k]] => j <= last[k]
               /\ last[k] = Max(Class(D[order[k]]))
    <2>1. order[k] \in 1 .. N
      BY <1>4, <1>7
    <2>2. last[k] = Max(Class(D[order[k]]))
      OBVIOUS
    <2> HIDE DEF last
    <2> QED
      BY <1>8, <2>1, <2>2
  <1>10. last = [k \in 1 .. M |-> last[k]]
    OBVIOUS
  <1> HIDE DEF last
  <1>11. ASSUME NEW k \in 1 .. M
         PROVE  last[k] \in E
    <2>1. last[k] \in 1 .. N /\ (last[k] # N => last[k] + 1 \in 1 .. N) /\ ~(last[k] + 1 <= last[k])
      BY <1>1, <1>9
    <2> QED
      BY <1>3, <1>9, <2>1
  <1>12. last \in [1 .. M -> E]
    BY <1>10, <1>11
  <1>13. ASSUME NEW e \in E
         PROVE  \E k \in 1 .. M : last[k] = e
    <2> DEFINE C == {i \in 1 .. N : D[i] = D[e]}
    <2>1. e \in 1 .. N /\ (e = N \/ D[e + 1] # D[e])
      BY <1>3
    <2>2. C \in SUBSET Nat /\ C # {}
      BY <1>1, <2>1
    <2>3. PICK m \in C : \A x \in C : m <= x
      <3> HIDE DEF C
      <3> QED
        BY <2>2, LeastOfNats
    <2>4. m \in 1 .. N /\ D[m] = D[e]
      OBVIOUS
    <2>5. ASSUME NEW j \in 1 .. N, j < m
          PROVE  D[j] # D[m]
      <3>1. ~(m <= j)
        BY <1>1, <2>4, <2>5
      <3> QED
        BY <2>3, <2>4, <3>1
    <2>6. PICK k \in 1 .. M : order[k] = m
      BY <1>6, <1>7, <2>4, <2>5
    <2>7. e <= last[k] /\ last[k] \in 1 .. N /\ D[last[k]] = D[e]
      BY <1>9, <2>1, <2>4, <2>6
    <2>8. CASE last[k] = e
      BY <2>8
    <2>9. CASE last[k] # e
      <3>1. e + 1 \in 1 .. N /\ e + 1 <= last[k] /\ e <= e + 1 /\ e # N
        BY <1>1, <2>1, <2>7, <2>9
      <3>2. D[e] <= D[e + 1] /\ D[e + 1] <= D[last[k]] /\ D[e] \in Int /\ D[e + 1] \in Int
        BY <1>2, <2>1, <2>7, <3>1
      <3>3. D[e + 1] = D[e]
        BY <2>7, <3>2
      <3> QED
        BY <2>1, <3>1, <3>3
    <2> QED
      BY <2>8, <2>9
  <1>14. ASSUME NEW k \in 1 .. M, NEW l \in 1 .. M, k < l
         PROVE  last[k] < last[l]
    <2>1. order[k] < order[l] /\ order[k] \in 1 .. N /\ order[l] \in 1 .. N /\ order[l] \in I
      BY <1>7, <1>9, <1>14
    <2>2. D[order[k]] <= D[order[l]] /\ D[order[k]] # D[order[l]]
      BY <1>2, <1>5, <2>1
    <2>3. D[last[k]] <= D[last[l]] /\ D[last[k]] # D[last[l]]
      BY <1>9, <2>2
    <2>4. last[k] \in 1 .. N /\ last[l] \in 1 .. N /\ D[last[k]] \in Int /\ D[last[l]] \in Int
      BY <1>2, <1>9
    <2>5. ~(last[l] <= last[k])
      <3>1. last[l] <= last[k] => D[last[l]] <= D[last[k]]
        BY <1>2, <2>4
      <3> QED
        BY <2>3, <2>4, <3>1
    <2> QED
      BY <2>4, <2>5
  <1>15. Ascending(E) = last
    <2>1. E \in SUBSET Int
      BY <1>1, <1>3
    <2> QED
      BY <1>7, <1>12, <1>13, <1>14, <2>1, AscendingIs
  <1> DEFINE in == Keys(D)
  <1>16. DOMAIN in = 1 .. M /\ \A k \in 1 .. M : in[k] = D[order[k]]
    BY <1>7 DEF Keys, Entries, I, order
  <1>17. ASSUME NEW k \in 1 .. M
         PROVE  Grouped(D)[in[k]] = Class(D[order[k]])
    <2>1. order[k] \in DOMAIN D
      BY <1>2, <1>9
    <2>2. in[k] \in {D[i] : i \in DOMAIN D}
      BY <1>16, <2>1
    <2> HIDE DEF in
    <2> QED
      BY <1>16, <2>2 DEF Grouped, Class
  <1> HIDE DEF in
  <1>18. ASSUME NEW k \in 1 .. M
         PROVE  [day |-> in[k], pnl |-> PnlOf(h, 1 .. Max(Grouped(D)[in[k]]))] = PointAt(h, z, last[k])
    <2>1. in[k] = LocalDay(h[last[k]], z)
      BY <1>2, <1>9, <1>16
    <2> QED
      BY <1>9, <1>17, <2>1 DEF PointAt
  <1>19. DailyCloses(h, z) = [k \in DOMAIN in |-> [day |-> in[k], pnl |-> PnlOf(h, 1 .. Max(Grouped(D)[in[k]]))]]
    BY DEF DailyCloses, in, D
  <1>20. DailyCloses(h, z) = [k \in 1 .. M |-> PointAt(h, z, last[k])]
    BY <1>16, <1>18, <1>19
  <1>21. DOMAIN last = 1 .. M
    BY <1>12
  <1> QED
    BY <1>15, <1>20, <1>21 DEF E

\* A point of the daily curve.
Points == [day : Int, pnl : Int]

\* The points are of ever later trades.
LEMMA CurveFacts ==
  ASSUME NEW h, Timed(h), NEW z \in Int
  PROVE  LET c == DailyCloses(h, z)
             a == Ascending(LastOnes(h, z)) IN
         /\ c \in Seq(Points) /\ Len(c) \in Nat /\ DOMAIN c = 1 .. Len(c) /\ DOMAIN a = 1 .. Len(c)
         /\ \A k \in 1 .. Len(c) : /\ a[k] \in LastOnes(h, z) /\ a[k] \in 1 .. Len(h)
                                   /\ c[k] = PointAt(h, z, a[k])
                                   /\ c[k] \in Points /\ c[k].pnl \in Int
         /\ \A k, l \in 1 .. Len(c) : k < l <=> a[k] < a[l]
         /\ \A i \in LastOnes(h, z) : \E k \in 1 .. Len(c) : a[k] = i
PROOF
  <1> DEFINE c == DailyCloses(h, z)
             E == LastOnes(h, z)
             a == Ascending(E)
             M == Cardinality(E)
             N == Len(h)
  <1>1. /\ N \in Nat /\ Positions(h) = 1 .. N
        /\ \A i \in 1 .. N : LocalDay(h[i], z) \in Int
    BY TimedFacts, DaysGoOn
  <1> HIDE DEF N
  <1>2. E \in SUBSET (1 .. N) /\ E \in SUBSET Int /\ IsFiniteSet(E)
    <2>1. E \in SUBSET (1 .. N)
      BY DEF LastOnes, N
    <2>2. E \in SUBSET Int
      BY <1>1, <2>1
    <2> HIDE DEF E
    <2>3. IsFiniteSet(1 .. N)
      BY <1>1, FS_Interval
    <2> QED
      BY <2>1, <2>2, <2>3, FS_Subset
  <1> HIDE DEF E
  <1>3. /\ M \in Nat /\ DOMAIN a = 1 .. M
        /\ \A k \in 1 .. M : a[k] \in E
        /\ \A i \in E : \E k \in 1 .. M : a[k] = i
        /\ \A k, l \in 1 .. M : k < l <=> a[k] < a[l]
    <2>1. Enumerates(a, E, M)
      BY <1>2, AscendingFacts DEF E
    <2> HIDE DEF a, M
    <2> QED
      BY <2>1 DEF Enumerates
  <1>4. c = [k \in DOMAIN a |-> PointAt(h, z, a[k])]
    BY CurveIs DEF E
  <1> HIDE DEF c, a, M
  <1>5. \A k \in 1 .. M : a[k] \in 1 .. N /\ c[k] = PointAt(h, z, a[k])
    BY <1>2, <1>3, <1>4
  <1>6. ASSUME NEW i \in 1 .. N
        PROVE  PointAt(h, z, i) \in Points
    <2>1. 1 .. i \in SUBSET Positions(h)
      BY <1>1
    <2>2. PnlOf(h, 1 .. i) \in Int
      BY <2>1, PnlFacts
    <2> QED
      BY <1>1, <2>2 DEF PointAt, Points
  <1>7. c \in [1 .. M -> Points] /\ \A k \in 1 .. M : c[k] \in Points
    <2>1. c = [k \in 1 .. M |-> PointAt(h, z, a[k])]
      BY <1>3, <1>4
    <2> QED
      BY <1>5, <1>6, <2>1
  <1>8. c \in Seq(Points) /\ DOMAIN c = 1 .. M
    BY <1>3, <1>7, SeqDef
  <1>9. Len(c) = M
    <2>1. Len(c) \in Nat /\ DOMAIN c = 1 .. Len(c)
      BY <1>8, LenProperties
    <2> QED
      BY <1>3, <1>8, <2>1
  <1>10. \A k \in 1 .. M : c[k].pnl \in Int
    BY <1>7 DEF Points
  <1> QED
    BY <1>3, <1>5, <1>7, <1>8, <1>9, <1>10 DEF c, a, E, N

\* A high is above zero and above every earlier point.
LEMMA HighIs ==
  ASSUME NEW c \in Seq(Points), NEW k \in DOMAIN c
  PROVE  k \in Highs(c) <=> c[k].pnl > 0 /\ \A j \in 1 .. k - 1 : c[k].pnl > c[j].pnl
PROOF
  <1> DEFINE T == {0} \cup {c[j].pnl : j \in 1 .. k - 1}
             made == [j \in 1 .. k - 1 |-> c[j].pnl]
  <1>1. Len(c) \in Nat /\ DOMAIN c = 1 .. Len(c) /\ k \in 1 .. Len(c) /\ k - 1 \in Nat
    BY LenProperties
  <1>2. \A j \in 1 .. Len(c) : c[j] \in Points
    BY <1>1, ElementOfSeq
  <1>3. \A j \in 1 .. Len(c) : c[j].pnl \in Int
    BY <1>2 DEF Points
  <1>4. \A j \in 1 .. k - 1 : c[j].pnl \in Int /\ made[j] = c[j].pnl
    BY <1>1, <1>3
  <1> HIDE DEF made
  <1>5. PICK u \in Nat : \A j \in 1 .. k - 1 : made[j] <= u
    BY <1>1, <1>4, TermsBounded
  <1>6. /\ T \in SUBSET Int /\ T # {} /\ \A x \in T : x <= u
        /\ \A x \in T : x = 0 \/ \E j \in 1 .. k - 1 : x = c[j].pnl
        /\ 0 \in T /\ \A j \in 1 .. k - 1 : c[j].pnl \in T
    BY <1>4, <1>5
  <1>7. k \in Highs(c) <=> c[k].pnl > Max(T)
    BY DEF Highs
  <1> HIDE DEF T
  <1>8. Max(T) \in T /\ \A x \in T : x <= Max(T)
    <2>1. u \in Int
      BY <1>5
    <2> QED
      BY <1>6, <2>1, MaxOfBounded
  <1>9. Max(T) \in Int /\ c[k].pnl \in Int
    BY <1>1, <1>3, <1>6, <1>8
  <1>10. ASSUME c[k].pnl > Max(T)
         PROVE  c[k].pnl > 0 /\ \A j \in 1 .. k - 1 : c[k].pnl > c[j].pnl
    <2>1. 0 <= Max(T) /\ \A j \in 1 .. k - 1 : c[j].pnl <= Max(T)
      BY <1>6, <1>8
    <2> QED
      BY <1>4, <1>9, <1>10, <2>1
  <1>11. ASSUME c[k].pnl > 0, \A j \in 1 .. k - 1 : c[k].pnl > c[j].pnl
         PROVE  c[k].pnl > Max(T)
    BY <1>6, <1>8, <1>11
  <1> QED
    BY <1>7, <1>10, <1>11

\* The less of two.
LEMMA MinOfTwo ==
  ASSUME NEW a \in Int, NEW b \in Int
  PROVE  /\ Min({a, b}) \in Int
         /\ Min({a, b}) = IF a <= b THEN a ELSE b
PROOF
  <1> DEFINE T == {a, b}
  <1>1. T \in SUBSET Int /\ a \in T /\ b \in T /\ \A x \in T : x = a \/ x = b
    OBVIOUS
  <1> HIDE DEF T
  <1>2. CASE a <= b
    <2>1. \A x \in T : a <= x
      BY <1>1, <1>2
    <2>2. Min(T) = a
      BY <1>1, <2>1, MinIs
    <2> QED
      BY <1>2, <2>2 DEF T
  <1>3. CASE ~(a <= b)
    <2>1. \A x \in T : b <= x
      BY <1>1, <1>3
    <2>2. Min(T) = b
      BY <1>1, <2>1, MinIs
    <2> QED
      BY <1>3, <2>2 DEF T
  <1> QED
    BY <1>2, <1>3

\* A drawdown on record, and the variables of the scan.
DrawdownRecord == [start : Seq(Int), end : Int, depth : Int]
Watch == [peak : Int, low : Int, start : Seq(Int), found : Seq(DrawdownRecord)]

\* A point leaves the scan in a state of that form.
LEMMA WatchedIsWatch ==
  ASSUME NEW s \in Watch, NEW p \in Points
  PROVE  Watched(s, p) \in Watch
PROOF
  <1>1. /\ s.peak \in Int /\ s.low \in Int /\ s.start \in Seq(Int) /\ s.found \in Seq(DrawdownRecord)
        /\ s = [peak |-> s.peak, low |-> s.low, start |-> s.start, found |-> s.found]
    BY DEF Watch
  <1>2. p.day \in Int /\ p.pnl \in Int
    BY DEF Points
  <1>3. <<p.day>> \in Seq(Int) /\ <<>> \in Seq(Int)
    <2>1. <<>> \in Seq(Int)
      BY EmptySeq
    <2>2. <<p.day>> = Append(<<>>, p.day)
      BY <1>2
    <2> QED
      BY <1>2, <2>1, <2>2, AppendProperties
  <1>4. Recorded(s, p) \in Seq(DrawdownRecord)
    <2> DEFINE e == [start |-> s.start, end |-> p.day, depth |-> s.peak - s.low]
    <2>1. e \in DrawdownRecord
      BY <1>1, <1>2 DEF DrawdownRecord
    <2> HIDE DEF e
    <2>2. Append(s.found, e) \in Seq(DrawdownRecord)
      BY <1>1, <2>1, AppendProperties
    <2>3. Recorded(s, p) = IF s.start # <<>> /\ s.peak > 0 THEN Append(s.found, e) ELSE s.found
      BY DEF Recorded, e
    <2> QED
      BY <1>1, <2>2, <2>3
  <1>5. Min({s.low, p.pnl}) \in Int
    BY <1>1, <1>2, MinOfTwo
  <1>6. CASE p.pnl > s.peak
    BY <1>1, <1>2, <1>3, <1>4, <1>6 DEF Watched, Watch
  <1>7. CASE ~(p.pnl > s.peak) /\ p.pnl = s.peak
    BY <1>7 DEF Watched
  <1>8. CASE ~(p.pnl > s.peak) /\ p.pnl # s.peak
    <2>1. Watched(s, p) = [peak |-> s.peak,
                           low |-> IF s.start = <<>> THEN p.pnl ELSE Min({s.low, p.pnl}),
                           start |-> IF s.start = <<>> THEN <<p.day>> ELSE s.start,
                           found |-> s.found]
      BY <1>1, <1>8 DEF Watched
    <2> QED
      BY <1>1, <1>2, <1>3, <1>5, <2>1 DEF Watch
  <1> QED
    BY <1>6, <1>7, <1>8

\* The loop over the daily curve satisfies its equations.
LEMMA ScanLoop ==
  ASSUME NEW c \in Seq(Points)
  PROVE  /\ DrawdownScan(c)[0] = [peak |-> 0, low |-> 0, start |-> <<>>, found |-> <<>>]
         /\ \A n \in 1 .. Len(c) : DrawdownScan(c)[n] = Watched(DrawdownScan(c)[n - 1], c[n])
         /\ \A n \in 0 .. Len(c) : DrawdownScan(c)[n] \in Watch
PROOF
  <1> DEFINE N == Len(c)
             s0 == [peak |-> 0, low |-> 0, start |-> <<>>, found |-> <<>>]
             Next2(g, n) == IF n = 0 THEN s0 ELSE Watched(g[n - 1], c[n])
             F == [p \in (1 .. N) \X Watch |-> Watched(p[2], c[p[1]])]
             R == DrawdownScan(c)
  <1>1. N \in Nat /\ \A i \in 1 .. N : c[i] \in Points
    BY LenProperties, ElementOfSeq
  <1>2. s0 \in Watch
    <2>1. <<>> \in Seq(Int) /\ <<>> \in Seq(DrawdownRecord) /\ 0 \in Int
      BY EmptySeq
    <2> QED
      BY <2>1 DEF Watch
  <1>3. \A s \in Watch : \A n \in 1 .. N : Watched(s, c[n]) \in Watch /\ F[<<n, s>>] = Watched(s, c[n])
    BY <1>1, WatchedIsWatch
  <1>4. LoopSteps(N, Watch, F)
    BY <1>3 DEF LoopSteps
  <1> HIDE DEF F, s0
  <1>5. PICK f : f \in [0 .. N -> Watch] /\ f[0] = s0 /\ \A k \in 1 .. N : f[k] = F[<<k, f[k - 1]>>]
    BY SMTT(30), <1>1, <1>2, <1>4, LoopRuns DEF LoopRun
  <1>6. \A k \in 1 .. N : k - 1 \in 0 .. N /\ k # 0
    BY <1>1
  <1>7. \A k \in 1 .. N : f[k] = Watched(f[k - 1], c[k])
    BY <1>3, <1>5, <1>6
  <1>8. f = [n \in 0 .. N |-> Next2(f, n)]
    <2>1. \A n \in 0 .. N : n = 0 \/ n \in 1 .. N
      BY <1>1
    <2>2. \A n \in 0 .. N : f[n] = Next2(f, n)
      BY <1>5, <1>6, <1>7, <2>1
    <2> HIDE DEF Next2
    <2> QED
      BY <1>5, <2>2
  <1>9. R = CHOOSE g : g = [n \in 0 .. N |-> Next2(g, n)]
    BY DEF DrawdownScan, s0
  <1>10. R = [n \in 0 .. N |-> Next2(R, n)]
    <2> HIDE DEF Next2, R
    <2> QED
      BY <1>8, <1>9
  <1>11. \A n \in 0 .. N : R[n] = Next2(R, n)
    <2> HIDE DEF Next2, R
    <2> QED
      BY <1>10
  <1> HIDE DEF R
  <1>12. R[0] = s0 /\ \A n \in 1 .. N : R[n] = Watched(R[n - 1], c[n])
    <2>1. 0 \in 0 .. N /\ \A n \in 1 .. N : n \in 0 .. N /\ n # 0
      BY <1>1
    <2> QED
      BY <1>11, <2>1
  <1> DEFINE P == {n \in Nat : n <= N => R[n] \in Watch}
  <1>13. 0 \in P
    BY <1>2, <1>12
  <1>14. ASSUME NEW n \in Nat, n \in P
         PROVE  n + 1 \in P
    <2> SUFFICES ASSUME n + 1 <= N PROVE R[n + 1] \in Watch
      OBVIOUS
    <2>1. n + 1 \in 1 .. N /\ (n + 1) - 1 = n /\ R[n] \in Watch
      BY <1>1, <1>14
    <2>2. R[n + 1] = Watched(R[n], c[n + 1])
      BY <1>12, <2>1
    <2> QED
      BY <1>3, <2>1, <2>2
  <1> HIDE DEF P
  <1>15. \A n \in 0 .. N : n \in P
    BY <1>13, <1>14, NatsByInduction
  <1>16. \A n \in 0 .. N : R[n] \in Watch
    BY <1>1, <1>15 DEF P
  <1> QED
    BY <1>12, <1>16 DEF R, s0

\* The points between two highs that are below the first, the pairs of neighbouring
\* highs up to point n that have some, and what is put on record of them.
Hollow(c, p) == {i \in p[1] + 1 .. p[2] - 1 : c[i].pnl < c[p[1]].pnl}
Dips(c, n) ==
    {p \in Highs(c) \X Highs(c) :
        /\ p[1] < p[2] /\ p[2] <= n
        /\ Hollow(c, p) # {} /\ Highs(c) \cap (p[1] + 1 .. p[2] - 1) = {}}
EntryOf(c, p) ==
    [start |-> <<c[Min(Hollow(c, p))].day>>, end |-> c[p[2]].day,
     depth |-> c[p[1]].pnl - Min({c[i].pnl : i \in Hollow(c, p)})]

\* The points after m up to n that are below x.
Below(c, m, n, x) == {i \in m + 1 .. n : c[i].pnl < x}

\* What the scan knows after n points, the last high of which is m.
Watching(c, n, s, m) ==
    LET B == Below(c, m, n, s.peak) IN
    /\ m \in 0 .. n
    /\ m = 0 => s.peak = 0
    /\ m > 0 => m \in Highs(c) /\ s.peak = c[m].pnl /\ s.peak > 0
    /\ \A k \in m + 1 .. n : k \notin Highs(c)
    /\ \A k \in 1 .. n : c[k].pnl <= s.peak
    /\ B = {} <=> s.start = <<>>
    /\ B # {} => /\ \E i \in B : s.start = <<c[i].day>> /\ \A j \in B : i <= j
                 /\ \E i \in B : s.low = c[i].pnl /\ \A j \in B : s.low <= c[j].pnl
    /\ ToSet(s.found) = {EntryOf(c, p) : p \in Dips(c, n)}

\* What an entry adds to the members of a list.
LEMMA MembersOfAppend ==
  ASSUME NEW R, NEW f \in Seq(R), NEW e \in R
  PROVE  ToSet(Append(f, e)) = ToSet(f) \cup {e}
PROOF
  <1> DEFINE g == Append(f, e)
             n == Len(f)
  <1>1. n \in Nat /\ DOMAIN f = 1 .. n
    BY LenProperties
  <1>2. /\ g \in Seq(R) /\ Len(g) = n + 1 /\ g[n + 1] = e
        /\ \A i \in 1 .. n : g[i] = f[i]
    BY AppendProperties
  <1> HIDE DEF g
  <1>3. DOMAIN g = 1 .. n + 1
    BY <1>2, LenProperties
  <1> HIDE DEF n
  <1>4. \A i : i \in 1 .. n + 1 <=> i \in 1 .. n \/ i = n + 1
    BY <1>1
  <1>5. ToSet(f) = {f[i] : i \in 1 .. n} /\ ToSet(g) = {g[i] : i \in 1 .. n + 1}
    BY <1>1, <1>3 DEF ToSet
  <1>6. ToSet(g) = ToSet(f) \cup {e}
    BY <1>2, <1>4, <1>5
  <1> QED
    BY <1>6 DEF g

\* A point that is no high adds no pair.
LEMMA SameDips ==
  ASSUME NEW c \in Seq(Points), NEW n \in 0 .. Len(c) - 1, n + 1 \notin Highs(c)
  PROVE  Dips(c, n + 1) = Dips(c, n)
PROOF
  <1>1. Len(c) \in Nat /\ Highs(c) \subseteq 1 .. Len(c)
    BY LenProperties DEF Highs
  <1>2. \A p \in Highs(c) \X Highs(c) : p[2] <= n + 1 <=> p[2] <= n
    BY <1>1
  <1> QED
    BY <1>2 DEF Dips

\* The next point keeps that so: a new high closes the drawdown below the last one.
LEMMA WatchOn ==
  ASSUME NEW c \in Seq(Points), NEW n \in 0 .. Len(c) - 1, NEW s \in Watch,
         NEW m, Watching(c, n, s, m)
  PROVE  \E k : Watching(c, n + 1, Watched(s, c[n + 1]), k)
PROOF
  <1> DEFINE p == c[n + 1]
             B == Below(c, m, n, s.peak)
             t == Watched(s, p)
             H == Highs(c)
             N == Len(c)
  <1>1. /\ N \in Nat /\ DOMAIN c = 1 .. N /\ H \subseteq 1 .. N
        /\ \A i \in 1 .. N : c[i].pnl \in Int /\ c[i] \in Points
    <2>1. N \in Nat /\ DOMAIN c = 1 .. N /\ \A i \in 1 .. N : c[i] \in Points
      BY LenProperties, ElementOfSeq
    <2> QED
      BY <2>1 DEF Points, Highs
  <1> HIDE DEF N
  <1>2. /\ n \in Nat /\ n + 1 \in 1 .. N /\ (n + 1) - 1 = n /\ p \in Points /\ p.pnl \in Int
        /\ p.day \in Int /\ \A k \in 1 .. n : k \in 1 .. N
    <2>1. n \in 0 .. N - 1
      BY DEF N
    <2>2. n \in Nat /\ n + 1 \in 1 .. N /\ (n + 1) - 1 = n /\ \A k \in 1 .. n : k \in 1 .. N
      BY <1>1, <2>1
    <2> QED
      BY <1>1, <2>2 DEF Points
  <1>3. /\ s.peak \in Int /\ s.low \in Int /\ s.start \in Seq(Int) /\ s.found \in Seq(DrawdownRecord)
    BY DEF Watch
  <1>4. /\ m \in 0 .. n
        /\ m = 0 => s.peak = 0
        /\ m > 0 => m \in H /\ s.peak = c[m].pnl /\ s.peak > 0
        /\ \A k \in m + 1 .. n : k \notin H
        /\ \A k \in 1 .. n : c[k].pnl <= s.peak
        /\ B = {} <=> s.start = <<>>
        /\ B # {} => /\ \E i \in B : s.start = <<c[i].day>> /\ \A j \in B : i <= j
                     /\ \E i \in B : s.low = c[i].pnl /\ \A j \in B : s.low <= c[j].pnl
        /\ ToSet(s.found) = {EntryOf(c, q) : q \in Dips(c, n)}
    BY DEF Watching
  <1>5. \A k : k \in 1 .. n + 1 <=> k \in 1 .. n \/ k = n + 1
    BY <1>2
  <1>6. n + 1 \in H <=> p.pnl > 0 /\ \A j \in 1 .. n : p.pnl > c[j].pnl
    <2>1. n + 1 \in DOMAIN c
      BY <1>1, <1>2
    <2> QED
      BY <1>2, <2>1, HighIs
  <1> HIDE DEF p, B, H
  <1>7. CASE p.pnl > s.peak
    <2>1. n + 1 \in H /\ p.pnl > 0
      <3>1. p.pnl > 0
        BY <1>2, <1>3, <1>4, <1>7
      <3>2. \A j \in 1 .. n : p.pnl > c[j].pnl
        BY <1>1, <1>2, <1>3, <1>4, <1>7
      <3> QED
        BY <1>6, <3>1, <3>2
    <2>2. t = [peak |-> p.pnl, low |-> s.low, start |-> <<>>, found |-> Recorded(s, p)]
      BY <1>7 DEF Watched
    <2>3. t.peak = p.pnl /\ t.start = <<>> /\ t.found = Recorded(s, p)
      BY <2>2
    <2> HIDE DEF t
    <2>4. \A k \in 1 .. n + 1 : c[k].pnl <= p.pnl
      <3> SUFFICES ASSUME NEW k \in 1 .. n + 1 PROVE c[k].pnl <= p.pnl
        OBVIOUS
      <3>1. k \in 1 .. n \/ c[k] = p
        BY <1>5 DEF p
      <3>2. CASE k \in 1 .. n
        <4>1. c[k].pnl \in Int /\ c[k].pnl <= s.peak
          BY <1>1, <1>2, <1>4, <3>2
        <4> QED
          BY <1>2, <1>3, <1>7, <4>1
      <3>3. CASE c[k] = p
        BY <1>2, <3>3
      <3> QED
        BY <3>1, <3>2, <3>3
    <2>5. Below(c, n + 1, n + 1, p.pnl) = {} /\ \A k \in (n + 1) + 1 .. n + 1 : k \notin H
      <3>1. \A k : k \notin (n + 1) + 1 .. n + 1
        BY <1>2
      <3> QED
        BY <3>1 DEF Below
    <2>6. ToSet(Recorded(s, p)) = {EntryOf(c, q) : q \in Dips(c, n + 1)}
      <3> DEFINE d == <<m, n + 1>>
      <3>1. \A q \in Dips(c, n + 1) : q \in Dips(c, n) \/ q[2] = n + 1
        BY <1>1, <1>2 DEF Dips, H
      <3>2. Dips(c, n) \subseteq Dips(c, n + 1)
        BY <1>1, <1>2 DEF Dips, H
      <3>3. m > 0 => Hollow(c, d) = B
        BY <1>2, <1>4 DEF Hollow, B, Below
      <3>4. ASSUME NEW q \in Dips(c, n + 1), q[2] = n + 1
            PROVE  q = d /\ m > 0 /\ B # {}
        <4>1. /\ q \in H \X H /\ q[1] \in H /\ q[2] \in H /\ q[1] < n + 1
              /\ Hollow(c, q) # {} /\ H \cap (q[1] + 1 .. n) = {}
          BY <1>2, <3>4 DEF Dips, H
        <4>2. q[1] \in 1 .. n
          <5> DEFINE x == q[1]
          <5>1. x \in 1 .. N /\ x < n + 1
            BY <1>1, <4>1
          <5> HIDE DEF x
          <5>2. x \in 1 .. n
            BY <1>1, <1>2, <5>1
          <5> QED
            BY <5>2 DEF x
        <4>3. m > 0 /\ m \in H
          <5>1. m = 0 => q[1] \in m + 1 .. n
            BY <1>2, <4>2
          <5> QED
            BY <1>4, <4>1, <5>1
        <4>4. q[1] = m
          <5>1. ~(q[1] < m)
            <6>1. q[1] < m => m \in q[1] + 1 .. n
              BY <1>2, <1>4, <4>2
            <6> QED
              BY <4>1, <4>3, <6>1
          <5>2. ~(m < q[1])
            <6>1. m < q[1] => q[1] \in m + 1 .. n
              BY <1>2, <1>4, <4>2
            <6> QED
              BY <1>4, <4>1, <6>1
          <5> QED
            BY <1>4, <4>2, <5>1, <5>2
        <4>5. q = d
          BY <3>4, <4>1, <4>4
        <4> HIDE DEF d
        <4> QED
          BY <3>3, <4>1, <4>3, <4>5
      <3>5. CASE m > 0 /\ B # {}
        <4> DEFINE e == [start |-> s.start, end |-> p.day, depth |-> s.peak - s.low]
        <4>1. s.start # <<>> /\ s.peak > 0
          BY <1>4, <3>5
        <4>2. Recorded(s, p) = Append(s.found, e)
          BY <4>1 DEF Recorded
        <4>3. e \in DrawdownRecord
          BY <1>2, <1>3 DEF DrawdownRecord
        <4>4. ToSet(Recorded(s, p)) = ToSet(s.found) \cup {e}
          <5> HIDE DEF e
          <5> QED
            BY <1>3, <4>2, <4>3, MembersOfAppend
        <4>5. d \in Dips(c, n + 1)
          <5>1. d \in H \X H /\ d[1] = m /\ d[2] = n + 1 /\ m < n + 1 /\ n + 1 <= n + 1
            BY <1>2, <1>4, <2>1, <3>5
          <5>2. H \cap (m + 1 .. (n + 1) - 1) = {}
            BY <1>2, <1>4
          <5> HIDE DEF d
          <5> QED
            BY <3>3, <3>5, <5>1, <5>2 DEF Dips, H
        <4>6. EntryOf(c, d) = e
          <5>1. d[1] = m /\ d[2] = n + 1 /\ Hollow(c, d) = B
            BY <3>3, <3>5
          <5> HIDE DEF d
          <5>2. B \in SUBSET (1 .. n) /\ B \in SUBSET Int
            <6>1. \A i \in m + 1 .. n : i \in 1 .. n
              BY <1>2, <1>4
            <6> QED
              BY <6>1 DEF B, Below
          <5>3. PICK i \in B : s.start = <<c[i].day>> /\ \A j \in B : i <= j
            BY <1>4, <3>5
          <5>4. PICK l \in B : s.low = c[l].pnl /\ \A j \in B : s.low <= c[j].pnl
            BY <1>4, <3>5
          <5>5. Min(B) = i
            BY <5>2, <5>3, MinIs
          <5>6. Min({c[j].pnl : j \in B}) = s.low
            <6> DEFINE T == {c[j].pnl : j \in B}
            <6>1. T \in SUBSET Int
              BY <1>1, <1>2, <5>2
            <6>2. s.low \in T /\ \A x \in T : s.low <= x
              BY <5>4
            <6> HIDE DEF T
            <6>3. Min(T) = s.low
              BY <6>1, <6>2, MinIs
            <6> QED
              BY <6>3 DEF T
          <5>7. EntryOf(c, d) = [start |-> <<c[Min(B)].day>>, end |-> c[n + 1].day,
                                 depth |-> c[m].pnl - Min({c[j].pnl : j \in B})]
            BY <5>1 DEF EntryOf
          <5>8. c[m].pnl = s.peak
            BY <1>4, <3>5
          <5> QED
            BY <5>3, <5>5, <5>6, <5>7, <5>8 DEF p
        <4>7. Dips(c, n + 1) = Dips(c, n) \cup {d}
          <5> HIDE DEF d
          <5> QED
            BY <3>1, <3>2, <3>4, <4>5
        <4> HIDE DEF e, d
        <4> QED
          BY <1>4, <4>4, <4>6, <4>7
      <3>6. CASE ~(m > 0 /\ B # {})
        <4>1. Recorded(s, p) = s.found
          <5>1. ~(s.start # <<>> /\ s.peak > 0)
            BY <1>4, <3>6
          <5> QED
            BY <5>1 DEF Recorded
        <4>2. Dips(c, n + 1) = Dips(c, n)
          BY <3>1, <3>2, <3>4, <3>6
        <4> QED
          BY <1>4, <4>1, <4>2
      <3> QED
        BY <3>5, <3>6
    <2>7. n + 1 \in 0 .. n + 1 /\ n + 1 > 0
      BY <1>2
    <2>8. Watching(c, n + 1, t, n + 1)
      <3>1. c[n + 1].pnl = p.pnl
        BY DEF p
      <3> QED
        BY <2>1, <2>3, <2>4, <2>5, <2>6, <2>7, <3>1 DEF Watching, H
    <2> QED
      BY <2>8 DEF t, p
  <1>8. CASE ~(p.pnl > s.peak)
    <2>1. n + 1 \notin H
      <3>1. CASE m = 0
        BY <1>2, <1>3, <1>4, <1>6, <1>8, <3>1
      <3>2. CASE m > 0
        <4>1. m \in 1 .. n /\ c[m].pnl = s.peak
          BY <1>2, <1>4, <3>2
        <4> QED
          BY <1>6, <1>8, <4>1
      <3> QED
        BY <1>4, <3>1, <3>2
    <2>2. Dips(c, n + 1) = Dips(c, n)
      BY <2>1, SameDips DEF H
    <2>3. \A k : k \in m + 1 .. n + 1 <=> k \in m + 1 .. n \/ k = n + 1
      BY <1>2, <1>4
    <2>4. /\ m \in 0 .. n + 1
          /\ \A k \in m + 1 .. n + 1 : k \notin H
          /\ \A k \in 1 .. n + 1 : c[k].pnl <= s.peak
      <3>1. c[n + 1].pnl <= s.peak
        BY <1>2, <1>3, <1>8 DEF p
      <3>2. m \in 0 .. n + 1
        BY <1>2, <1>4
      <3> QED
        BY <1>4, <1>5, <2>1, <2>3, <3>1, <3>2
    <2>5. CASE p.pnl = s.peak
      <3>1. t = s
        BY <1>8, <2>5 DEF Watched
      <3>2. Below(c, m, n + 1, s.peak) = B
        <4>1. ~(c[n + 1].pnl < s.peak)
          BY <1>2, <1>3, <2>5 DEF p
        <4> QED
          BY <2>3, <4>1 DEF Below, B
      <3>3. Watching(c, n + 1, s, m)
        BY <1>4, <2>2, <2>4, <3>2 DEF Watching, H
      <3> QED
        BY <3>1, <3>3 DEF t, p
    <2>6. CASE p.pnl # s.peak
      <3> DEFINE D == Below(c, m, n + 1, s.peak)
      <3>1. D = B \cup {n + 1}
        <4>1. c[n + 1].pnl < s.peak
          BY <1>2, <1>3, <1>8, <2>6 DEF p
        <4> QED
          BY <2>3, <4>1 DEF Below, B
      <3>2. t = [peak |-> s.peak,
                 low |-> IF s.start = <<>> THEN p.pnl ELSE Min({s.low, p.pnl}),
                 start |-> IF s.start = <<>> THEN <<p.day>> ELSE s.start,
                 found |-> s.found]
        <4>1. s = [peak |-> s.peak, low |-> s.low, start |-> s.start, found |-> s.found]
          BY DEF Watch
        <4> QED
          BY <1>8, <2>6, <4>1 DEF Watched
      <3>3. /\ t.peak = s.peak /\ t.found = s.found
            /\ t.low = IF s.start = <<>> THEN p.pnl ELSE Min({s.low, p.pnl})
            /\ t.start = IF s.start = <<>> THEN <<p.day>> ELSE s.start
        BY <3>2
      <3> HIDE DEF t, D
      <3>4. B \in SUBSET (1 .. n) /\ \A j \in B : c[j].pnl \in Int /\ j <= n + 1
        <4>1. \A i \in m + 1 .. n : i \in 1 .. n
          BY <1>2, <1>4
        <4>2. B \in SUBSET (1 .. n)
          BY <4>1 DEF B, Below
        <4> QED
          BY <1>1, <1>2, <4>2
      <3>5. CASE B = {}
        <4>1. t.low = c[n + 1].pnl /\ t.start = <<c[n + 1].day>> /\ D = {n + 1}
          BY <1>4, <3>1, <3>3, <3>5 DEF p
        <4>2. c[n + 1].pnl <= c[n + 1].pnl /\ n + 1 <= n + 1 /\ t.start # <<>>
          BY <1>2, <4>1 DEF p
        <4>3. Watching(c, n + 1, t, m)
          BY <1>4, <2>2, <2>4, <3>3, <4>1, <4>2 DEF Watching, H, D
        <4> QED
          BY <4>3 DEF t, p
      <3>6. CASE B # {}
        <4>1. s.start # <<>>
          BY <1>4, <3>6
        <4>2. t.start = s.start /\ t.low = Min({s.low, p.pnl})
          BY <3>3, <4>1
        <4>3. \E i \in D : t.start = <<c[i].day>> /\ \A j \in D : i <= j
          <5>1. PICK i \in B : s.start = <<c[i].day>> /\ \A j \in B : i <= j
            BY <1>4, <3>6
          <5> QED
            BY <3>1, <3>4, <4>2, <5>1
        <4>4. \E i \in D : t.low = c[i].pnl /\ \A j \in D : t.low <= c[j].pnl
          <5>1. PICK i \in B : s.low = c[i].pnl /\ \A j \in B : s.low <= c[j].pnl
            BY <1>4, <3>6
          <5>2. t.low = IF s.low <= p.pnl THEN s.low ELSE p.pnl
            BY <1>2, <1>3, <4>2, MinOfTwo
          <5>3. CASE s.low <= p.pnl
            <6>1. t.low = c[i].pnl /\ i \in D
              BY <3>1, <5>1, <5>2, <5>3
            <6>2. \A j \in D : t.low <= c[j].pnl
              BY <3>1, <5>1, <5>2, <5>3 DEF p
            <6> QED
              BY <6>1, <6>2
          <5>4. CASE ~(s.low <= p.pnl)
            <6>1. t.low = c[n + 1].pnl /\ n + 1 \in D
              BY <3>1, <5>2, <5>4 DEF p
            <6>2. \A j \in D : t.low <= c[j].pnl
              <7>1. \A j \in B : p.pnl <= c[j].pnl
                BY <1>2, <1>3, <3>4, <5>1, <5>4
              <7>2. t.low = p.pnl /\ c[n + 1] = p /\ p.pnl <= p.pnl
                BY <1>2, <5>2, <5>4 DEF p
              <7> QED
                BY <3>1, <7>1, <7>2
            <6> QED
              BY <6>1, <6>2
          <5> QED
            BY <5>3, <5>4
        <4>5. D # {} /\ t.start # <<>>
          BY <3>1, <4>1, <4>2
        <4>6. Watching(c, n + 1, t, m)
          BY <1>4, <2>2, <2>4, <3>3, <4>3, <4>4, <4>5 DEF Watching, H, D
        <4> QED
          BY <4>6 DEF t, p
      <3> QED
        BY <3>5, <3>6
    <2> QED
      BY <2>5, <2>6
  <1> QED
    BY <1>2, <1>3, <1>7, <1>8

\* So at each point the scan has on record the drawdowns that were over by then.
LEMMA ScanWatches ==
  ASSUME NEW c \in Seq(Points), NEW n \in 0 .. Len(c)
  PROVE  \E m : Watching(c, n, DrawdownScan(c)[n], m)
PROOF
  <1> DEFINE R == DrawdownScan(c)
             P == {k \in Nat : k <= Len(c) => \E m : Watching(c, k, R[k], m)}
  <1>1. Len(c) \in Nat
    BY LenProperties
  <1>2. /\ R[0] = [peak |-> 0, low |-> 0, start |-> <<>>, found |-> <<>>]
        /\ \A k \in 1 .. Len(c) : R[k] = Watched(R[k - 1], c[k])
        /\ \A k \in 0 .. Len(c) : R[k] \in Watch
    BY ScanLoop
  <1> HIDE DEF R
  <1>3. 0 \in P
    <2>1. R[0].peak = 0 /\ R[0].start = <<>> /\ R[0].found = <<>>
      BY <1>2
    <2>2. Dips(c, 0) = {}
      <3>1. Highs(c) \subseteq 1 .. Len(c)
        BY LenProperties DEF Highs
      <3>2. \A p \in Highs(c) \X Highs(c) : ~(p[2] <= 0)
        BY <1>1, <3>1
      <3> QED
        BY <3>2 DEF Dips
    <2>3. ToSet(<<>>) = {}
      BY DEF ToSet
    <2>4. (\A k : k \notin 1 .. 0) /\ 0 + 1 = 1 /\ 0 \in 0 .. 0
      OBVIOUS
    <2>5. Below(c, 0, 0, 0) = {}
      BY <2>4 DEF Below
    <2>6. Watching(c, 0, R[0], 0)
      BY <2>1, <2>2, <2>3, <2>4, <2>5 DEF Watching
    <2> QED
      BY <2>6
  <1>4. ASSUME NEW k \in Nat, k \in P
        PROVE  k + 1 \in P
    <2> SUFFICES ASSUME k + 1 <= Len(c) PROVE \E m : Watching(c, k + 1, R[k + 1], m)
      OBVIOUS
    <2>1. k \in 0 .. Len(c) - 1 /\ k \in 0 .. Len(c) /\ k + 1 \in 1 .. Len(c) /\ (k + 1) - 1 = k
      BY <1>1
    <2>2. PICK m : Watching(c, k, R[k], m)
      BY <1>4, <2>1
    <2>3. R[k] \in Watch /\ R[k + 1] = Watched(R[k], c[k + 1])
      BY <1>2, <2>1
    <2> QED
      BY <2>1, <2>2, <2>3, WatchOn
  <1> HIDE DEF P
  <1>5. n \in P
    BY <1>1, <1>3, <1>4, NatsByInduction
  <1> QED
    BY <1>1, <1>5 DEF P, R

\* The scan finds the drawdowns between neighbouring highs.
LEMMA DrawdownsFound ==
  ASSUME NEW h, Timed(h), NEW z \in Int
  PROVE  LET c == DailyCloses(h, z) IN
         ToSet(DrawdownPeriods(h, z)) = {EntryOf(c, p) : p \in Dips(c, Len(c))}
PROOF
  <1> DEFINE c == DailyCloses(h, z)
  <1>1. c \in Seq(Points) /\ Len(c) \in Nat
    BY CurveFacts
  <1>2. PICK m : Watching(c, Len(c), DrawdownScan(c)[Len(c)], m)
    <2> HIDE DEF c
    <2>1. Len(c) \in 0 .. Len(c)
      BY <1>1
    <2> QED
      BY <1>1, <2>1, ScanWatches
  <1> QED
    BY <1>2 DEF Watching, DrawdownPeriods

\* The drawdown of the Calmar ratio is that of an account with a trailing peak, so no
\* run of trades lost more.
LEMMA CalmarIsTrailing ==
  ASSUME NEW h, Timed(h)
  PROVE  /\ CalmarDrawdown(h) \in Int /\ 0 <= CalmarDrawdown(h)
         /\ \A i, j \in 1 .. Len(h) : -PnlOf(h, i .. j) <= CalmarDrawdown(h)
PROOF
  <1> DEFINE g == Ledger(h)
             N == Len(h)
             Run0(H) == [i \in 0 .. N |-> IF i = 0 THEN 0 ELSE H[i - 1] + h[i].pnl]
             running == CHOOSE H : H = Run0(H)
             Peak0(H, r) == [i \in 0 .. N |-> IF i = 0 THEN 0 ELSE Higher(H[i - 1], r[i])]
             peak == CHOOSE H : H = Peak0(H, running)
             gRun == CHOOSE H : H = [i \in 0 .. Len(g) |-> IF i = 0 THEN 0 ELSE H[i - 1] + g[i].pnl]
             gPeak == CHOOSE H : H = [i \in 0 .. Len(g) |-> IF i = 0 THEN 0 ELSE Max2(H[i - 1], gRun[i])]
  <1>1. /\ g \in Histories /\ Len(g) = N /\ DOMAIN g = 1 .. N
        /\ (\A i \in 1 .. N : g[i].pnl = h[i].pnl)
        /\ \A I : PnlOf(h, I) = Net(g, I)
    BY LedgerFacts
  <1>2. N \in Nat /\ Positions(h) = 1 .. N
    BY TimedFacts
  <1> HIDE DEF g, N
  <1>3. \A i \in 0 .. N : i # 0 => i \in 1 .. N
    BY <1>2
  <1>4. \A H : Run0(H) = [i \in 0 .. Len(g) |-> IF i = 0 THEN 0 ELSE H[i - 1] + g[i].pnl]
    BY <1>1, <1>3
  <1>5. running = gRun
    BY <1>4
  <1>6. \A H, r : Peak0(H, r) = [i \in 0 .. Len(g) |-> IF i = 0 THEN 0 ELSE Max2(H[i - 1], r[i])]
    BY <1>1 DEF Higher, Max2
  <1>7. peak = gPeak
    <2> HIDE DEF running, gRun
    <2> DEFINE up(r, H) == [i \in 0 .. Len(g) |-> IF i = 0 THEN 0 ELSE Max2(H[i - 1], r[i])]
    <2>1. \A H : Peak0(H, running) = up(gRun, H)
      BY <1>5, <1>6
    <2>2. peak = CHOOSE H : H = up(gRun, H)
      <3> HIDE DEF up, Peak0
      <3> QED
        BY <2>1
    <2> QED
      BY <2>2
  <1>8. gRun = Running(g)
    BY DEF Running
  <1>9. gPeak = Peak(g, "trailing")
    BY DEF Peak, Running
  <1>10. CalmarDrawdown(h) = Max({0} \cup {peak[i] - running[i] : i \in Positions(h)})
    BY DEF CalmarDrawdown, N
  <1> HIDE DEF running, peak, gRun, gPeak
  <1>11. CalmarDrawdown(h) = Drawdown(g, "trailing")
    BY <1>1, <1>2, <1>5, <1>7, <1>8, <1>9, <1>10 DEF Drawdown
  <1>12. /\ CalmarDrawdown(h) \in Int
         /\ \A x \in Runs(g, "trailing") : x <= CalmarDrawdown(h)
    BY <1>1, <1>11, DrawdownIsWorstRun
  <1>13. 0 \in Runs(g, "trailing")
    BY DEF Runs
  <1>14. \A i, j \in 1 .. N : -PnlOf(h, i .. j) \in Runs(g, "trailing")
    BY <1>1 DEF Runs, RunStarts
  <1> QED
    BY <1>12, <1>13, <1>14 DEF N

\* So the daily curve falls no deeper.
LEMMA CurveFalls ==
  ASSUME NEW h, Timed(h), NEW z \in Int,
         NEW k \in 1 .. Len(DailyCloses(h, z)), NEW l \in 1 .. Len(DailyCloses(h, z)), k < l
  PROVE  DailyCloses(h, z)[k].pnl - DailyCloses(h, z)[l].pnl <= CalmarDrawdown(h)
PROOF
  <1> DEFINE c == DailyCloses(h, z)
             a == Ascending(LastOnes(h, z))
             x == a[k]
             y == a[l]
  <1>1. Len(h) \in Nat /\ Positions(h) = 1 .. Len(h)
    BY TimedFacts
  <1>2. /\ x \in 1 .. Len(h) /\ y \in 1 .. Len(h) /\ x < y
        /\ c[k] = PointAt(h, z, x) /\ c[l] = PointAt(h, z, y)
    BY CurveFacts
  <1> HIDE DEF c, x, y
  <1>3. c[k].pnl = PnlOf(h, 1 .. x) /\ c[l].pnl = PnlOf(h, 1 .. y)
    BY <1>2 DEF PointAt
  <1> DEFINE I == 1 .. x
             J == x + 1 .. y
  <1>4. /\ I \in SUBSET Positions(h) /\ J \in SUBSET Positions(h) /\ I \cap J = {}
        /\ 1 .. y = I \cup J /\ x + 1 \in 1 .. Len(h)
    BY <1>1, <1>2
  <1> HIDE DEF I
  <1>5. -PnlOf(h, J) <= CalmarDrawdown(h) /\ CalmarDrawdown(h) \in Int
    BY <1>2, <1>4, CalmarIsTrailing
  <1> HIDE DEF J
  <1>6. PnlOf(h, I \cup J) = PnlOf(h, I) + PnlOf(h, J) /\ PnlOf(h, I) \in Int /\ PnlOf(h, J) \in Int
    BY <1>4, PnlFacts
  <1>7. c[k].pnl - c[l].pnl = -PnlOf(h, J)
    <2>1. c[k].pnl = PnlOf(h, I) /\ c[l].pnl = PnlOf(h, I \cup J)
      BY <1>3, <1>4 DEF I
    <2> QED
      BY <1>6, <2>1
  <1> QED
    BY <1>5, <1>7 DEF c

\* No drawdown on record is deeper than the drawdown trade by trade.
LEMMA WorstBounded ==
  ASSUME NEW h, Timed(h), NEW z \in Int
  PROVE  EquityCurveData(h, z).worst <= CalmarDrawdown(h)
PROOF
  <1> DEFINE c == DailyCloses(h, z)
             found == DrawdownPeriods(h, z)
             T == {0} \cup {found[k].depth : k \in DOMAIN found}
             u == CalmarDrawdown(h)
  <1>1. u \in Int /\ 0 <= u
    BY CalmarIsTrailing
  <1>2. c \in Seq(Points) /\ Len(c) \in Nat /\ DOMAIN c = 1 .. Len(c)
        /\ \A k \in 1 .. Len(c) : c[k].pnl \in Int
    BY CurveFacts
  <1>3. \A k, l \in 1 .. Len(c) : k < l => c[k].pnl - c[l].pnl <= u
    BY CurveFalls
  <1>4. ToSet(found) = {EntryOf(c, p) : p \in Dips(c, Len(c))}
    BY DrawdownsFound
  <1>5. EquityCurveData(h, z).worst = Max(T)
    BY DEF EquityCurveData
  <1> HIDE DEF c, found, u
  <1>6. ASSUME NEW p \in Dips(c, Len(c))
        PROVE  EntryOf(c, p).depth \in Int /\ EntryOf(c, p).depth <= u
    <2> DEFINE B == Hollow(c, p)
               V == {c[i].pnl : i \in B}
               m == p[1]
    <2>1. m \in 1 .. Len(c) /\ p[2] \in 1 .. Len(c) /\ B # {}
      BY <1>2 DEF Dips, Highs
    <2>2. \A i \in B : i \in 1 .. Len(c) /\ m < i
      <3> DEFINE q == p[2]
      <3>1. m \in 1 .. Len(c) /\ q \in 1 .. Len(c) /\ B \subseteq m + 1 .. q - 1
        BY <2>1 DEF Hollow
      <3> HIDE DEF m, q, B
      <3> QED
        BY <1>2, <3>1
    <2>3. EntryOf(c, p).depth = c[m].pnl - Min(V)
      BY DEF EntryOf
    <2> HIDE DEF B, m
    <2> DEFINE W == {c[m].pnl - u + n : n \in Nat}
    <2>4. V \in SUBSET Int /\ V # {} /\ \A v \in V : c[m].pnl - v <= u
      BY <1>2, <1>3, <2>1, <2>2
    <2>5. PICK v \in V : \A w \in V : v <= w
      <3> DEFINE G == {n \in Nat : c[m].pnl - u + n \in V}
      <3>1. \A w \in V : w - (c[m].pnl - u) \in Nat /\ c[m].pnl - u + (w - (c[m].pnl - u)) = w
        <4> SUFFICES ASSUME NEW w \in V
                     PROVE  w - (c[m].pnl - u) \in Nat /\ c[m].pnl - u + (w - (c[m].pnl - u)) = w
          OBVIOUS
        <4> DEFINE b == c[m].pnl
        <4>1. b \in Int /\ w \in Int /\ b - w <= u
          BY <1>2, <2>1, <2>4
        <4> HIDE DEF b, V
        <4> QED
          BY SMTT(30), <1>1, <4>1 DEF b
      <3> HIDE DEF V
      <3>2. G \in SUBSET Nat /\ G # {}
        BY <2>4, <3>1
      <3>3. PICK n \in G : \A x \in G : n <= x
        <4> HIDE DEF G
        <4> QED
          BY <3>2, LeastOfNats
      <3>4. c[m].pnl - u + n \in V /\ n \in Nat
        OBVIOUS
      <3>5. \A w \in V : c[m].pnl - u + n <= w
        <4> SUFFICES ASSUME NEW w \in V PROVE c[m].pnl - u + n <= w
          OBVIOUS
        <4>1. w - (c[m].pnl - u) \in G
          BY <3>1
        <4>2. n <= w - (c[m].pnl - u)
          BY <3>3, <4>1
        <4>3. c[m].pnl \in Int /\ w \in Int
          BY <1>2, <2>1, <2>4
        <4> QED
          BY <1>1, <3>4, <4>2, <4>3
      <3> QED
        BY <3>4, <3>5
    <2>6. Min(V) = v
      <3> HIDE DEF V
      <3> QED
        BY <2>4, <2>5, MinIs
    <2>7. v \in Int /\ c[m].pnl \in Int /\ c[m].pnl - v <= u
      BY <1>2, <2>1, <2>4
    <2> QED
      BY <2>3, <2>6, <2>7
  <1>7. \A x \in T : x \in Int /\ x <= u
    <2>1. \A k \in DOMAIN found : found[k] \in ToSet(found)
      BY DEF ToSet
    <2>2. \A k \in DOMAIN found : found[k].depth \in Int /\ found[k].depth <= u
      BY <1>4, <1>6, <2>1
    <2> QED
      BY <1>1, <2>2
  <1>8. T \in SUBSET Int /\ T # {}
    BY <1>7
  <1> HIDE DEF T
  <1>9. Max(T) \in T
    BY <1>1, <1>7, <1>8, MaxOfBounded
  <1> QED
    BY <1>5, <1>7, <1>9 DEF u

\* The one-pass loops find what their definitions say, for any history and offset: the
\* streaks are the maximal runs of wins and losses and the drawdowns on record those
\* between neighbouring highs, and neither is exceeded by what other loops report
\* (analytics.py:264-283, 336-353, 433-441).
THEOREM OnePassExact == ReportSpec => []OnePassAgrees
PROOF
  <1>1. ReportTypeOK => OnePassAgrees
    <2> SUFFICES ASSUME ReportTypeOK PROVE OnePassAgrees
      OBVIOUS
    <2>1. Timed(history) /\ offset \in Int
      BY TimedIsTyped, HistoryAssumption DEF ReportTypeOK
    <2>2. StreaksAgree
      BY <2>1, StreaksAreRuns, LossesBounded DEF StreaksAgree
    <2>3. DrawdownsAgree
      <3> DEFINE c == DailyCloses(history, offset)
                 Between(p) == {i \in p[1] + 1 .. p[2] - 1 : c[i].pnl < c[p[1]].pnl}
                 pairs == {p \in Highs(c) \X Highs(c) :
                    p[1] < p[2] /\ Between(p) # {} /\ Highs(c) \cap (p[1] + 1 .. p[2] - 1) = {}}
      <3>1. DOMAIN c = 1 .. Len(c) /\ Len(c) \in Nat
        BY <2>1, CurveFacts
      <3>2. pairs = Dips(c, Len(c))
        <4>1. \A p \in Highs(c) \X Highs(c) : p[2] <= Len(c)
          BY <3>1 DEF Highs
        <4>2. \A p : Between(p) = Hollow(c, p)
          BY DEF Hollow
        <4> HIDE DEF Between, c
        <4> QED
          BY <4>1, <4>2 DEF Dips
      <3>3. \A p : [start |-> <<c[Min(Between(p))].day>>, end |-> c[p[2]].day,
                    depth |-> c[p[1]].pnl - Min({c[i].pnl : i \in Between(p)})] = EntryOf(c, p)
        BY DEF EntryOf, Hollow
      <3>4. ToSet(DrawdownPeriods(history, offset)) = {EntryOf(c, p) : p \in Dips(c, Len(c))}
        BY <2>1, DrawdownsFound
      <3>5. EquityCurveData(history, offset).worst <= CalmarDrawdown(history)
        BY <2>1, WorstBounded
      <3> HIDE DEF pairs, Between, c
      <3>6. ToSet(DrawdownPeriods(history, offset)) =
              {[start |-> <<c[Min(Between(p))].day>>, end |-> c[p[2]].day,
                depth |-> c[p[1]].pnl - Min({c[i].pnl : i \in Between(p)})] : p \in pairs}
        BY <3>2, <3>3, <3>4
      <3> QED
        BY <3>5, <3>6 DEF DrawdownsAgree, pairs, Between, c
    <2> QED
      BY <2>2, <2>3 DEF OnePassAgrees
  <1> QED
    BY <1>1, ReportTypeCorrect, PTL

-----------------------------------------------------------------------------
(* The reports a day later.                                                *)

\* A prefix, entry by entry.
LEMMA PrefixIs ==
  ASSUME NEW R, NEW s \in Seq(R), NEW t \in Seq(R)
  PROVE  IsPrefix(s, t) <=> Len(s) <= Len(t) /\ \A i \in 1 .. Len(s) : s[i] = t[i]
PROOF
  <1> DEFINE m == Len(s)
             n == Len(t)
             u == SubSeq(t, 1, m)
  <1>1. m \in Nat /\ n \in Nat /\ m = Len(s) /\ n = Len(t) /\ s = [i \in 1 .. m |-> s[i]]
    BY LenProperties
  <1>2. SubSeq(s, 1, m) = s
    <2> DEFINE v == SubSeq(s, 1, m)
    <2>1. m \in 0 .. m
      BY <1>1
    <2>2. v \in Seq(R) /\ Len(v) = m /\ \A i \in 1 .. m : v[i] = s[i]
      <3> HIDE DEF m
      <3>1. Parts(v, SubSeq(s, m + 1, m), R, s, m, m)
        BY <1>1, <2>1, TwoParts
      <3> HIDE DEF v
      <3> QED
        BY <3>1 DEF Parts
    <2> HIDE DEF v, m
    <2>3. v = [i \in 1 .. m |-> v[i]]
      BY <2>2, LenProperties
    <2>4. v = s
      BY <1>1, <2>2, <2>3
    <2> QED
      BY <2>4 DEF v
  <1> HIDE DEF m, n
  <1>3. ASSUME m <= n
        PROVE  s = u <=> \A i \in 1 .. m : s[i] = t[i]
    <2>1. m \in 0 .. n
      BY <1>1, <1>3
    <2>2. u \in Seq(R) /\ Len(u) = m /\ \A i \in 1 .. m : u[i] = t[i]
      <3>1. Parts(u, SubSeq(t, m + 1, n), R, t, n, m)
        BY <1>1, <2>1, TwoParts
      <3> HIDE DEF u
      <3> QED
        BY <3>1 DEF Parts
    <2> HIDE DEF u
    <2>3. u = [i \in 1 .. m |-> u[i]]
      BY <2>2, LenProperties
    <2>4. ASSUME \A i \in 1 .. m : s[i] = t[i]
          PROVE  s = u
      BY <1>1, <2>2, <2>3, <2>4
    <2> QED
      BY <2>2, <2>4
  <1> QED
    BY <1>1, <1>2, <1>3 DEF IsPrefix

\* A history and the one it is when a trade of a later day has arrived.
Later(g, h, z) ==
    /\ Timed(g) /\ Timed(h) /\ z \in Int /\ Len(h) = Len(g) + 1
    /\ \A i \in 1 .. Len(g) : h[i] = g[i]
    /\ Len(g) > 0 => LocalDay(h[Len(g)], z) < LocalDay(h[Len(h)], z)

\* The streaks before the last stand.
LEMMA LaterStreaks ==
  ASSUME NEW g, NEW h, NEW z, Later(g, h, z)
  PROVE  /\ Streaks(h) = Joined(Streaks(g), h[Len(h)])
         /\ Len(g) > 0 => IsPrefix(Front(Streaks(g)), Streaks(h))
PROOF
  <1> DEFINE A == StreaksUpTo(g)
             B == StreaksUpTo(h)
             N == Len(g)
             t == h[Len(h)]
             P == {n \in Nat : n <= N => B[n] = A[n]}
  <1>1. /\ N \in Nat /\ Len(h) = N + 1 /\ t.pnl \in Int /\ Len(h) \in 1 .. Len(h)
        /\ \A i \in 1 .. N : h[i] = g[i]
    BY TimedFacts DEF Later
  <1>2. /\ A[0] = <<>> /\ B[0] = <<>>
        /\ (\A n \in 1 .. N : A[n] = Joined(A[n - 1], g[n]))
        /\ (\A n \in 1 .. N + 1 : B[n] = Joined(B[n - 1], h[n]))
        /\ A[N] \in Seq(StreakRecord)
    <2>1. N \in 0 .. N
      BY <1>1
    <2> QED
      BY <1>1, <2>1, StreakLoop DEF Later
  <1> HIDE DEF A, B, N, t
  <1>3. 0 \in P
    BY <1>2
  <1>4. ASSUME NEW n \in Nat, n \in P
        PROVE  n + 1 \in P
    <2> SUFFICES ASSUME n + 1 <= N PROVE B[n + 1] = A[n + 1]
      OBVIOUS
    <2>1. n + 1 \in 1 .. N /\ n + 1 \in 1 .. N + 1 /\ (n + 1) - 1 = n /\ B[n] = A[n]
      BY <1>1, <1>4
    <2> QED
      BY <1>1, <1>2, <2>1
  <1> HIDE DEF P
  <1>5. B[N] = A[N]
    <2>1. N \in P
      BY <1>1, <1>3, <1>4, NatsByInduction
    <2> QED
      BY <1>1, <2>1 DEF P
  <1> DEFINE all == A[N]
  <1>6. /\ Streaks(g) = all /\ Streaks(h) = B[N + 1] /\ B[N + 1] = Joined(all, t)
    <2>1. N + 1 \in 1 .. N + 1 /\ (N + 1) - 1 = N
      BY <1>1
    <2>2. Streaks(g) = all /\ Streaks(h) = B[N + 1]
      BY <1>1 DEF Streaks, A, B, N
    <2> QED
      BY <1>1, <1>2, <1>5, <2>1, <2>2 DEF t
  <1>7. all \in Seq(StreakRecord)
    BY <1>2
  <1> HIDE DEF all
  <1>8. ASSUME N > 0
        PROVE  IsPrefix(Front(all), Joined(all, t))
    <2> DEFINE L == Len(all)
               f == Front(all)
               j == Joined(all, t)
    <2>1. /\ all \in Seq(StreakRecord) /\ L \in Nat /\ j \in Seq(StreakRecord)
          /\ L <= Len(j) /\ \A i \in 1 .. L - 1 : j[i] = all[i]
      <3>1. L \in Nat /\ j \in Seq(StreakRecord)
        BY <1>1, <1>7, JoinedFacts
      <3>2. CASE Joins(all, t)
        <4>1. Len(j) = L /\ \A i \in 1 .. L - 1 : j[i] = all[i]
          <5>1. Longer(j, all, t, L)
            BY <1>1, <1>7, <3>2, JoinedFacts
          <5> HIDE DEF j, L
          <5> QED
            BY <5>1 DEF Longer
        <4> HIDE DEF j
        <4> QED
          BY <1>7, <3>1, <4>1
      <3>3. CASE ~Joins(all, t)
        <4>1. Len(j) = L + 1 /\ \A i \in 1 .. L : j[i] = all[i]
          <5>1. OneMore(j, all, t, L)
            BY <1>1, <1>7, <3>3, JoinedFacts
          <5> HIDE DEF j, L
          <5> QED
            BY <5>1 DEF OneMore
        <4>2. \A i \in 1 .. L - 1 : i \in 1 .. L
          BY <3>1
        <4> QED
          BY <1>7, <3>1, <4>1, <4>2
      <3> QED
        BY <1>7, <3>1, <3>2, <3>3
    <2>2. L > 0
      <3>1. \E s : LaidOut(g, N, all, s)
        <4>1. N \in 0 .. N
          BY <1>1
        <4> QED
          BY <4>1, StreaksLaid DEF Later, all, A, N
      <3>2. all # <<>>
        BY <1>1, <1>8, <3>1 DEF LaidOut
      <3> QED
        BY <2>1, <3>2, EmptySeq
    <2> HIDE DEF j
    <2>3. f \in Seq(StreakRecord) /\ Len(f) = L - 1 /\ \A i \in 1 .. L - 1 : f[i] = all[i]
      <3> DEFINE M == Len(all)
      <3>1. M \in Nat /\ M - 1 \in 0 .. M /\ M = L /\ M = Len(all)
        BY <2>1, <2>2
      <3> HIDE DEF M
      <3>2. Parts(SubSeq(all, 1, M - 1), SubSeq(all, M - 1 + 1, M), StreakRecord, all, M, M - 1)
        BY <2>1, <3>1, TwoParts
      <3> QED
        BY <3>1, <3>2 DEF Front, Parts
    <2> HIDE DEF f
    <2>4. Len(f) <= Len(j) /\ \A i \in 1 .. Len(f) : f[i] = j[i]
      <3>1. Len(j) \in Nat
        BY <2>1, LenProperties
      <3> QED
        BY SMTT(30), <2>1, <2>2, <2>3, <3>1
    <2>5. IsPrefix(f, j)
      BY <2>1, <2>3, <2>4, PrefixIs
    <2> QED
      BY <2>5 DEF f, j
  <1> QED
    BY <1>6, <1>8 DEF t, N

\* The daily curve gets one more point.
LEMMA LaterCurve ==
  ASSUME NEW g, NEW h, NEW z, Later(g, h, z)
  PROVE  LET c == DailyCloses(g, z)
             d == DailyCloses(h, z) IN
         Len(d) = Len(c) + 1 /\ \A k \in 1 .. Len(c) : d[k] = c[k]
PROOF
  <1> DEFINE c == DailyCloses(g, z)
             d == DailyCloses(h, z)
             E == LastOnes(g, z)
             F == LastOnes(h, z)
             a == Ascending(E)
             M == Len(c)
             N == Len(g)
             b == [k \in 1 .. M + 1 |-> IF k <= M THEN a[k] ELSE N + 1]
  <1>1. /\ N \in Nat /\ Len(h) = N + 1 /\ Timed(g) /\ Timed(h) /\ z \in Int
        /\ (\A i \in 1 .. N : h[i] = g[i])
        /\ (N > 0 => LocalDay(h[N], z) < LocalDay(h[N + 1], z))
    BY TimedFacts DEF Later
  <1>2. /\ M \in Nat /\ DOMAIN a = 1 .. M
        /\ \A k \in 1 .. M : a[k] \in E /\ a[k] \in 1 .. N /\ c[k] = PointAt(g, z, a[k])
        /\ \A k, l \in 1 .. M : k < l <=> a[k] < a[l]
        /\ \A i \in E : \E k \in 1 .. M : a[k] = i
    BY <1>1, CurveFacts
  <1>3. F = E \cup {N + 1}
    <2>1. \A i \in 1 .. N + 1 : LocalDay(h[i], z) \in Int
      BY <1>1, DaysGoOn
    <2> HIDE DEF N
    <2>2. \A i : i \in 1 .. N + 1 <=> i \in 1 .. N \/ i = N + 1
      BY <1>1
    <2>3. \A i \in 1 .. N : i # N + 1 /\ (i # N => i + 1 \in 1 .. N) /\ (i = N => N > 0)
      BY <1>1
    <2>4. E = {i \in 1 .. N : i = N \/ LocalDay(g[i + 1], z) # LocalDay(g[i], z)}
      BY DEF LastOnes, N
    <2>5. F = {i \in 1 .. N + 1 : i = N + 1 \/ LocalDay(h[i + 1], z) # LocalDay(h[i], z)}
      BY <1>1 DEF LastOnes
    <2>6. \A i \in 1 .. N : (LocalDay(h[i + 1], z) # LocalDay(h[i], z))
                            <=> (i = N \/ LocalDay(g[i + 1], z) # LocalDay(g[i], z))
      <3> SUFFICES ASSUME NEW i \in 1 .. N
                   PROVE  (LocalDay(h[i + 1], z) # LocalDay(h[i], z))
                            <=> (i = N \/ LocalDay(g[i + 1], z) # LocalDay(g[i], z))
        OBVIOUS
      <3>1. CASE i = N
        <4>1. LocalDay(h[N], z) < LocalDay(h[N + 1], z) /\ N \in 1 .. N + 1 /\ N + 1 \in 1 .. N + 1
          BY <1>1, <2>2, <2>3, <3>1
        <4>2. LocalDay(h[N], z) \in Int /\ LocalDay(h[N + 1], z) \in Int
          BY <2>1, <4>1
        <4> QED
          BY <3>1, <4>1, <4>2
      <3>2. CASE i # N
        BY <1>1, <2>3, <3>2
      <3> QED
        BY <3>1, <3>2
    <2> HIDE DEF E, F
    <2>7. ASSUME NEW i
          PROVE  i \in F <=> i \in E \/ i = N + 1
      <3>1. CASE i \in 1 .. N
        BY <2>2, <2>3, <2>4, <2>5, <2>6, <3>1
      <3>2. CASE i \notin 1 .. N
        BY <2>2, <2>4, <2>5, <3>2
      <3> QED
        BY <3>1, <3>2
    <2> QED
      BY <2>7
  <1> HIDE DEF a, M, c, E, F, N
  <1>4. b \in [1 .. M + 1 -> F]
    BY <1>2, <1>3
  <1>5. /\ (\A k \in 1 .. M : k \in 1 .. M + 1 /\ b[k] = a[k]) /\ b[M + 1] = N + 1
        /\ M + 1 \in 1 .. M + 1
        /\ \A k : k \in 1 .. M + 1 <=> k \in 1 .. M \/ k = M + 1
    <2>1. (\A k \in 1 .. M : k \in 1 .. M + 1 /\ k <= M) /\ M + 1 \in 1 .. M + 1 /\ ~(M + 1 <= M)
      BY <1>2
    <2>2. \A k : k \in 1 .. M + 1 <=> k \in 1 .. M \/ k = M + 1
      BY <1>2
    <2> QED
      BY <2>1, <2>2
  <1> HIDE DEF b
  <1>6. Ascending(F) = b
    <2>1. M + 1 \in Nat /\ F \in SUBSET Int
      <3>1. F \subseteq 1 .. N + 1
        BY <1>1 DEF F, LastOnes
      <3> QED
        BY <1>1, <1>2, <3>1
    <2>2. \A i \in F : \E k \in 1 .. M + 1 : b[k] = i
      BY <1>2, <1>3, <1>5
    <2>3. ASSUME NEW k \in 1 .. M + 1, NEW l \in 1 .. M + 1, k < l
          PROVE  b[k] < b[l]
      <3>1. k \in 1 .. M
        BY <1>2, <2>3
      <3>2. a[k] \in 1 .. N /\ b[k] = a[k] /\ a[k] < N + 1
        BY <1>1, <1>2, <1>5, <3>1
      <3>3. CASE l = M + 1
        BY <1>5, <3>2, <3>3
      <3>4. CASE l \in 1 .. M
        BY <1>2, <1>5, <2>3, <3>1, <3>4
      <3> QED
        BY <1>5, <3>3, <3>4
    <2> QED
      BY <1>4, <2>1, <2>2, <2>3, AscendingIs
  <1>7. d = [k \in 1 .. M + 1 |-> PointAt(h, z, b[k])]
    <2>1. DOMAIN b = 1 .. M + 1
      BY <1>4
    <2>2. d = [k \in DOMAIN Ascending(F) |-> PointAt(h, z, Ascending(F)[k])]
      BY <1>1, CurveIs DEF F
    <2> HIDE DEF d
    <2> QED
      BY <1>6, <2>1, <2>2
  <1>8. Len(d) = M + 1
    <2>1. DOMAIN d = 1 .. M + 1
      BY <1>7
    <2>2. Len(d) \in Nat /\ DOMAIN d = 1 .. Len(d)
      BY <1>1, CurveFacts
    <2> HIDE DEF d
    <2> QED
      BY <1>2, <2>1, <2>2
  <1>9. ASSUME NEW k \in 1 .. M
        PROVE  d[k] = c[k]
    <2> DEFINE i == a[k]
    <2>1. d[k] = PointAt(h, z, i) /\ c[k] = PointAt(g, z, i) /\ i \in 1 .. N
      BY <1>2, <1>5, <1>7
    <2> HIDE DEF i
    <2>2. PnlOf(g, 1 .. i) = PnlOf(h, 1 .. i)
      <3>1. Positions(g) = 1 .. N /\ Positions(h) = 1 .. N + 1
        BY <1>1 DEF Positions, N
      <3>2. 1 .. i \subseteq 1 .. N /\ 1 .. i \subseteq 1 .. N + 1
        BY <1>1, <2>1
      <3>3. \A x \in 1 .. i : g[x].pnl = h[x].pnl
        BY <1>1, <3>2
      <3> QED
        BY <1>1, <3>1, <3>2, <3>3, PnlSame
    <2> QED
      BY <1>1, <2>1, <2>2 DEF PointAt
  <1> QED
    BY <1>8, <1>9 DEF M, c

\* So a drawdown on record stays there.
LEMMA LaterDrawdowns ==
  ASSUME NEW g, NEW h, NEW z, Later(g, h, z)
  PROVE  IsPrefix(DrawdownPeriods(g, z), DrawdownPeriods(h, z))
PROOF
  <1> DEFINE c == DailyCloses(g, z)
             d == DailyCloses(h, z)
             A == DrawdownScan(c)
             B == DrawdownScan(d)
             N == Len(c)
             P == {n \in Nat : n <= N => B[n] = A[n]}
  <1>1. /\ N \in Nat /\ Len(d) = N + 1 /\ (\A i \in 1 .. N : d[i] = c[i])
        /\ c \in Seq(Points) /\ d \in Seq(Points)
    <2>1. Timed(g) /\ Timed(h) /\ z \in Int
      BY DEF Later
    <2> QED
      BY <2>1, LaterCurve, CurveFacts
  <1>2. DrawdownPeriods(g, z) = A[N].found /\ DrawdownPeriods(h, z) = B[N + 1].found
    BY <1>1 DEF DrawdownPeriods
  <1> HIDE DEF c, d
  <1>3. /\ A[0] = B[0]
        /\ (\A n \in 1 .. N : A[n] = Watched(A[n - 1], c[n]))
        /\ (\A n \in 1 .. N + 1 : B[n] = Watched(B[n - 1], d[n]))
        /\ A[N] \in Watch
    <2>1. N \in 0 .. N
      BY <1>1
    <2> QED
      BY <1>1, <2>1, ScanLoop
  <1> HIDE DEF A, B, N
  <1>4. 0 \in P
    BY <1>3
  <1>5. ASSUME NEW n \in Nat, n \in P
        PROVE  n + 1 \in P
    <2> SUFFICES ASSUME n + 1 <= N PROVE B[n + 1] = A[n + 1]
      OBVIOUS
    <2>1. n + 1 \in 1 .. N /\ n + 1 \in 1 .. N + 1 /\ (n + 1) - 1 = n /\ B[n] = A[n]
      BY <1>1, <1>5
    <2> QED
      BY <1>1, <1>3, <2>1
  <1> HIDE DEF P
  <1>6. N \in P
    BY <1>1, <1>4, <1>5, NatsByInduction
  <1> DEFINE s == A[N]
             p == d[N + 1]
  <1>7. B[N + 1] = Watched(s, p) /\ s \in Watch /\ p \in Points
    <2>1. N + 1 \in 1 .. N + 1 /\ (N + 1) - 1 = N /\ B[N] = A[N]
      BY <1>1, <1>6 DEF P
    <2>2. p \in Points
      BY <1>1, <2>1, ElementOfSeq
    <2> QED
      BY <1>3, <2>1, <2>2
  <1> HIDE DEF s, p
  <1> DEFINE f == s.found
             e == [start |-> s.start, end |-> p.day, depth |-> s.peak - s.low]
  <1>8. Watched(s, p).found = f \/ Watched(s, p).found = Append(f, e)
    <2>1. Recorded(s, p) = f \/ Recorded(s, p) = Append(f, e)
      BY DEF Recorded
    <2>2. Watched(s, p).found = f \/ Watched(s, p).found = Recorded(s, p)
      BY <1>7 DEF Watched, Watch
    <2> QED
      BY <2>1, <2>2
  <1>9. /\ f \in Seq(DrawdownRecord) /\ e \in DrawdownRecord
        /\ Watched(s, p).found \in Seq(DrawdownRecord)
    <2>1. Watched(s, p) \in Watch
      BY <1>7, WatchedIsWatch
    <2>2. f \in Seq(DrawdownRecord) /\ s.start \in Seq(Int) /\ s.peak \in Int /\ s.low \in Int
      BY <1>7 DEF Watch
    <2>3. p.day \in Int
      BY <1>7 DEF Points
    <2>4. Watched(s, p).found \in Seq(DrawdownRecord)
      BY <2>1 DEF Watch
    <2> QED
      BY <2>2, <2>3, <2>4 DEF DrawdownRecord
  <1> DEFINE w == Watched(s, p).found
  <1> HIDE DEF f, e, w
  <1>10. Len(f) \in Nat /\ Len(f) <= Len(w) /\ \A i \in 1 .. Len(f) : f[i] = w[i]
    <2>1. Len(f) \in Nat
      BY <1>9, LenProperties
    <2>2. CASE w = f
      BY <2>1, <2>2
    <2>3. CASE w = Append(f, e)
      <3>1. Len(w) = Len(f) + 1 /\ \A i \in 1 .. Len(f) : w[i] = f[i]
        BY <1>9, <2>3, AppendProperties
      <3> QED
        BY <2>1, <3>1
    <2> QED
      BY <1>8, <2>2, <2>3 DEF w
  <1>11. IsPrefix(f, w)
    BY <1>9, <1>10, PrefixIs DEF w
  <1> QED
    BY <1>2, <1>7, <1>11 DEF f, w, s

\* What the behaviour detectors said of the trades before stands.
LEMMA LaterVerdicts ==
  ASSUME NEW g, NEW h, NEW z, Later(g, h, z)
  PROVE  /\ RevengeTrades(g) = RevengeTrades(h) \cap Positions(g)
         /\ TiltEvents(g) = TiltEvents(h) \cap Positions(g)
PROOF
  <1> DEFINE N == Len(g)
             P == {n \in Nat : n <= N => LossesUpTo(g, n) = LossesUpTo(h, n)}
  <1>1. /\ N \in Nat /\ Len(h) = N + 1 /\ (\A i \in 1 .. N : h[i] = g[i])
        /\ Positions(g) = 1 .. N /\ Timed(g) /\ Timed(h)
    BY TimedFacts DEF Later
  <1>2. /\ LossesUpTo(g, 0) = LossesUpTo(h, 0)
        /\ \A i \in 1 .. N :
              LossesUpTo(g, i) = IF g[i].pnl >= 0 THEN 0 ELSE LossesUpTo(g, i - 1) + 1
        /\ \A i \in 1 .. N + 1 :
              LossesUpTo(h, i) = IF h[i].pnl >= 0 THEN 0 ELSE LossesUpTo(h, i - 1) + 1
    BY <1>1, LossesLoop
  <1> HIDE DEF N
  <1>3. 0 \in P
    BY <1>2
  <1>4. ASSUME NEW n \in Nat, n \in P
        PROVE  n + 1 \in P
    <2> SUFFICES ASSUME n + 1 <= N PROVE LossesUpTo(g, n + 1) = LossesUpTo(h, n + 1)
      OBVIOUS
    <2>1. n + 1 \in 1 .. N /\ n + 1 \in 1 .. N + 1 /\ (n + 1) - 1 = n
          /\ LossesUpTo(g, n) = LossesUpTo(h, n)
      BY <1>1, <1>4
    <2> QED
      BY <1>1, <1>2, <2>1
  <1> HIDE DEF P
  <1>5. \A n \in 0 .. N : LossesUpTo(g, n) = LossesUpTo(h, n)
    <2>1. \A n \in Nat : n \in P
      BY <1>3, <1>4, NatsByInduction
    <2> QED
      BY <1>1, <2>1 DEF P
  <1>6. \A i : i \in 2 .. N <=> i \in 2 .. N + 1 /\ i \in 1 .. N
    BY <1>1
  <1>7. \A i \in 2 .. N : /\ i \in 1 .. N /\ i - 1 \in 1 .. N /\ i - 1 \in 0 .. N
                          /\ h[i] = g[i] /\ h[i - 1] = g[i - 1]
                          /\ LossesUpTo(g, i - 1) = LossesUpTo(h, i - 1)
    <2>1. \A i \in 2 .. N : i \in 1 .. N /\ i - 1 \in 1 .. N /\ i - 1 \in 0 .. N
      BY <1>1
    <2> QED
      BY <1>1, <1>5, <2>1
  <1>8. RevengeTrades(g) = RevengeTrades(h) \cap (1 .. N)
    BY <1>1, <1>6, <1>7 DEF RevengeTrades, N
  <1>9. TiltEvents(g) = TiltEvents(h) \cap (1 .. N)
    BY <1>1, <1>6, <1>7 DEF TiltEvents, N
  <1> QED
    BY <1>1, <1>8, <1>9

\* A trade of a later day withdraws nothing of the reports, for any history and offset:
\* closed streaks, drawdowns on record, revenge and tilt verdicts stand
\* (analytics.py:264-283, 336-353, behavioral.py:39, 118).
THEOREM LaterDaysOnlyAdd == ReportSpec => ReportsGrow
PROOF
  <1>1. ReportTypeOK /\ ReportTypeOK' /\ [ReportNext]_reportVars => Grows
    <2> SUFFICES ASSUME ReportTypeOK, ReportTypeOK', [ReportNext]_reportVars, LaterDay
                 PROVE  /\ history # <<>> => IsPrefix(Front(Streaks(history)), Streaks(history'))
                        /\ IsPrefix(DrawdownPeriods(history, offset), DrawdownPeriods(history', offset))
                        /\ RevengeTrades(history) = RevengeTrades(history') \cap Positions(history)
                        /\ TiltEvents(history) = TiltEvents(history') \cap Positions(history)
      BY DEF Grows
    <2> DEFINE g == history
               h == history'
               z == offset
               N == Len(g)
    <2>1. Timed(g) /\ Timed(h) /\ z \in Int /\ z \in Offsets
      BY TimedIsTyped, HistoryAssumption
    <2>2. N \in Nat /\ Len(h) \in Nat /\ Positions(g) = 1 .. N /\ g \in Seq(Coherents) /\ h \in Seq(Coherents)
      BY <2>1, TimedFacts DEF Timed
    <2>3. Len(h) > N
      BY DEF LaterDay
    <2>4. Len(h) = N + 1
      <3>1. ~(UNCHANGED reportVars)
        BY <2>2, <2>3 DEF reportVars
      <3>2. ASSUME NEW i \in Positions(g), RemoveTrade(i)
            PROVE  FALSE
        <4>1. h = RemoveAt(g, i) /\ i \in 1 .. N /\ i - 1 \in 0 .. N /\ i \in 0 .. N /\ (i - 1) + 1 = i
          BY <2>2, <3>2 DEF RemoveTrade, Edit
        <4> DEFINE a == SubSeq(g, 1, i - 1)
                   b == SubSeq(g, i + 1, N)
        <4>2. a \in Seq(Coherents) /\ Len(a) = i - 1 /\ b \in Seq(Coherents) /\ Len(b) = N - i
          <5>1. Parts(SubSeq(g, 1, i - 1), SubSeq(g, i - 1 + 1, N), Coherents, g, N, i - 1)
            BY <2>2, <4>1, TwoParts
          <5>2. Parts(SubSeq(g, 1, i), b, Coherents, g, N, i)
            BY <2>2, <4>1, TwoParts
          <5> HIDE DEF b
          <5> QED
            BY <5>1, <5>2 DEF Parts
        <4>3. h = a \o b
          BY <4>1 DEF RemoveAt
        <4> HIDE DEF a, b, h, N
        <4>4. Len(h) = Len(a) + Len(b)
          BY <4>2, <4>3, ConcatProperties
        <4>5. Len(h) = (i - 1) + (N - i)
          BY <4>2, <4>4
        <4> QED
          BY <2>2, <2>3, <4>1, <4>5
      <3>3. ASSUME AutoTag
            PROVE  FALSE
        <4>1. Len(h) = N
          BY <2>1, <3>3, TaggedIsTimed DEF AutoTag
        <4> QED
          BY <2>2, <2>3, <4>1
      <3>4. ASSUME NEW t \in Arrivals, ImportTrade(t)
            PROVE  Len(h) = N + 1
        <4> DEFINE n == Cardinality({i \in Positions(g) : g[i].at <= t.at})
                   a == SubSeq(g, 1, n)
                   b == SubSeq(g, n + 1, N)
        <4>1. h = InsertAt(g, n + 1, t)
          BY <3>4 DEF ImportTrade, Edit, Placed
        <4>2. n \in 0 .. N
          <5> DEFINE I == {i \in Positions(g) : g[i].at <= t.at}
          <5>1. I \subseteq 1 .. N
            BY <2>2
          <5> HIDE DEF I
          <5>2. IsFiniteSet(1 .. N) /\ Cardinality(1 .. N) = N
            <6> HIDE DEF N
            <6>1. Cardinality(1 .. N) = N - 1 + 1 /\ IsFiniteSet(1 .. N)
              BY <2>2, FS_Interval
            <6> QED
              BY <2>2, <6>1
          <5>3. Cardinality(I) \in Nat /\ Cardinality(I) <= N
            BY <5>1, <5>2, FS_Subset, FS_CardinalityType
          <5>4. Cardinality(I) \in 0 .. N
            BY <2>2, <5>3
          <5> QED
            BY <5>4 DEF I
        <4> HIDE DEF n
        <4>3. /\ a \in Seq(Coherents) /\ Len(a) = n /\ b \in Seq(Coherents) /\ Len(b) = N - n
              /\ (n + 1) - 1 = n
          <5>1. Parts(a, b, Coherents, g, N, n)
            BY <2>2, <4>2, TwoParts
          <5> HIDE DEF a, b
          <5>2. n \in Nat /\ (n + 1) - 1 = n
            BY <4>2
          <5> QED
            BY <5>1, <5>2 DEF Parts
        <4>4. h = (a \o <<t>>) \o b
          BY <4>1, <4>3 DEF InsertAt
        <4>5. t \in Coherents
          BY HistoryAssumption DEF Coherents
        <4> DEFINE o == <<t>>
        <4>6. o \in Seq(Coherents) /\ Len(o) = 1
          BY <4>5
        <4> HIDE DEF a, b, h, N, o
        <4>7. a \o o \in Seq(Coherents) /\ Len(a \o o) = Len(a) + Len(o)
          BY <4>3, <4>6, ConcatProperties
        <4>8. Len((a \o o) \o b) = Len(a \o o) + Len(b)
          BY <4>3, <4>7, ConcatProperties
        <4>9. Len((a \o o) \o b) = (n + 1) + (N - n)
          BY <4>3, <4>6, <4>7, <4>8
        <4> QED
          BY <2>2, <4>2, <4>4, <4>9 DEF o
      <3> QED
        BY <2>2, <3>1, <3>2, <3>3, <3>4 DEF ReportNext
    <2>5. \A i \in 1 .. N : h[i] = g[i]
      <3>1. IsPrefix(g, h)
        BY DEF LaterDay
      <3> HIDE DEF g, h, N
      <3> QED
        BY <2>2, <3>1, PrefixIs DEF N
    <2>6. N > 0 => LocalDay(h[N], z) < LocalDay(h[Len(h)], z)
      <3> SUFFICES ASSUME N > 0 PROVE LocalDay(h[N], z) < LocalDay(h[Len(h)], z)
        OBVIOUS
      <3>1. g # <<>> /\ N \in 1 .. N
        BY <2>2
      <3>2. LocalDay(Last(h), z) > LocalDay(Last(g), z)
        BY <3>1 DEF LaterDay
      <3>3. h[N] = g[N] /\ Last(g) = g[N] /\ Last(h) = h[Len(h)]
        BY <2>5, <3>1 DEF Last
      <3>4. LocalDay(g[N], z) \in Int /\ LocalDay(h[Len(h)], z) \in Int
        <4>1. Len(h) \in 1 .. Len(h)
          BY <2>2, <2>3
        <4> QED
          BY <2>1, <3>1, <4>1, DaysGoOn
      <3> HIDE DEF g, h, N
      <3> QED
        BY <3>2, <3>3, <3>4
    <2>7. Later(g, h, z)
      <3> HIDE DEF g, h
      <3> QED
        BY <2>1, <2>4, <2>5, <2>6 DEF Later
    <2>8. g # <<>> => N > 0
      <3> HIDE DEF g
      <3> QED
        BY <2>2, EmptySeq DEF N
    <2> HIDE DEF g, h
    <2>9. /\ (g # <<>> => IsPrefix(Front(Streaks(g)), Streaks(h)))
          /\ IsPrefix(DrawdownPeriods(g, z), DrawdownPeriods(h, z))
          /\ RevengeTrades(g) = RevengeTrades(h) \cap Positions(g)
          /\ TiltEvents(g) = TiltEvents(h) \cap Positions(g)
      BY <2>7, <2>8, LaterStreaks, LaterDrawdowns, LaterVerdicts DEF N
    <2> QED
      BY <2>9 DEF g, h
  <1>2. ReportSpec => [][ReportNext]_reportVars
    BY DEF ReportSpec
  <1>3. ReportTypeOK /\ ReportTypeOK' /\ [ReportNext]_reportVars => [Grows]_reportVars
    BY <1>1
  <1> QED
    BY <1>2, <1>3, ReportTypeCorrect, PTL DEF ReportsGrow

-----------------------------------------------------------------------------
(* The weeks of the weekly report.                                         *)

\* The trades up to a moment are the first ones.
LEMMA FirstTrades ==
  ASSUME NEW h, Timed(h), NEW d \in Int
  PROVE  LET I == {i \in Positions(h) : h[i].at <= d} IN
         Cardinality(I) \in 0 .. Len(h) /\ I = 1 .. Cardinality(I)
PROOF
  <1> DEFINE key == [x \in Coherents |-> x.at]
             I == {i \in Positions(h) : h[i].at <= d}
             J == {i \in DOMAIN h : key[h[i]] <= d}
  <1>1. /\ h \in Seq(Coherents) /\ DOMAIN h = Positions(h)
        /\ \A i \in DOMAIN h : h[i] \in Coherents
        /\ \A i, j \in DOMAIN h : i < j => h[i].at <= h[j].at
    BY TimedFacts DEF Timed
  <1>2. \A x \in Coherents : key[x] = x.at /\ key[x] \in Int
    BY DEF Coherents, TradeRecord
  <1> HIDE DEF key
  <1>3. Increasing(h, key)
    BY <1>1, <1>2 DEF Increasing
  <1>4. I = J
    BY <1>1, <1>2
  <1>5. Cardinality(J) \in 0 .. Len(h) /\ J = 1 .. Cardinality(J)
    BY SMTT(30), <1>1, <1>2, <1>3, FirstOnes
  <1> QED
    BY <1>4, <1>5

\* The two weeks are runs of positions: old trades before them, k before this week.
Older(h, now) == Cardinality({i \in Positions(h) : h[i].at < now - 2 * Week})
WeeksCut(h, now, k) ==
    /\ Older(h, now) \in 0 .. Len(h) /\ k \in Older(h, now) .. Len(h)
    /\ ThisWeek(h, now) = [n \in 1 .. Len(h) - k |-> h[k + n]]
    /\ PrevWeek(h, now) = [n \in 1 .. k - Older(h, now) |-> h[Older(h, now) + n]]

\* Any moment cuts the history there.
LEMMA WeeksAre ==
  ASSUME NEW h, Timed(h), NEW now \in Int
  PROVE  \E k : WeeksCut(h, now, k)
PROOF
  <1> DEFINE N == Len(h)
             I == {i \in Positions(h) : h[i].at <= now - Week - 1}
             J == {i \in Positions(h) : h[i].at <= now - 2 * Week - 1}
             K == {i \in Positions(h) : h[i].at < now - 2 * Week}
             k == Cardinality(I)
             l == Cardinality(J)
             this == {i \in Positions(h) : h[i].at >= now - Week}
             prev == {i \in Positions(h) : h[i].at \in now - 2 * Week .. now - Week - 1}
  <1>1. /\ N \in Nat /\ Positions(h) = 1 .. N
        /\ (\A i \in 1 .. N : h[i].at \in Int)
        /\ Week \in Nat /\ now - Week - 1 \in Int /\ now - 2 * Week - 1 \in Int
    BY TimedFacts DEF Week
  <1>2. k \in 0 .. N /\ I = 1 .. k
    BY <1>1, FirstTrades
  <1>3. l \in 0 .. N /\ J = 1 .. l
    BY <1>1, FirstTrades
  <1>4. \A i \in 1 .. N : h[i].at < now - 2 * Week <=> h[i].at <= now - 2 * Week - 1
    BY <1>1
  <1>5. J = K
    BY <1>1, <1>4
  <1>6. \A i \in 1 .. N : h[i].at <= now - 2 * Week - 1 => h[i].at <= now - Week - 1
    BY <1>1
  <1>7. J \subseteq I
    BY <1>1, <1>6
  <1>8. \A i \in 1 .. N : h[i].at >= now - Week <=> ~(h[i].at <= now - Week - 1)
    BY <1>1
  <1>9. \A i \in 1 .. N : h[i].at \in now - 2 * Week .. now - Week - 1
                          <=> h[i].at <= now - Week - 1 /\ ~(h[i].at <= now - 2 * Week - 1)
    BY <1>1
  <1>10. this = (1 .. N) \ I /\ prev = I \ J
    <2>1. this = (1 .. N) \ I
      BY <1>1, <1>8
    <2>2. prev = I \ J
      BY <1>1, <1>9
    <2> QED
      BY <2>1, <2>2
  <1>11. ThisWeek(h, now) = Entries(h, this) /\ PrevWeek(h, now) = Entries(h, prev)
    BY DEF ThisWeek, PrevWeek
  <1> HIDE DEF N, k, l, I, J, K, this, prev
  <1>12. l <= k
    <2>1. l > 0 => l \in J
      BY <1>3
    <2>2. l \in I => l <= k
      BY <1>2
    <2> QED
      BY <1>2, <1>3, <1>7, <2>1, <2>2
  <1>13. this = k + 1 .. N /\ prev = l + 1 .. k
    BY <1>1, <1>2, <1>3, <1>10, <1>12
  <1>14. k \in l .. N /\ l \in 0 .. k /\ k \in Nat
    BY <1>1, <1>2, <1>3, <1>12
  <1>15. /\ Entries(h, k + 1 .. N) = [n \in 1 .. N - k |-> h[k + n]]
         /\ Entries(h, l + 1 .. k) = [n \in 1 .. k - l |-> h[l + n]]
    <2>1. k \in 0 .. N /\ N \in Nat
      BY <1>1, <1>2
    <2>2. Entries(h, k + 1 .. N) = [n \in 1 .. N - k |-> h[k + n]]
      BY <2>1, EntriesInRow
    <2>3. Entries(h, l + 1 .. k) = [n \in 1 .. k - l |-> h[l + n]]
      BY <1>14, EntriesInRow
    <2> QED
      BY <2>2, <2>3
  <1>16. ThisWeek(h, now) = [n \in 1 .. N - k |-> h[k + n]]
         /\ PrevWeek(h, now) = [n \in 1 .. k - l |-> h[l + n]]
    BY <1>11, <1>13, <1>15
  <1>17. l = Older(h, now)
    BY <1>5 DEF l, K, Older
  <1>18. WeeksCut(h, now, k)
    BY <1>3, <1>14, <1>16, <1>17 DEF WeeksCut, N
  <1> QED
    BY <1>18

\* A run of entries is a sequence of its length.
LEMMA RowIsSeq ==
  ASSUME NEW R, NEW h \in Seq(R), NEW b \in 0 .. Len(h), NEW a \in 0 .. b
  PROVE  LET w == [n \in 1 .. b - a |-> h[a + n]] IN
         w \in Seq(R) /\ Len(w) = b - a /\ \A n \in 1 .. b - a : w[n] = h[a + n]
PROOF
  <1> DEFINE w == [n \in 1 .. b - a |-> h[a + n]]
             N == Len(h)
  <1>1. N \in Nat /\ \A i \in 1 .. N : h[i] \in R
    BY LenProperties, ElementOfSeq
  <1>2. b \in 0 .. N
    OBVIOUS
  <1> HIDE DEF N
  <1>3. b - a \in Nat /\ \A n \in 1 .. b - a : a + n \in 1 .. N
    BY <1>1, <1>2
  <1>4. w \in [1 .. b - a -> R] /\ \A n \in 1 .. b - a : w[n] = h[a + n]
    BY <1>1, <1>3
  <1> HIDE DEF w
  <1>5. w \in Seq(R)
    BY <1>3, <1>4, SeqDef
  <1>6. Len(w) = b - a
    <2>1. Len(w) \in Nat /\ DOMAIN w = 1 .. Len(w)
      BY <1>5, LenProperties
    <2> QED
      BY <1>3, <1>4, <2>1
  <1> QED
    BY <1>4, <1>5, <1>6 DEF w

\* The two weeks follow one another.
LEMMA WeeksFollow ==
  ASSUME NEW R, NEW h \in Seq(R), NEW N \in Nat, N = Len(h), NEW l \in 0 .. N, NEW k \in l .. N
  PROVE  [n \in 1 .. k - l |-> h[l + n]] \o [n \in 1 .. N - k |-> h[k + n]] = SubSeq(h, 1 + l, N)
PROOF
  <1> DEFINE v == [n \in 1 .. k - l |-> h[l + n]]
             w == [n \in 1 .. N - k |-> h[k + n]]
             u == v \o w
             r == SubSeq(h, l + 1, N)
  <1>1. k \in 0 .. N /\ l \in 0 .. k /\ N \in 0 .. N /\ k \in 0 .. N
    OBVIOUS
  <1>2. v \in Seq(R) /\ Len(v) = k - l /\ \A n \in 1 .. k - l : v[n] = h[l + n]
    BY <1>1, RowIsSeq
  <1>3. w \in Seq(R) /\ Len(w) = N - k /\ \A n \in 1 .. N - k : w[n] = h[k + n]
    BY <1>1, RowIsSeq
  <1>4. r \in Seq(R) /\ Len(r) = N - l /\ \A n \in 1 .. N - l : r[n] = h[l + n]
    <2>1. Parts(SubSeq(h, 1, l), r, R, h, N, l)
      BY TwoParts
    <2> HIDE DEF r
    <2> QED
      BY <2>1 DEF Parts
  <1> HIDE DEF v, w, r
  <1>5. /\ u \in Seq(R) /\ Len(u) = Len(v) + Len(w)
        /\ \A i \in 1 .. Len(v) + Len(w) : u[i] = IF i <= Len(v) THEN v[i] ELSE w[i - Len(v)]
    <2>1. Joint(v, w, u, R)
      BY <1>2, <1>3, Joining DEF v, w
    <2> QED
      BY <2>1 DEF Joint
  <1> HIDE DEF u
  <1>6. Len(u) = N - l
    BY <1>2, <1>3, <1>5
  <1>7. ASSUME NEW i \in 1 .. N - l
        PROVE  u[i] = r[i]
    <2>1. i \in 1 .. Len(v) + Len(w)
      BY <1>2, <1>3
    <2>2. CASE i <= k - l
      <3>1. i \in 1 .. k - l
        BY <2>2
      <3> QED
        BY <1>2, <1>4, <1>5, <2>1, <2>2, <3>1
    <2>3. CASE ~(i <= k - l)
      <3>1. i - (k - l) \in 1 .. N - k /\ k + (i - (k - l)) = l + i
        BY <2>3
      <3>2. u[i] = w[i - (k - l)]
        BY <1>2, <1>5, <2>1, <2>3
      <3> QED
        BY <1>3, <1>4, <3>1, <3>2
    <2> QED
      BY <2>2, <2>3
  <1>8. u = r
    <2>1. u = [i \in 1 .. N - l |-> u[i]] /\ r = [i \in 1 .. N - l |-> r[i]]
      BY <1>4, <1>5, <1>6, LenProperties
    <2> QED
      BY <1>7, <2>1
  <1>9. 1 + l = l + 1
    OBVIOUS
  <1> QED
    BY <1>8, <1>9 DEF u, v, w, r

\* The week counts the revenge trades of its own, but for its first trade.
LEMMA WeekCounts ==
  ASSUME NEW h, Timed(h), NEW k \in 0 .. Len(h)
  PROVE  LET w == [n \in 1 .. Len(h) - k |-> h[k + n]] IN
         /\ WeekMetrics(w).revenge
              = Cardinality({i \in RevengeTrades(h) : i > k} \ {k + 1})
         /\ Len(w) = Len(h) - k
PROOF
  <1> DEFINE N == Len(h)
             w == [n \in 1 .. N - k |-> h[k + n]]
             A == {i \in 2 .. Len(w) : w[i - 1].pnl < 0 /\ w[i].at - w[i - 1].at \in 1 .. 5}
             B == {i \in RevengeTrades(h) : i > k} \ {k + 1}
             f == [i \in A |-> k + i]
  <1>1. N \in Nat /\ h \in Seq(Coherents) /\ k \in 0 .. N /\ N \in 0 .. N
    BY TimedFacts DEF Timed
  <1>2. Len(w) = N - k /\ \A n \in 1 .. N - k : w[n] = h[k + n]
    BY <1>1, RowIsSeq
  <1>3. WeekMetrics(w).revenge = Cardinality(A)
    BY DEF WeekMetrics
  <1>4. RevengeTrades(h) = {i \in 2 .. N : h[i - 1].pnl < 0 /\ h[i].at - h[i - 1].at \in 1 .. 5}
    BY DEF RevengeTrades
  <1> HIDE DEF w, N
  <1>5. \A i \in 2 .. N - k : /\ w[i] = h[k + i] /\ w[i - 1] = h[(k + i) - 1]
                              /\ k + i \in 2 .. N /\ k + i > k /\ k + i # k + 1
    <2> SUFFICES ASSUME NEW i \in 2 .. N - k
                 PROVE  /\ w[i] = h[k + i] /\ w[i - 1] = h[(k + i) - 1]
                        /\ k + i \in 2 .. N /\ k + i > k /\ k + i # k + 1
      OBVIOUS
    <2>1. /\ i \in 1 .. N - k /\ i - 1 \in 1 .. N - k /\ k + (i - 1) = (k + i) - 1
          /\ k + i \in 2 .. N /\ k + i > k /\ k + i # k + 1
      BY <1>1
    <2> QED
      BY <1>2, <2>1
  <1>6. \A j \in 2 .. N : j > k /\ j # k + 1 => j - k \in 2 .. N - k /\ k + (j - k) = j
    BY <1>1
  <1>7. A = {i \in 2 .. N - k : w[i - 1].pnl < 0 /\ w[i].at - w[i - 1].at \in 1 .. 5}
    BY <1>2
  <1> HIDE DEF A
  <1>8. \A i \in A : k + i \in B
    BY <1>4, <1>5, <1>7
  <1>9. \A j \in B : j - k \in A /\ k + (j - k) = j
    <2> SUFFICES ASSUME NEW j \in B PROVE j - k \in A /\ k + (j - k) = j
      OBVIOUS
    <2>1. j \in 2 .. N /\ j > k /\ j # k + 1 /\ h[j - 1].pnl < 0 /\ h[j].at - h[j - 1].at \in 1 .. 5
      BY <1>4
    <2>2. j - k \in 2 .. N - k /\ k + (j - k) = j
      BY <1>6, <2>1
    <2>3. w[j - k] = h[j] /\ w[(j - k) - 1] = h[j - 1]
      BY <1>5, <2>2
    <2> QED
      BY <1>7, <2>1, <2>2, <2>3
  <1>10. A \in SUBSET (2 .. N - k) /\ A \in SUBSET Int
    <2>1. A \in SUBSET (2 .. N - k)
      BY <1>7
    <2> QED
      BY <2>1
  <1> HIDE DEF B
  <1>11. f \in [A -> B] /\ \A i \in A : f[i] = k + i
    BY <1>8
  <1> HIDE DEF f
  <1>12. f \in Bijection(A, B)
    <2>1. \A i, j \in A : f[i] = f[j] => i = j
      <3> SUFFICES ASSUME NEW i \in A, NEW j \in A, f[i] = f[j] PROVE i = j
        OBVIOUS
      <3>1. k + i = k + j /\ i \in Int /\ j \in Int /\ k \in Int
        BY <1>1, <1>10, <1>11
      <3> QED
        BY <3>1
    <2>2. \A j \in B : \E i \in A : f[i] = j
      BY <1>9, <1>11
    <2> QED
      BY <1>11, <2>1, <2>2 DEF Bijection, Injection, IsInjective, Surjection
  <1>13. IsFiniteSet(A)
    <2>1. IsFiniteSet(2 .. N - k)
      BY <1>1, FS_Interval
    <2> QED
      BY <1>10, <2>1, FS_Subset
  <1>14. Cardinality(B) = Cardinality(A)
    BY <1>12, <1>13, FS_Bijection DEF ExistsBijection
  <1> QED
    BY <1>2, <1>3, <1>14 DEF w, N, B

\* Weeks are cut without gap or overlap, for any history and any moment, and a week's
\* report counts the revenge trades of the history that are in it, its first trade
\* excepted (weekly_report.py:44-49, 80).
THEOREM WeeksAreExact == ReportSpec => []WeeksAgree
PROOF
  <1>1. ReportTypeOK => WeeksAgree
    <2> SUFFICES ASSUME ReportTypeOK, NEW now \in Weeks
                 PROVE  LET this == ThisWeek(history, now)
                            prev == PrevWeek(history, now)
                            before == Len(history) - Len(this)
                            since  == {i \in RevengeTrades(history) : i > before} IN
                        /\ prev \o this = SubSeq(history, 1 + Cardinality(
                            {i \in Positions(history) : history[i].at < now - 2 * Week}), Len(history))
                        /\ WeekMetrics(this).revenge = Cardinality(since \ {before + 1})
      BY DEF WeeksAgree
    <2> DEFINE h == history
               N == Len(h)
               old == Cardinality({i \in Positions(h) : h[i].at < now - 2 * Week})
               this == ThisWeek(h, now)
               prev == PrevWeek(h, now)
    <2>1. Timed(h) /\ now \in Int
      BY TimedIsTyped, HistoryAssumption
    <2>2. N \in Nat /\ h \in Seq(Coherents)
      BY <2>1, TimedFacts DEF Timed
    <2>3. PICK k : WeeksCut(h, now, k)
      BY <2>1, WeeksAre
    <2>4. /\ old \in 0 .. N /\ k \in old .. N
          /\ this = [n \in 1 .. N - k |-> h[k + n]]
          /\ prev = [n \in 1 .. k - old |-> h[old + n]]
      BY <2>3 DEF WeeksCut, Older
    <2> HIDE DEF old, this, prev
    <2>5. prev \o this = SubSeq(h, 1 + old, N)
      <3> HIDE DEF h, N
      <3>1. N = Len(h)
        BY DEF N
      <3> QED
        BY <2>2, <2>4, <3>1, WeeksFollow
    <2>6. k \in 0 .. N
      BY <2>2, <2>4
    <2>7. /\ WeekMetrics(this).revenge = Cardinality({i \in RevengeTrades(h) : i > k} \ {k + 1})
          /\ Len(this) = N - k
      BY <2>1, <2>4, <2>6, WeekCounts
    <2>8. N - Len(this) = k
      <3> HIDE DEF N, h
      <3> QED
        BY <2>2, <2>6, <2>7
    <2> QED
      BY <2>5, <2>7, <2>8 DEF this, prev, old
  <1> QED
    BY <1>1, ReportTypeCorrect, PTL

-----------------------------------------------------------------------------
(* Engines that look for the same habit.                                   *)

\* A count is over the whole part of a quotient when it is over the quotient.
LEMMA OverQuotient ==
  ASSUME NEW n \in Nat, NEW m \in Nat \ {0}, NEW k \in Nat
  PROVE  k > n \div m <=> k * m > n
PROOF
  <1> DEFINE q == n \div m
  <1>1. q \in Int /\ m * q <= n /\ n < m * (q + 1)
    <2>1. q \in Int
      OBVIOUS
    <2>2. n = m * q + (n % m) /\ n % m \in 0 .. m - 1
      BY SMTT(30)
    <2>3. m * q \in Int /\ m * (q + 1) = m * q + m
      BY <2>1
    <2> HIDE DEF q
    <2> QED
      BY <2>1, <2>2, <2>3
  <1> HIDE DEF q
  <1>2. CASE k > q
    <2>1. k >= q + 1
      BY <1>1, <1>2
    <2>2. k * m >= (q + 1) * m
      BY <1>1, <2>1
    <2>3. k * m > n
      BY <1>1, <2>2
    <2> QED
      BY <1>2, <2>3 DEF q
  <1>3. CASE ~(k > q)
    <2>1. k * m <= q * m
      BY <1>1, <1>3
    <2>2. ~(k * m > n)
      BY <1>1, <2>1
    <2> QED
      BY <1>3, <2>2 DEF q
  <1> QED
    BY <1>2, <1>3

\* The groups of a history are finite parts of it.
IsGroup(C, N) ==
    /\ C # {} /\ C \in SUBSET (1 .. N) /\ IsFiniteSet(C) /\ Cardinality(C) \in Nat
    /\ Max(C) \in C /\ \A i \in C : i <= Max(C)

\* What the dictionary of groups holds.
AreGroups(G, key, N) ==
    /\ DOMAIN G = {key[i] : i \in 1 .. N}
    /\ IsFiniteSet(DOMAIN G) /\ Cardinality(DOMAIN G) \in Nat
    /\ \A d \in DOMAIN G : G[d] = {i \in 1 .. N : key[i] = d} /\ IsGroup(G[d], N)

\* Grouping a history by any key gives that.
LEMMA GroupFacts ==
  ASSUME NEW N \in Nat, NEW key, DOMAIN key = 1 .. N
  PROVE  AreGroups(Grouped(key), key, N)
PROOF
  <1> DEFINE D == {key[i] : i \in 1 .. N}
             G == Grouped(key)
  <1>1. G = [d \in D |-> {i \in 1 .. N : key[i] = d}]
    BY DEF Grouped
  <1>2. IsFiniteSet(1 .. N)
    BY FS_Interval
  <1>3. IsFiniteSet(D)
    <2> DEFINE f == [i \in 1 .. N |-> key[i]]
    <2>1. f \in Surjection(1 .. N, D)
      BY DEF Surjection
    <2> HIDE DEF f, D
    <2> QED
      BY <1>2, <2>1, FS_Surjection
  <1> HIDE DEF G
  <1>4. ASSUME NEW d \in D
        PROVE  G[d] = {i \in 1 .. N : key[i] = d} /\ IsGroup(G[d], N)
    <2> DEFINE C == G[d]
    <2>1. C = {i \in 1 .. N : key[i] = d}
      BY <1>1
    <2>2. C # {} /\ C \in SUBSET (1 .. N) /\ C \in SUBSET Int /\ \A x \in C : x <= N
      BY <2>1
    <2> HIDE DEF C
    <2>3. IsFiniteSet(C) /\ Cardinality(C) \in Nat
      BY <1>2, <2>2, FS_Subset, FS_CardinalityType
    <2>4. Max(C) \in C /\ \A i \in C : i <= Max(C)
      <3>1. N \in Int
        OBVIOUS
      <3> QED
        BY <2>2, <3>1, MaxOfBounded
    <2> QED
      BY <2>1, <2>2, <2>3, <2>4 DEF C, IsGroup
  <1>5. Cardinality(D) \in Nat
    BY <1>3, FS_CardinalityType
  <1>6. DOMAIN G = D
    BY <1>1
  <1>7. DOMAIN G = {key[i] : i \in 1 .. N}
    BY <1>6 DEF D
  <1>8. AreGroups(G, key, N)
    BY <1>3, <1>4, <1>5, <1>6, <1>7 DEF AreGroups
  <1> QED
    BY <1>8 DEF G

\* The days with trades beyond the whole part of twice the average are those with more
\* trades than twice the average.
LEMMA CrowdedDays ==
  ASSUME NEW h, Timed(h), NEW z \in Int, OvertradingCost(h, z) # NoResult
  PROVE  {LocalDay(h[i], z) : i \in OvertradingCost(h, z).affected} = OvertradingDays(h, z)
PROOF
  <1> DEFINE N == Len(h)
             days == Grouped(DayOf(h, z))
             D == DOMAIN days
             m == Cardinality(D)
             T == (2 * N) \div m
             Late(d) == {i \in days[d] : Cardinality({j \in days[d] : j <= i}) > T}
             excess == UNION {Late(d) : d \in D}
  <1>1. N \in Nat /\ Positions(h) = 1 .. N
    BY TimedFacts
  <1>2. DOMAIN DayOf(h, z) = 1 .. N /\ \A i \in 1 .. N : DayOf(h, z)[i] = LocalDay(h[i], z)
    BY DaysGoOn
  <1>3. /\ D = {DayOf(h, z)[i] : i \in 1 .. N} /\ m \in Nat
        /\ \A d \in D : days[d] = {i \in 1 .. N : DayOf(h, z)[i] = d} /\ IsGroup(days[d], N)
    <2> DEFINE key == DayOf(h, z)
    <2>1. DOMAIN key = 1 .. N
      BY <1>2
    <2> HIDE DEF N, key
    <2>2. AreGroups(Grouped(key), key, N)
      BY <1>1, <2>1, GroupFacts
    <2> QED
      BY <2>2 DEF key, AreGroups, days, D, m
  <1>4. OvertradingCost(h, z) = IF m < 5 \/ T < 4 THEN NoResult ELSE AtLeast(3, h, "overtrading", excess)
    BY DEF OvertradingCost
  <1>5. OvertradingDays(h, z) = {d \in D : Cardinality(days[d]) * m > 2 * N}
    BY DEF OvertradingDays
  <1> HIDE DEF days, D, m, T, Late, excess, N
  <1>6. m \in Nat \ {0} /\ OvertradingCost(h, z).affected = excess
    <2>1. ~(m < 5) /\ OvertradingCost(h, z) = AtLeast(3, h, "overtrading", excess)
      BY <1>4
    <2>2. OvertradingCost(h, z) = Insight(h, "overtrading", excess)
      BY <2>1 DEF AtLeast
    <2> QED
      BY <1>3, <2>1, <2>2 DEF Insight
  <1>7. ASSUME NEW d \in D
        PROVE  Late(d) # {} <=> Cardinality(days[d]) * m > 2 * N
    <2> DEFINE C == days[d]
               k == Cardinality(C)
    <2>1. C \in SUBSET (1 .. N) /\ IsFiniteSet(C) /\ k \in Nat /\ Max(C) \in C /\ \A i \in C : i <= Max(C)
      BY <1>3 DEF IsGroup
    <2> HIDE DEF C
    <2>2. T \in Int
      <3>1. 2 * N \in Int /\ m \in Int /\ m # 0
        BY <1>1, <1>6
      <3> QED
        BY <1>6, <3>1 DEF T
    <2>3. ASSUME NEW i \in C, Cardinality({j \in C : j <= i}) > T
          PROVE  k > T
      <3> DEFINE S == {j \in C : j <= i}
      <3>1. S \in SUBSET C
        OBVIOUS
      <3> HIDE DEF S
      <3>2. Cardinality(S) <= k /\ Cardinality(S) \in Nat
        BY <2>1, <3>1, FS_Subset, FS_CardinalityType
      <3>3. Cardinality(S) > T
        BY <2>3 DEF S
      <3> HIDE DEF k
      <3> QED
        BY <2>1, <2>2, <3>2, <3>3
    <2>4. ASSUME k > T
          PROVE  Late(d) # {}
      <3>1. {j \in C : j <= Max(C)} = C
        BY <2>1
      <3>2. Max(C) \in Late(d)
        BY <2>1, <2>4, <3>1 DEF Late, C
      <3> QED
        BY <3>2
    <2>5. Late(d) # {} => k > T
      BY <2>3 DEF Late, C
    <2>6. k > T <=> k * m > 2 * N
      <3> HIDE DEF k
      <3>1. 2 * N \in Nat
        BY <1>1
      <3> QED
        BY <1>6, <2>1, <3>1, OverQuotient DEF T
    <2> QED
      BY <2>4, <2>5, <2>6 DEF C
  <1>8. \A d \in D : \A i \in Late(d) : i \in 1 .. N /\ LocalDay(h[i], z) = d
    BY <1>2, <1>3 DEF Late, IsGroup
  <1>9. ASSUME NEW d
        PROVE  d \in {LocalDay(h[i], z) : i \in excess} <=> d \in D /\ Late(d) # {}
    <2>1. ASSUME NEW i \in excess, d = LocalDay(h[i], z)
          PROVE  d \in D /\ Late(d) # {}
      <3>1. PICK e \in D : i \in Late(e)
        BY DEF excess
      <3>2. e = d
        BY <1>8, <2>1, <3>1
      <3> QED
        BY <3>1, <3>2
    <2>2. ASSUME d \in D, Late(d) # {}
          PROVE  \E i \in excess : d = LocalDay(h[i], z)
      <3>1. PICK i \in Late(d) : TRUE
        BY <2>2
      <3> QED
        BY <1>8, <2>2, <3>1 DEF excess
    <2> QED
      BY <2>1, <2>2
  <1> QED
    BY <1>5, <1>6, <1>7, <1>9

\* The trades that end days with three trades or more end days with two or more.
LEMMA LastOfDays ==
  ASSUME NEW h, Timed(h), NEW z \in Int,
         LastTradeCost(h, z) # NoResult, PositionInDay(h, "last", z) # NoResult
  PROVE  LastTradeCost(h, z).affected \subseteq PositionInDay(h, "last", z).target
PROOF
  <1> DEFINE N == Len(h)
             days == Grouped(DayOf(h, z))
             D == DOMAIN days
             last == {Max(days[d]) : d \in {e \in D : Cardinality(days[e]) >= 3}}
             others == Positions(h) \ last
             n == Cardinality(last)
             m == Max({1, Cardinality(others)})
             multi == {d \in D : Cardinality(days[d]) >= 2}
             target == {IF "last" = "first" THEN Min(days[d]) ELSE Max(days[d]) : d \in multi}
             place == PositionInDay(h, "last", z)
  <1>1. N \in Nat /\ DOMAIN DayOf(h, z) = 1 .. N
    BY TimedFacts, DaysGoOn
  <1>2. \A d \in D : Cardinality(days[d]) \in Nat
    <2> HIDE DEF N
    <2> QED
      BY <1>1, GroupFacts DEF AreGroups, IsGroup, D, days
  <1>3. LastTradeCost(h, z) =
          IF n < 5 \/ 100 * Cardinality(Wins(h, last)) * m
                        >= (100 * Cardinality(Wins(h, others)) - 5 * m) * n
          THEN NoResult ELSE Insight(h, "last_trade_of_day", last)
    BY DEF LastTradeCost
  <1>4. place = IF Cardinality(multi) < 5 THEN NoResult
                ELSE [target |-> target, rest |-> UNION {days[d] : d \in multi} \ target]
    BY DEF PositionInDay
  <1> HIDE DEF N, days, D, last, others, n, m, multi, target, place
  <1>5. LastTradeCost(h, z).affected = last
    <2>1. LastTradeCost(h, z) = Insight(h, "last_trade_of_day", last)
      BY <1>3
    <2> QED
      BY <2>1 DEF Insight
  <1>6. place.target = target
    BY <1>4 DEF place
  <1>7. target = {Max(days[d]) : d \in multi}
    BY DEF target
  <1>8. \A d \in D : Cardinality(days[d]) >= 3 => d \in multi
    BY <1>2 DEF multi
  <1>9. last \subseteq target
    BY <1>7, <1>8 DEF last
  <1> QED
    BY <1>5, <1>6, <1>9 DEF place

\* A trade with no mood gets "revenge" for a mood when it is a revenge trade.
LEMMA RevengeTagged ==
  ASSUME NEW h, Timed(h), \A i \in Positions(h) : h[i].mood = Unset, Len(h) > 1
  PROVE  {i \in Positions(h) : Tagged(h)[i].mood = "revenge"} = RevengeTrades(h)
PROOF
  <1>1. /\ Len(h) \in Nat /\ Positions(h) = 1 .. Len(h)
        /\ \A i \in 1 .. Len(h) : h[i] \in TradeRecord
    BY TimedFacts
  <1>2. ASSUME NEW i \in 1 .. Len(h)
        PROVE  Tagged(h)[i].mood = MoodOf(h, i)
    <2> DEFINE Keep(old, new) == IF old = Unset THEN new ELSE old
               k == Keep(h[i].mistake, MistakeOf(h, i))
               f == Keep(h[i].followed, IF MistakeOf(h, i) = "none" THEN "yes" ELSE "no")
               mood == Keep(h[i].mood, MoodOf(h, i))
    <2>1. Tagged(h)[i] = [h[i] EXCEPT !.mood = mood, !.mistake = k, !.followed = f]
      BY <1>1 DEF Tagged
    <2>2. mood = MoodOf(h, i)
      BY <1>1
    <2> HIDE DEF k, f, mood
    <2>3. h[i] \in TradeRecord
      BY <1>1
    <2>4. Tagged(h)[i].mood = mood
      BY <2>1, <2>3 DEF TradeRecord
    <2> QED
      BY <2>2, <2>4
  <1>3. \A i : MoodOf(h, i) = "revenge" <=> Revenge(h, i)
    BY DEF MoodOf, Unset
  <1>4. \A i : i \in 2 .. Len(h) <=> i \in 1 .. Len(h) /\ i > 1
    BY <1>1
  <1>5. \A i \in 1 .. Len(h) : Revenge(h, i) <=> i \in RevengeTrades(h)
    BY <1>1, <1>4 DEF Revenge, RevengeTrades
  <1>6. RevengeTrades(h) \subseteq 1 .. Len(h)
    BY <1>4 DEF RevengeTrades
  <1> QED
    BY <1>1, <1>2, <1>3, <1>5, <1>6

\* Engines that look for the same habit name the same trades and days, for any history
\* and offset (counterfactual.py:89, 143, 198, 343, behavioral.py:39, 80, 118, 224,
\* auto_tagger.py:44).
THEOREM HabitsAgree == ReportSpec => []EnginesAgree
PROOF
  <1>1. ReportTypeOK => EnginesAgree
    <2> SUFFICES ASSUME ReportTypeOK PROVE EnginesAgree
      OBVIOUS
    <2> DEFINE h == history
               z == offset
    <2>1. Timed(h) /\ z \in Int
      BY TimedIsTyped, HistoryAssumption
    <2> HIDE DEF h, z
    <2>2. RevengeCost(h) = NoResult \/ RevengeCost(h).affected = RevengeTrades(h)
      BY DEF RevengeCost, AtLeast, Insight, RevengeTrades
    <2>3. TiltCost(h) = NoResult \/ TiltCost(h).affected = TiltEvents(h)
      BY DEF TiltCost, AtLeast, Insight, TiltEvents
    <2>4. TiltEvents(h) \subseteq AfterTwoLosses(h)
      BY DEF TiltEvents, AfterTwoLosses
    <2>5. OvertradingCost(h, z) # NoResult =>
            {LocalDay(h[i], z) : i \in OvertradingCost(h, z).affected} = OvertradingDays(h, z)
      BY <2>1, CrowdedDays
    <2>6. LastTradeCost(h, z) # NoResult /\ PositionInDay(h, "last", z) # NoResult =>
            LastTradeCost(h, z).affected \subseteq PositionInDay(h, "last", z).target
      BY <2>1, LastOfDays
    <2>7. (\A i \in Positions(h) : h[i].mood = Unset) /\ Len(h) > 1 =>
            {i \in Positions(h) : Tagged(h)[i].mood = "revenge"} = RevengeTrades(h)
      BY <2>1, RevengeTagged
    <2> QED
      BY <2>2, <2>3, <2>4, <2>5, <2>6, <2>7 DEF EnginesAgree, h, z
  <1> QED
    BY <1>1, ReportTypeCorrect, PTL

-----------------------------------------------------------------------------
(* Totals: a sum over groups is the sum over their trades.                 *)

\* A breakdown counts every trade once, whatever it is by.
LEMMA SlicesAddUp ==
  ASSUME NEW h, Timed(h), NEW key, DOMAIN key = Positions(h)
  PROVE  LET s == Slices(h, Grouped(key)) IN
         /\ Total([k \in DOMAIN s |-> s[k].trades]) = Len(h)
         /\ Total([k \in DOMAIN s |-> s[k].wins]) = Cardinality(Wins(h, Positions(h)))
         /\ Total([k \in DOMAIN s |-> s[k].pnl]) = NetPnl(h)
PROOF
  <1> DEFINE N == Len(h)
             P == 1 .. N
             G == Grouped(key)
             K == DOMAIN G
             s == Slices(h, G)
             f == [i \in P |-> h[i].pnl]
             one == [i \in P |-> 1]
             wins == [k \in K |-> Wins(h, G[k])]
             count == [k \in K |-> s[k].trades]
             won == [k \in K |-> s[k].wins]
             pnl == [k \in K |-> s[k].pnl]
  <1>1. /\ N \in Nat /\ DOMAIN key = P /\ Positions(h) = P
        /\ \A i \in P : h[i].pnl \in Int
    BY TimedFacts
  <1>2. IsFiniteSet(P) /\ Cardinality(P) = N
    <2> HIDE DEF N
    <2>1. N \in Int /\ 1 \in Int
      BY <1>1
    <2>2. IsFiniteSet(P) /\ Cardinality(P) = IF 1 > N THEN 0 ELSE N - 1 + 1
      BY <2>1, FS_Interval
    <2> QED
      BY <1>1, <2>2
  <1>3. AreGroups(G, key, N)
    BY <1>1, GroupFacts
  <1>4. /\ K = {key[i] : i \in P} /\ IsFiniteSet(K)
        /\ \A k \in K : G[k] = {i \in P : key[i] = k} /\ IsFiniteSet(G[k])
    <2> HIDE DEF G, K
    <2>1. DOMAIN G = K
      BY DEF K
    <2> QED
      BY <1>3, <2>1 DEF AreGroups, IsGroup
  <1>5. s = [k \in K |-> [trades |-> Cardinality(G[k]), wins |-> Cardinality(Wins(h, G[k])),
                          pnl |-> PnlOf(h, G[k])]]
    BY DEF Slices, Slice
  <1> HIDE DEF G, K, s
  <1>6. DOMAIN s = K
    BY <1>5
  <1>7. \A k \in K : /\ s[k].trades = Cardinality(G[k]) /\ s[k].wins = Cardinality(Wins(h, G[k]))
                     /\ s[k].pnl = PnlOf(h, G[k])
    BY <1>5
  <1>8. Separate(K, G, P) /\ Together(K, G) = P /\ \A k \in K : G[k] \in SUBSET P
    <2>1. \A k \in K : G[k] \in SUBSET P
      BY <1>4
    <2>2. \A k, l \in K : k # l => G[k] \cap G[l] = {}
      BY <1>4
    <2>3. \A i \in P : i \in G[key[i]] /\ key[i] \in K
      BY <1>4
    <2> HIDE DEF P
    <2>4. UNION {G[k] : k \in K} = P
      BY <2>1, <2>3
    <2> QED
      BY <1>2, <1>4, <2>1, <2>2, <2>4 DEF Separate, Together
  <1>9. Separate(K, wins, P) /\ Together(K, wins) = Wins(h, P) /\ \A k \in K : wins[k] \in SUBSET P
    BY <1>2, <1>8 DEF Separate, Together, Wins
  <1>10. \A I \in SUBSET P : IsFiniteSet(I) /\ SumFunctionOnSet(one, I) = Cardinality(I)
    <2> SUFFICES ASSUME NEW I \in SUBSET P
                 PROVE  IsFiniteSet(I) /\ SumFunctionOnSet(one, I) = Cardinality(I)
      OBVIOUS
    <2>1. IsFiniteSet(I) /\ \A i \in I : one[i] = 1
      BY <1>2, FS_Subset
    <2> HIDE DEF one, P
    <2> QED
      BY <2>1, CountIsSum
  <1>11. Total(count) = N
    <2>1. \A k \in K : count[k] = SumFunctionOnSet(one, G[k])
      BY <1>7, <1>8, <1>10
    <2>2. DOMAIN count = K /\ \A i \in P : one[i] \in Int
      OBVIOUS
    <2> HIDE DEF count, one, P
    <2>3. SumFunctionOnSet(count, K) = SumFunctionOnSet(one, Together(K, G))
      BY <1>8, <2>1, <2>2, PartsAddUp
    <2> QED
      BY <1>2, <1>8, <1>10, <2>2, <2>3 DEF Total
  <1>12. Total(won) = Cardinality(Wins(h, P))
    <2>1. \A k \in K : won[k] = SumFunctionOnSet(one, wins[k])
      BY <1>7, <1>9, <1>10
    <2>2. DOMAIN won = K /\ \A i \in P : one[i] \in Int
      OBVIOUS
    <2> HIDE DEF won, wins, one, P
    <2>3. SumFunctionOnSet(won, K) = SumFunctionOnSet(one, Together(K, wins))
      BY <1>9, <2>1, <2>2, PartsAddUp
    <2>4. Wins(h, P) \in SUBSET P
      BY DEF Wins
    <2> QED
      BY <1>9, <1>10, <2>2, <2>3, <2>4 DEF Total
  <1>13. Total(pnl) = NetPnl(h)
    <2>1. \A I : PnlOf(h, I) = SumFunctionOnSet(f, I)
      BY <1>1 DEF PnlOf
    <2>2. \A k \in K : pnl[k] = SumFunctionOnSet(f, G[k])
      BY <1>7, <2>1
    <2>3. DOMAIN pnl = K /\ \A i \in P : f[i] \in Int
      BY <1>1
    <2> HIDE DEF pnl, f, P
    <2>4. SumFunctionOnSet(pnl, K) = SumFunctionOnSet(f, Together(K, G))
      BY <1>8, <2>2, <2>3, PartsAddUp
    <2> QED
      BY <1>1, <1>8, <2>1, <2>3, <2>4 DEF Total, NetPnl
  <1> QED
    BY <1>1, <1>6, <1>11, <1>12, <1>13 DEF s, G

\* The losing trades of a history.
Losers(h) == {i \in Positions(h) : h[i].pnl < 0}

\* No choice of trades makes less than the losing ones.
LEMMA LosersAreWorst ==
  ASSUME NEW h, Timed(h), NEW I \in SUBSET Positions(h)
  PROVE  PnlOf(h, Losers(h)) <= PnlOf(h, I)
PROOF
  <1> DEFINE L == Losers(h)
             f == [i \in Positions(h) |-> h[i].pnl]
             A == L \cap I
             B == L \ I
             C == I \ L
  <1>1. Positions(h) = 1 .. Len(h) /\ \A i \in Positions(h) : h[i].pnl \in Int
    BY TimedFacts
  <1>2. \A J : PnlOf(h, J) = SumFunctionOnSet(f, J)
    BY DEF PnlOf
  <1>3. /\ A \in SUBSET Positions(h) /\ B \in SUBSET Positions(h) /\ C \in SUBSET Positions(h)
        /\ A \cap B = {} /\ A \cap C = {} /\ L = A \cup B /\ I = A \cup C
        /\ (\A i \in B : f[i] \in Int /\ f[i] <= 0) /\ (\A i \in C : f[i] \in Nat)
    BY <1>1 DEF Losers
  <1> HIDE DEF L, A, B, C, f
  <1>4. /\ IsFiniteSet(A) /\ IsFiniteSet(B) /\ IsFiniteSet(C)
        /\ PnlOf(h, A) \in Int /\ PnlOf(h, B) \in Int /\ PnlOf(h, C) \in Int
    BY <1>3, PnlFacts
  <1>5. PnlOf(h, L) = PnlOf(h, A) + PnlOf(h, B)
    BY <1>3, PnlFacts
  <1>6. PnlOf(h, I) = PnlOf(h, A) + PnlOf(h, C)
    BY <1>3, PnlFacts
  <1>7. PnlOf(h, B) <= 0
    BY <1>2, <1>3, <1>4, SumBelow
  <1>8. PnlOf(h, C) \in Nat
    <2>1. IsFiniteSet(C) /\ \A x \in C : f[x] \in Nat
      BY <1>3, <1>4
    <2>2. SumFunctionOnSet(f, C) \in Nat
      BY <2>1, SumType
    <2> QED
      BY <1>2, <2>2
  <1> QED
    BY <1>4, <1>5, <1>6, <1>7, <1>8 DEF L

\* What was won less what was lost is what the history makes.
LEMMA WonAndLost ==
  ASSUME NEW h, Timed(h)
  PROVE  /\ PnlOf(h, Wins(h, Positions(h))) - (-PnlOf(h, Losers(h))) = NetPnl(h)
         /\ NetPnl(h) \in Int /\ PnlOf(h, Losers(h)) \in Int
PROOF
  <1> DEFINE P == Positions(h)
             W == Wins(h, P)
             L == Losers(h)
             Z == P \ (W \cup L)
             f == [i \in P |-> h[i].pnl]
             zero == [i \in P |-> 0]
  <1>1. P = 1 .. Len(h) /\ \A i \in P : h[i].pnl \in Int
    BY TimedFacts
  <1>2. \A J : PnlOf(h, J) = SumFunctionOnSet(f, J)
    BY DEF PnlOf
  <1>3. /\ W \in SUBSET P /\ L \in SUBSET P /\ Z \in SUBSET P /\ W \cap L = {}
        /\ (W \cup L) \cap Z = {} /\ P = (W \cup L) \cup Z
        /\ \A i \in Z : f[i] = 0
    BY <1>1 DEF Wins, Losers
  <1> HIDE DEF P, W, L, Z, f
  <1>4. /\ IsFiniteSet(Z) /\ PnlOf(h, W) \in Int /\ PnlOf(h, L) \in Int /\ PnlOf(h, Z) \in Int
        /\ PnlOf(h, W \cup L) \in Int
    BY <1>3, PnlFacts DEF P
  <1>5. PnlOf(h, W \cup L) = PnlOf(h, W) + PnlOf(h, L)
    BY <1>3, PnlFacts DEF P
  <1>6. PnlOf(h, P) = PnlOf(h, W \cup L) + PnlOf(h, Z)
    <2> DEFINE V == W \cup L
    <2>1. V \in SUBSET P /\ V \cap Z = {} /\ P = V \cup Z
      BY <1>3
    <2> HIDE DEF V
    <2>2. PnlOf(h, V \cup Z) = PnlOf(h, V) + PnlOf(h, Z)
      BY <1>3, <2>1, PnlFacts DEF P
    <2> QED
      BY <2>1, <2>2 DEF V
  <1>7. PnlOf(h, Z) = 0
    <2>1. PnlOf(h, Z) <= 0
      BY <1>2, <1>3, <1>4, SumBelow
    <2>2. IsFiniteSet(Z) /\ \A x \in Z : f[x] \in Nat
      BY <1>3, <1>4
    <2>3. SumFunctionOnSet(f, Z) \in Nat
      BY <2>2, SumType
    <2>4. PnlOf(h, Z) \in Nat
      BY <1>2, <2>3
    <2> QED
      BY <2>1, <2>4
  <1>8. PnlOf(h, P) = PnlOf(h, W) - (-PnlOf(h, L))
    BY <1>4, <1>5, <1>6, <1>7
  <1>9. PnlOf(h, P) \in Int
    BY <1>4, <1>6
  <1> QED
    BY <1>4, <1>8, <1>9 DEF P, W, L, NetPnl

\* The daily curve ends at what the history makes.
LEMMA CurveEnds ==
  ASSUME NEW h, Timed(h), Len(h) > 0, NEW z \in Int
  PROVE  Last(DailyCloses(h, z)).pnl = NetPnl(h)
PROOF
  <1> DEFINE c == DailyCloses(h, z)
             a == Ascending(LastOnes(h, z))
             N == Len(h)
             n == Len(c)
  <1>1. /\ n \in Nat /\ DOMAIN c = 1 .. n /\ c \in Seq(Points)
        /\ \A k \in 1 .. n : a[k] \in 1 .. N /\ c[k] = PointAt(h, z, a[k])
        /\ \A k, l \in 1 .. n : k < l <=> a[k] < a[l]
        /\ \A i \in LastOnes(h, z) : \E k \in 1 .. n : a[k] = i
    BY CurveFacts
  <1>2. N \in Nat /\ N > 0 /\ Positions(h) = 1 .. N
    BY TimedFacts
  <1>3. N \in LastOnes(h, z)
    BY <1>2 DEF LastOnes
  <1> HIDE DEF c, a, N, n
  <1>4. PICK k \in 1 .. n : a[k] = N
    BY <1>1, <1>3
  <1>5. n \in 1 .. n /\ (k < n \/ k = n)
    BY <1>1
  <1>6. a[n] = N
    <2>1. a[n] \in 1 .. N
      BY <1>1, <1>5
    <2>2. ~(k < n)
      BY <1>1, <1>2, <1>4, <1>5, <2>1
    <2> QED
      BY <1>4, <1>5, <2>2
  <1>7. Last(c) = c[n]
    BY DEF Last, n
  <1>8. Last(c).pnl = PnlOf(h, 1 .. N)
    BY <1>1, <1>5, <1>6, <1>7 DEF PointAt
  <1> QED
    BY <1>2, <1>8 DEF c, NetPnl

\* The hours and weekdays of a history are groups of it.
LEMMA HoursAndDays ==
  ASSUME NEW h, Timed(h), NEW z \in Int
  PROVE  LET N == Len(h) IN
         /\ N \in Nat /\ Positions(h) = 1 .. N
         /\ AreGroups(Grouped(HourOf(h, z)), HourOf(h, z), N)
         /\ AreGroups(Grouped(WeekdayOf(h, z)), WeekdayOf(h, z), N)
         /\ AreGroups(Grouped(DayOf(h, z)), DayOf(h, z), N)
PROOF
  <1> DEFINE N == Len(h)
  <1>1. N \in Nat /\ Positions(h) = 1 .. N
    BY TimedFacts
  <1>2. DOMAIN HourOf(h, z) = 1 .. N /\ DOMAIN WeekdayOf(h, z) = 1 .. N /\ DOMAIN DayOf(h, z) = 1 .. N
    BY <1>1 DEF HourOf, WeekdayOf, DayOf
  <1> HIDE DEF N
  <1>3. \A key : DOMAIN key = 1 .. N => AreGroups(Grouped(key), key, N)
    BY <1>1, GroupFacts
  <1> QED
    BY <1>1, <1>2, <1>3 DEF N

\* Two engines report the same of a Monday.
LEMMA MondaysAgree ==
  ASSUME NEW h, Timed(h), NEW z \in Int, DayEffect(h, 0, z) # NoResult
  PROVE  DayEffect(h, 0, z).target = TimeAnalysis(h, z).weekdays[0]
PROOF
  <1> DEFINE N == Len(h)
             key == WeekdayOf(h, z)
             G == Grouped(key)
             on == {i \in Positions(h) : Weekday(h[i], z) = 0}
             off == Positions(h) \ on
             gap == 100 * (Cardinality(Wins(h, on)) * Cardinality(off)
                             - Cardinality(Wins(h, off)) * Cardinality(on))
             far == /\ Cardinality(on) >= 5
                    /\ Max({gap, -gap}) > 10 * Cardinality(on) * Cardinality(off)
             monday == DayEffect(h, 0, z)
  <1>1. N \in Nat /\ Positions(h) = 1 .. N /\ AreGroups(G, key, N)
    BY HoursAndDays
  <1>2. \A i \in 1 .. N : key[i] = Weekday(h[i], z)
    BY <1>1 DEF WeekdayOf
  <1>3. monday = IF on = {} \/ off = {} THEN NoResult
                 ELSE [target |-> Figures(h, on), others |-> Figures(h, off), significant |-> far]
    BY DEF DayEffect
  <1>4. TimeAnalysis(h, z).weekdays = Slices(h, G)
    BY DEF TimeAnalysis
  <1>5. on = {i \in 1 .. N : key[i] = 0}
    BY <1>1, <1>2
  <1> HIDE DEF N, key, G, off, far, on
  <1>6. on # {} /\ monday.target = Figures(h, on)
    BY <1>3
  <1>7. 0 \in DOMAIN G /\ G[0] = on
    <2>1. 0 \in DOMAIN G
      BY <1>1, <1>5, <1>6 DEF AreGroups
    <2> QED
      BY <1>1, <1>5, <2>1 DEF AreGroups
  <1>8. Slices(h, G)[0] = Slice(h, on)
    BY <1>7 DEF Slices
  <1> QED
    BY <1>4, <1>6, <1>8 DEF Figures, Slice

\* So do they of a mood.
LEMMA MoodsAgree ==
  ASSUME NEW h, EmotionAnalysis(h) # NoResult, NEW a \in MoodCost(h)
  PROVE  a.impact = EmotionAnalysis(h).per[a.about].pnl
PROOF
  <1> DEFINE moods == Grouped([i \in Positions(h) |-> h[i].mood])
             tagged == DOMAIN moods \ {Unset}
             per == [m \in tagged |-> Slice(h, moods[m])]
             bad == {m \in DOMAIN moods \cap BadMoods :
                       Cardinality(moods[m]) >= 2 /\ PnlOf(h, moods[m]) < 0}
  <1>1. EmotionAnalysis(h).per = per
    BY DEF EmotionAnalysis
  <1> HIDE DEF moods
  <1>2. PICK m \in bad : a.about = m /\ a.impact = PnlOf(h, moods[m])
    BY DEF MoodCost, Alert, moods
  <1>3. m \in tagged
    BY <1>2 DEF BadMoods, Unset
  <1>4. per[m].pnl = PnlOf(h, moods[m])
    BY <1>3 DEF Slice
  <1> QED
    BY <1>1, <1>2, <1>4

\* A breakdown is like the overview.
SlicesAgree(h, z, slices) ==
    /\ Total([k \in DOMAIN slices |-> slices[k].trades]) = Overview(h, z).total
    /\ Total([k \in DOMAIN slices |-> slices[k].wins]) = Overview(h, z).winners
    /\ Total([k \in DOMAIN slices |-> slices[k].pnl]) = Overview(h, z).profit - Overview(h, z).loss

\* The four of them are.
LEMMA BreakdownsAgree ==
  ASSUME NEW h, Timed(h), NEW z \in Int
  PROVE  /\ SlicesAgree(h, z, TimeAnalysis(h, z).hours)
         /\ SlicesAgree(h, z, TimeAnalysis(h, z).weekdays)
         /\ SlicesAgree(h, z, TimeAnalysis(h, z).sessions)
         /\ SlicesAgree(h, z, SymbolAnalysis(h).per)
         /\ Overview(h, z).loss = -PnlOf(h, Losers(h)) /\ Overview(h, z).pnl = NetPnl(h)
PROOF
  <1> DEFINE o == Overview(h, z)
             session == [i \in Positions(h) |-> Session(LocalHour(h[i], z))]
             symbol == [i \in Positions(h) |-> h[i].symbol]
  <1>1. /\ o.total = Len(h) /\ o.winners = Cardinality(Wins(h, Positions(h)))
        /\ o.profit = PnlOf(h, Wins(h, Positions(h))) /\ o.loss = -PnlOf(h, Losers(h))
        /\ o.pnl = NetPnl(h)
    BY DEF Overview, Losers
  <1>2. /\ TimeAnalysis(h, z).hours = Slices(h, Grouped(HourOf(h, z)))
        /\ TimeAnalysis(h, z).weekdays = Slices(h, Grouped(WeekdayOf(h, z)))
        /\ TimeAnalysis(h, z).sessions = Slices(h, Grouped(session))
    BY DEF TimeAnalysis
  <1>3. SymbolAnalysis(h).per = Slices(h, Grouped(symbol))
    BY DEF SymbolAnalysis
  <1>4. o.profit - o.loss = NetPnl(h)
    BY <1>1, WonAndLost
  <1>5. /\ DOMAIN HourOf(h, z) = Positions(h) /\ DOMAIN WeekdayOf(h, z) = Positions(h)
        /\ DOMAIN session = Positions(h) /\ DOMAIN symbol = Positions(h)
    BY DEF HourOf, WeekdayOf
  <1> HIDE DEF o, session, symbol
  <1>6. \A key : DOMAIN key = Positions(h) => SlicesAgree(h, z, Slices(h, Grouped(key)))
    <2> SUFFICES ASSUME NEW key, DOMAIN key = Positions(h)
                 PROVE  SlicesAgree(h, z, Slices(h, Grouped(key)))
      OBVIOUS
    <2> DEFINE s == Slices(h, Grouped(key))
    <2>1. /\ Total([k \in DOMAIN s |-> s[k].trades]) = Len(h)
          /\ Total([k \in DOMAIN s |-> s[k].wins]) = Cardinality(Wins(h, Positions(h)))
          /\ Total([k \in DOMAIN s |-> s[k].pnl]) = NetPnl(h)
      BY SlicesAddUp
    <2> HIDE DEF s
    <2>2. SlicesAgree(h, z, s)
      BY <1>1, <1>4, <2>1 DEF SlicesAgree, o
    <2> QED
      BY <2>2 DEF s
  <1>7. /\ SlicesAgree(h, z, TimeAnalysis(h, z).hours)
        /\ SlicesAgree(h, z, TimeAnalysis(h, z).weekdays)
        /\ SlicesAgree(h, z, TimeAnalysis(h, z).sessions)
        /\ SlicesAgree(h, z, SymbolAnalysis(h).per)
    BY <1>2, <1>3, <1>5, <1>6
  <1> QED
    BY <1>1, <1>7 DEF o

-----------------------------------------------------------------------------
(* Alerts.                                                                 *)

\* The alerts that charge a loss.
Charging(alerts) == {a \in alerts : a.impact < 0}

\* Alerts about trades that share nothing charge no more than the losing trades lost.
LEMMA AlertsCharge ==
  ASSUME NEW h, Timed(h), NEW D, NEW part, Separate(Charging(D), part, Positions(h)),
         \A a \in Charging(D) : a.impact = PnlOf(h, part[a])
  PROVE  BehavioralCost(D) <= -PnlOf(h, Losers(h))
PROOF
  <1> DEFINE N == Charging(D)
             f == [i \in Positions(h) |-> h[i].pnl]
             g == [a \in D |-> a.impact]
             U == Together(N, part)
  <1>1. Positions(h) = 1 .. Len(h) /\ \A i \in Positions(h) : h[i].pnl \in Int
    BY TimedFacts
  <1>2. \A J : PnlOf(h, J) = SumFunctionOnSet(f, J)
    BY DEF PnlOf
  <1>3. \A i \in Positions(h) : f[i] \in Int
    BY <1>1
  <1>4. BehavioralCost(D) = -SumFunctionOnSet(g, N)
    BY DEF BehavioralCost, Charging
  <1>5. \A a \in N : g[a] = SumFunctionOnSet(f, part[a])
    BY <1>2 DEF Charging
  <1>6. U \in SUBSET Positions(h)
    BY DEF Together, Separate
  <1> HIDE DEF f, g, N, U
  <1>7. Separate(N, part, Positions(h))
    BY DEF N
  <1>8. SumFunctionOnSet(g, N) = PnlOf(h, U)
    <2>1. SumFunctionOnSet(g, N) = SumFunctionOnSet(f, Together(N, part))
      BY <1>3, <1>5, <1>7, PartsAddUp
    <2> QED
      BY <1>2, <2>1 DEF U
  <1>9. PnlOf(h, Losers(h)) <= PnlOf(h, U) /\ PnlOf(h, U) \in Int
    BY <1>6, LosersAreWorst, PnlFacts
  <1>10. PnlOf(h, Losers(h)) \in Int
    BY WonAndLost
  <1> QED
    BY <1>4, <1>8, <1>9, <1>10

\* Alerts about groups of trades, one per group at most.
LEMMA GroupAlerts ==
  ASSUME NEW h, Timed(h), NEW key, DOMAIN key = Positions(h), NEW D,
         \A a \in D : /\ a.about \in DOMAIN Grouped(key)
                      /\ a.impact = PnlOf(h, Grouped(key)[a.about]),
         \A a, b \in D : a.about = b.about => a = b
  PROVE  BehavioralCost(D) <= -PnlOf(h, Losers(h))
PROOF
  <1> DEFINE G == Grouped(key)
             N == Charging(D)
             K == DOMAIN G
             about == [a \in N |-> a.about]
             part == [a \in N |-> G[a.about]]
  <1>1. Len(h) \in Nat /\ Positions(h) = 1 .. Len(h) /\ DOMAIN key = 1 .. Len(h)
    BY TimedFacts
  <1>2. AreGroups(G, key, Len(h))
    BY <1>1, GroupFacts
  <1> HIDE DEF G
  <1>3. IsFiniteSet(K) /\ \A k \in K : G[k] = {i \in 1 .. Len(h) : key[i] = k}
    BY <1>2 DEF AreGroups
  <1> HIDE DEF K
  <1>4. /\ \A a \in N : a \in D /\ a.about \in K /\ a.impact = PnlOf(h, G[a.about])
        /\ \A a, b \in N : a.about = b.about => a = b
    BY DEF Charging, G, K
  <1>5. IsFiniteSet(N)
    <2>1. about \in Injection(N, K)
      BY <1>4 DEF Injection, IsInjective
    <2> HIDE DEF about, N
    <2> QED
      BY <1>3, <2>1, FS_Injection
  <1> HIDE DEF N
  <1>6. IsFiniteSet(Positions(h))
    <2> DEFINE N1 == Len(h)
    <2>1. N1 \in Int /\ Positions(h) = 1 .. N1
      BY <1>1
    <2> HIDE DEF N1
    <2> QED
      BY <2>1, FS_Interval
  <1>7. \A a \in N : part[a] = {i \in 1 .. Len(h) : key[i] = a.about}
    BY <1>3, <1>4
  <1>8. Separate(N, part, Positions(h))
    BY <1>1, <1>4, <1>5, <1>6, <1>7 DEF Separate
  <1>9. \A a \in N : a.impact = PnlOf(h, part[a])
    BY <1>4
  <1> HIDE DEF part
  <1> QED
    BY <1>8, <1>9, AlertsCharge DEF N

\* So each kind of alert charges a loss once.
LEMMA ChargedOnce ==
  ASSUME NEW h, Timed(h), NEW z \in Int,
         NEW kind \in {"mood_cost", "recurring_mistake", "time_pattern"}
  PROVE  BehavioralCost({a \in Alerts(h, {}, z) : a.kind = kind}) <= -PnlOf(h, Losers(h))
PROOF
  <1> DEFINE D == {a \in Alerts(h, {}, z) : a.kind = kind}
             mood == [i \in Positions(h) |-> h[i].mood]
             mistake == [i \in Positions(h) |-> h[i].mistake]
  <1>1. /\ \A a \in PostLoss(h) : a.kind = "behavioral_pattern"
        /\ RuleViolations({}) = {}
        /\ \A a \in MoodCost(h) : a.kind = "mood_cost"
        /\ \A a \in RecurringMistakes(h) : a.kind = "recurring_mistake"
        /\ \A a \in TimePattern(h, z) : a.kind = "time_pattern"
    <2>1. RuleViolations({}) = {}
      BY DEF RuleViolations
    <2>2. \A a \in MoodCost(h) : a.kind = "mood_cost"
      <3> DEFINE moods == Grouped([i \in Positions(h) |-> h[i].mood])
                 grave(m) == IF PnlOf(h, moods[m]) < -1000 THEN "critical" ELSE "warning"
                 bad == {m \in DOMAIN moods \cap BadMoods :
                           Cardinality(moods[m]) >= 2 /\ PnlOf(h, moods[m]) < 0}
      <3>1. MoodCost(h) = {Alert("mood_cost", m, grave(m), PnlOf(h, moods[m])) : m \in bad}
        BY DEF MoodCost
      <3> HIDE DEF moods, grave, bad
      <3>2. \A m, s, p : Alert("mood_cost", m, s, p).kind = "mood_cost"
        BY DEF Alert
      <3> QED
        BY <3>1, <3>2
    <2>3. \A a \in RecurringMistakes(h) : a.kind = "recurring_mistake"
      <3>1. \A a \in RecurringMistakes(h) : \E m, s, p : a = Alert("recurring_mistake", m, s, p)
        BY DEF RecurringMistakes
      <3>2. \A m, s, p : Alert("recurring_mistake", m, s, p).kind = "recurring_mistake"
        BY DEF Alert
      <3> QED
        BY <3>1, <3>2
    <2>4. \A a \in TimePattern(h, z) : a.kind = "time_pattern"
      <3>1. \A a \in TimePattern(h, z) : \E m, s, p : a = Alert("time_pattern", m, s, p)
        BY DEF TimePattern
      <3>2. \A m, s, p : Alert("time_pattern", m, s, p).kind = "time_pattern"
        BY DEF Alert
      <3> QED
        BY <3>1, <3>2
    <2>5. \A a \in PostLoss(h) : a.kind = "behavioral_pattern"
      <3>1. \A a \in PostLoss(h) : \E m, s, p : a = Alert("behavioral_pattern", m, s, p)
        BY DEF PostLoss
      <3>2. \A m, s, p : Alert("behavioral_pattern", m, s, p).kind = "behavioral_pattern"
        BY DEF Alert
      <3> QED
        BY <3>1, <3>2
    <2> QED
      BY <2>1, <2>2, <2>3, <2>4, <2>5
  <1>2. CASE kind = "mood_cost"
    <2>1. D = MoodCost(h)
      BY <1>1, <1>2 DEF Alerts
    <2>2. \A a \in MoodCost(h) : /\ a.about \in DOMAIN Grouped(mood)
                                 /\ a.impact = PnlOf(h, Grouped(mood)[a.about])
      BY DEF MoodCost, Alert
    <2>3. \A a, b \in MoodCost(h) : a.about = b.about => a = b
      <3> DEFINE G == Grouped(mood)
                 one(m) == Alert("mood_cost", m, IF PnlOf(h, G[m]) < -1000 THEN "critical" ELSE "warning", PnlOf(h, G[m]))
      <3>1. \A a \in MoodCost(h) : \E m : a = one(m)
        BY DEF MoodCost
      <3>2. \A m : one(m).about = m
        BY DEF Alert
      <3> HIDE DEF one
      <3> QED
        BY <3>1, <3>2
    <2>4. DOMAIN mood = Positions(h)
      OBVIOUS
    <2> HIDE DEF mood, D
    <2>5. BehavioralCost(MoodCost(h)) <= -PnlOf(h, Losers(h))
      BY <2>2, <2>3, <2>4, GroupAlerts
    <2> QED
      BY <2>1, <2>5 DEF D
  <1>3. CASE kind = "recurring_mistake"
    <2>1. D = RecurringMistakes(h)
      BY <1>1, <1>3 DEF Alerts
    <2>2. \A a \in RecurringMistakes(h) : /\ a.about \in DOMAIN Grouped(mistake)
                                          /\ a.impact = PnlOf(h, Grouped(mistake)[a.about])
      BY DEF RecurringMistakes, Alert
    <2>3. \A a, b \in RecurringMistakes(h) : a.about = b.about => a = b
      <3> DEFINE G == Grouped(mistake)
                 one(m) == Alert("recurring_mistake", m, "warning", PnlOf(h, G[m]))
      <3>1. \A a \in RecurringMistakes(h) : \E m : a = one(m)
        BY DEF RecurringMistakes
      <3>2. \A m : one(m).about = m
        BY DEF Alert
      <3> HIDE DEF one
      <3> QED
        BY <3>1, <3>2
    <2>4. DOMAIN mistake = Positions(h)
      OBVIOUS
    <2> HIDE DEF mistake, D
    <2>5. BehavioralCost(RecurringMistakes(h)) <= -PnlOf(h, Losers(h))
      BY <2>2, <2>3, <2>4, GroupAlerts
    <2> QED
      BY <2>1, <2>5 DEF D
  <1>4. CASE kind = "time_pattern"
    <2>1. D = TimePattern(h, z)
      BY <1>1, <1>4 DEF Alerts
    <2> HIDE DEF D
    <2>2. PICK I \in SUBSET Positions(h) :
             \A a \in TimePattern(h, z) :
                a = Alert("time_pattern", Unset, "insight", IF PnlOf(h, I) < 0 THEN PnlOf(h, I) ELSE 0)
      BY DEF TimePattern
    <2> DEFINE T == TimePattern(h, z)
               N == Charging(T)
               part == [a \in N |-> I]
               one == Alert("time_pattern", Unset, "insight", PnlOf(h, I))
    <2>3. \A a \in N : a = one /\ a.impact = PnlOf(h, I)
      BY <2>2 DEF Charging, Alert
    <2>4. IsFiniteSet(N) /\ IsFiniteSet(Positions(h))
      <3>1. N \in SUBSET {one} /\ IsFiniteSet({one})
        BY <2>3, FS_Singleton
      <3>2. IsFiniteSet(N)
        BY <3>1, FS_Subset
      <3> QED
        BY <3>2, TimedFacts, FS_Interval
    <2>5. Separate(N, part, Positions(h)) /\ \A a \in N : a.impact = PnlOf(h, part[a])
      BY <2>3, <2>4 DEF Separate
    <2> HIDE DEF part, T
    <2>6. BehavioralCost(T) <= -PnlOf(h, Losers(h))
      BY <2>5, AlertsCharge
    <2> QED
      BY <2>1, <2>6 DEF D, T
  <1> QED
    BY <1>2, <1>3, <1>4

-----------------------------------------------------------------------------
(* Scenarios: what an insight costs, and the curve without its trades.     *)

\* An insight that costs something costs what its trades made.
IsInsight(h, r) ==
    /\ r.impact \in Int
    /\ r.impact < 0 => r.affected \in SUBSET Positions(h) /\ r.impact = PnlOf(h, r.affected)

\* The list of insights holds those that were found.
LEMMA LargestFacts ==
  ASSUME NEW h, NEW n \in Nat, NEW found, DOMAIN found = 1 .. n,
         \A k \in 1 .. n : found[k] = NoResult \/ IsInsight(h, found[k])
  PROVE  LET all == Largest(found) IN
         \E N \in Nat : DOMAIN all = 1 .. N /\ \A k \in 1 .. N : IsInsight(h, all[k])
PROOF
  <1> DEFINE S == {k \in DOMAIN found : found[k] # NoResult}
             size == [k \in DOMAIN found |->
                        IF found[k] = NoResult THEN 0 ELSE Max({found[k].impact, -found[k].impact})]
             place == [k \in DOMAIN found |-> k]
             order == RankedBy(S, size, place)
  <1>1. IsFiniteSet(S)
    <2>1. IsFiniteSet(1 .. n)
      BY FS_Interval
    <2> QED
      BY <2>1, FS_Subset
  <1>2. \A k \in S : k \in 1 .. n /\ IsInsight(h, found[k])
    OBVIOUS
  <1>3. ASSUME NEW k \in S
        PROVE  size[k] \in Int
    <2> DEFINE x == found[k].impact
    <2>1. x \in Int
      BY <1>2 DEF IsInsight
    <2>2. size[k] = Max({x, -x})
      OBVIOUS
    <2> HIDE DEF x, size
    <2>3. PICK u \in Int : x <= u /\ -x <= u
      <3>1. CASE x <= 0
        BY <2>1, <3>1, -x \in Int
      <3>2. CASE x >= 0
        BY <2>1, <3>2
      <3> QED
        BY <2>1, <3>1, <3>2
    <2> DEFINE T == {x, -x}
    <2>4. T \in SUBSET Int /\ T # {} /\ \A y \in T : y <= u
      BY <2>1, <2>3
    <2> HIDE DEF T
    <2>5. Max(T) \in T
      BY <2>4, MaxOfBounded
    <2> QED
      BY <2>2, <2>4, <2>5 DEF T
  <1>4. \A k \in S : place[k] \in Int /\ place[k] = k
    OBVIOUS
  <1>5. Largest(found) = [k \in 1 .. Len(order) |-> found[order[k]]]
    BY DEF Largest
  <1> HIDE DEF S, size, place
  <1>6. Lists(order, Ranks(S, size, place), Cardinality(S))
    BY <1>1, <1>3, <1>4, RankedFacts
  <1>7. DOMAIN Ranks(S, size, place) = S
    BY DEF Ranks
  <1> HIDE DEF order
  <1>8. Cardinality(S) \in Nat /\ DOMAIN order = 1 .. Cardinality(S)
        /\ \A k \in 1 .. Cardinality(S) : order[k] \in S
    BY <1>6, <1>7 DEF Lists
  <1>9. order = [k \in DOMAIN order |-> order[k]]
    <2>1. order = Sorted(Ranks(S, size, place))
      BY DEF order, RankedBy, Ranks
    <2>2. \A a : Sorted(a) = [k \in DOMAIN Sorted(a) |-> Sorted(a)[k]]
      BY DEF Sorted
    <2> QED
      BY <2>1, <2>2
  <1>10. Len(order) = Cardinality(S)
    <2>1. order \in Seq(S)
      BY <1>8, <1>9, SeqDef
    <2> QED
      BY <1>8, <2>1, LenProperties
  <1> QED
    BY <1>2, <1>5, <1>8, <1>10

\* What a scenario finds: nothing, or an insight.
Finds(h, r) == r = NoResult \/ IsInsight(h, r)

\* A selection of trades, if there are enough of them.
LEMMA SelectionFinds ==
  ASSUME NEW h, Timed(h), NEW n, NEW id, NEW I \in SUBSET Positions(h)
  PROVE  Finds(h, AtLeast(n, h, id, I)) /\ Finds(h, Insight(h, id, I))
PROOF
  <1>1. Insight(h, id, I).impact = PnlOf(h, I) /\ Insight(h, id, I).affected = I
    BY DEF Insight
  <1>2. PnlOf(h, I) \in Int
    BY PnlFacts
  <1> DEFINE r == Insight(h, id, I)
             a == AtLeast(n, h, id, I)
  <1>3. a = NoResult \/ a = r
    BY DEF AtLeast
  <1> HIDE DEF a, r
  <1>4. IsInsight(h, r)
    BY <1>1, <1>2 DEF IsInsight, r
  <1> QED
    BY <1>3, <1>4 DEF Finds, a, r

\* Groups of a history are parts of it, in the order of their first trades.
LEMMA GroupsAreParts ==
  ASSUME NEW N \in Nat, NEW key, NEW G, AreGroups(G, key, N)
  PROVE  /\ \A k \in DOMAIN G : G[k] \in SUBSET (1 .. N) /\ Min(G[k]) \in G[k] /\ Min(G[k]) \in Int
         /\ \A j, k \in DOMAIN G : Min(G[j]) = Min(G[k]) => j = k
         /\ IsFiniteSet(DOMAIN G) /\ (N > 0 => DOMAIN G # {})
PROOF
  <1>1. /\ DOMAIN G = {key[i] : i \in 1 .. N} /\ IsFiniteSet(DOMAIN G)
        /\ \A k \in DOMAIN G : G[k] = {i \in 1 .. N : key[i] = k} /\ G[k] # {}
    BY DEF AreGroups, IsGroup
  <1>2. ASSUME NEW k \in DOMAIN G
        PROVE  G[k] \in SUBSET (1 .. N) /\ Min(G[k]) \in G[k]
    <2> DEFINE T == G[k]
    <2>1. T \in SUBSET Nat /\ T # {} /\ T \in SUBSET (1 .. N)
      BY <1>1
    <2> HIDE DEF T
    <2>2. PICK m \in T : \A x \in T : m <= x
      BY <2>1, LeastOfNats
    <2>3. Min(T) = m
      BY <2>1, <2>2, MinIs
    <2> QED
      BY <2>1, <2>2, <2>3 DEF T
  <1>3. \A j, k \in DOMAIN G : Min(G[j]) = Min(G[k]) => j = k
    BY <1>1, <1>2
  <1>4. N > 0 => DOMAIN G # {}
    <2> SUFFICES ASSUME N > 0 PROVE DOMAIN G # {}
      OBVIOUS
    <2>1. 1 \in 1 .. N
      OBVIOUS
    <2>2. key[1] \in DOMAIN G
      BY <1>1, <2>1
    <2> QED
      BY <2>2
  <1>5. \A i \in 1 .. N : i \in Int
    OBVIOUS
  <1> QED
    BY <1>1, <1>2, <1>3, <1>4, <1>5

\* The scenarios that select trades one by one.
LEMMA SelectionsFind ==
  ASSUME NEW h, Timed(h), NEW z \in Int
  PROVE  /\ Finds(h, RevengeCost(h)) /\ Finds(h, TiltCost(h)) /\ Finds(h, SizingCost(h))
         /\ Finds(h, OvertradingCost(h, z)) /\ Finds(h, BadHoursCost(h, z))
         /\ Finds(h, LastTradeCost(h, z))
PROOF
  <1> DEFINE N == Len(h)
             days == Grouped(DayOf(h, z))
             hours == Grouped(HourOf(h, z))
  <1>1. /\ N \in Nat /\ Positions(h) = 1 .. N
        /\ AreGroups(days, DayOf(h, z), N) /\ AreGroups(hours, HourOf(h, z), N)
    BY HoursAndDays
  <1> HIDE DEF N, days, hours
  <1>2. /\ \A d \in DOMAIN days : days[d] \in SUBSET Positions(h) /\ Max(days[d]) \in Positions(h)
        /\ \A k \in DOMAIN hours : hours[k] \in SUBSET Positions(h)
    BY <1>1 DEF AreGroups, IsGroup
  <1>3. Finds(h, RevengeCost(h))
    <2> DEFINE I == {i \in 2 .. Len(h) : h[i - 1].pnl < 0 /\ h[i].at - h[i - 1].at \in 1 .. 5}
    <2>1. I \in SUBSET Positions(h)
      BY <1>1 DEF N
    <2>2. RevengeCost(h) = AtLeast(2, h, "revenge_trades", I)
      BY DEF RevengeCost
    <2> HIDE DEF I
    <2> QED
      BY <2>1, <2>2, SelectionFinds
  <1>4. Finds(h, TiltCost(h))
    <2> DEFINE I == {i \in 2 .. Len(h) : LossesUpTo(h, i - 1) >= 2 /\ 5 * h[i].qty > 6 * h[i - 1].qty}
    <2>1. I \in SUBSET Positions(h)
      BY <1>1 DEF N
    <2>2. TiltCost(h) = AtLeast(2, h, "tilt_sizing", I)
      BY DEF TiltCost
    <2> HIDE DEF I
    <2> QED
      BY <2>1, <2>2, SelectionFinds
  <1>5. Finds(h, SizingCost(h))
    <2> DEFINE n == Len(h)
               total == MapThenSumSet(LAMBDA i : h[i].qty, Positions(h))
               spread == MapThenSumSet(LAMBDA i : (n * h[i].qty - total) * (n * h[i].qty - total), Positions(h))
               I == {i \in Positions(h) : 2 * n * h[i].qty > 3 * total /\ h[i].pnl < 0}
               steady == [id |-> "consistent_sizing", affected |-> {}, impact |-> 0]
    <2>1. SizingCost(h) = IF n < 20 THEN NoResult
                          ELSE IF 100 * spread < total * total * (n - 1) THEN steady
                          ELSE AtLeast(3, h, "oversized_losers", I)
      BY DEF SizingCost
    <2>2. I \in SUBSET Positions(h)
      OBVIOUS
    <2>3. Finds(h, steady)
      <3>1. steady.impact = 0
        OBVIOUS
      <3> HIDE DEF steady
      <3> QED
        BY <3>1 DEF Finds, IsInsight
    <2>4. Finds(h, NoResult)
      BY DEF Finds
    <2> HIDE DEF n, total, spread, I, steady
    <2>5. Finds(h, AtLeast(3, h, "oversized_losers", I))
      BY <2>2, SelectionFinds
    <2> QED
      BY <2>1, <2>3, <2>4, <2>5
  <1>6. Finds(h, OvertradingCost(h, z))
    <2> DEFINE threshold == (2 * Len(h)) \div Cardinality(DOMAIN days)
               I == UNION {{i \in days[d] : Cardinality({j \in days[d] : j <= i}) > threshold}
                              : d \in DOMAIN days}
    <2>1. OvertradingCost(h, z) = IF Cardinality(DOMAIN days) < 5 \/ threshold < 4 THEN NoResult
                                  ELSE AtLeast(3, h, "overtrading", I)
      BY DEF OvertradingCost, days
    <2>2. I \in SUBSET Positions(h)
      BY <1>2
    <2>3. Finds(h, NoResult)
      BY DEF Finds
    <2> HIDE DEF threshold, I
    <2>4. Finds(h, AtLeast(3, h, "overtrading", I))
      BY <2>2, SelectionFinds
    <2> QED
      BY <2>1, <2>3, <2>4
  <1>7. Finds(h, BadHoursCost(h, z))
    <2> DEFINE bad == {k \in DOMAIN hours : Cardinality(hours[k]) >= 5 /\ PnlOf(h, hours[k]) < 0}
               I == UNION {hours[k] : k \in bad}
    <2>1. BadHoursCost(h, z) = IF bad = {} THEN NoResult ELSE Insight(h, "bad_hours", I)
      BY DEF BadHoursCost, hours
    <2>2. I \in SUBSET Positions(h)
      BY <1>2
    <2>3. Finds(h, NoResult)
      BY DEF Finds
    <2> HIDE DEF bad, I
    <2>4. Finds(h, Insight(h, "bad_hours", I))
      BY <2>2, SelectionFinds
    <2> QED
      BY <2>1, <2>3, <2>4
  <1>8. Finds(h, LastTradeCost(h, z))
    <2> DEFINE last == {Max(days[d]) : d \in {e \in DOMAIN days : Cardinality(days[e]) >= 3}}
               others == Positions(h) \ last
               n == Cardinality(last)
               m == Max({1, Cardinality(others)})
    <2>1. LastTradeCost(h, z) =
            IF n < 5 \/ 100 * Cardinality(Wins(h, last)) * m
                          >= (100 * Cardinality(Wins(h, others)) - 5 * m) * n
            THEN NoResult ELSE Insight(h, "last_trade_of_day", last)
      BY DEF LastTradeCost, days
    <2>2. last \in SUBSET Positions(h)
      BY <1>2
    <2>3. Finds(h, NoResult)
      BY DEF Finds
    <2> HIDE DEF last, others, n, m
    <2>4. Finds(h, Insight(h, "last_trade_of_day", last))
      BY <2>2, SelectionFinds
    <2> QED
      BY <2>1, <2>3, <2>4
  <1> QED
    BY <1>3, <1>4, <1>5, <1>6, <1>7, <1>8

\* The worst weekday, and the best hours, which cost nothing.
LEMMA DaysAndHoursFind ==
  ASSUME NEW h, Timed(h), Len(h) > 0, NEW z \in Int
  PROVE  Finds(h, BadDaysCost(h, z)) /\ Finds(h, OptimalSession(h, z))
PROOF
  <1> DEFINE N == Len(h)
             days == Grouped(WeekdayOf(h, z))
             hours == Grouped(HourOf(h, z))
             loss == [d \in DOMAIN days |-> -PnlOf(h, days[d])]
             first == [d \in DOMAIN days |-> Min(days[d])]
             worst == Leading(loss, first)
             good == {k \in DOMAIN hours : Cardinality(hours[k]) >= 5 /\ PnlOf(h, hours[k]) > 0}
             I == UNION {hours[k] : k \in good}
             edge == PnlOf(h, I)
  <1>1. /\ N \in Nat /\ N > 0 /\ Positions(h) = 1 .. N
        /\ AreGroups(days, WeekdayOf(h, z), N) /\ AreGroups(hours, HourOf(h, z), N)
    BY HoursAndDays
  <1> HIDE DEF N, days, hours
  <1>2. /\ \A k \in DOMAIN hours : hours[k] \in SUBSET Positions(h)
        /\ \A d \in DOMAIN days : /\ days[d] \in SUBSET Positions(h)
                                  /\ Min(days[d]) \in Int
        /\ \A j, k \in DOMAIN days : Min(days[j]) = Min(days[k]) => j = k
        /\ IsFiniteSet(DOMAIN days) /\ DOMAIN days # {}
    <2>1. \A k \in DOMAIN hours : hours[k] \in SUBSET (1 .. N)
      BY <1>1, GroupsAreParts
    <2>2. /\ \A d \in DOMAIN days : days[d] \in SUBSET (1 .. N) /\ Min(days[d]) \in Int
          /\ \A j, k \in DOMAIN days : Min(days[j]) = Min(days[k]) => j = k
          /\ IsFiniteSet(DOMAIN days) /\ DOMAIN days # {}
      BY <1>1, GroupsAreParts
    <2> QED
      BY <1>1, <2>1, <2>2
  <1>3. \A d \in DOMAIN days : PnlOf(h, days[d]) \in Int
    BY <1>2, PnlFacts
  <1>4. worst \in DOMAIN days
    <2>1. /\ DOMAIN loss = DOMAIN days
          /\ \A d \in DOMAIN loss : loss[d] \in Int /\ first[d] \in Int
          /\ \A j, k \in DOMAIN loss : first[j] = first[k] => j = k
      BY <1>2, <1>3
    <2> HIDE DEF loss, first
    <2> QED
      BY <1>2, <2>1, LeadingIs
  <1>5. Finds(h, BadDaysCost(h, z))
    <2> DEFINE r == [id |-> "bad_day_of_week", affected |-> days[worst], impact |-> -loss[worst]]
               b == BadDaysCost(h, z)
    <2>1. b = IF loss[worst] <= 0 \/ Cardinality(days[worst]) < 5 THEN NoResult ELSE r
      BY DEF BadDaysCost, days
    <2>2. loss[worst] = -PnlOf(h, days[worst])
      BY <1>4
    <2> HIDE DEF worst, loss, b
    <2>3. r.affected = days[worst] /\ r.impact = -(-PnlOf(h, days[worst]))
      BY <2>2
    <2> HIDE DEF r
    <2>4. IsInsight(h, r)
      <3> DEFINE x == PnlOf(h, days[worst])
      <3>1. x \in Int /\ r.impact = -(-x)
        BY <1>3, <1>4, <2>3
      <3>2. r.impact = x
        <4> HIDE DEF x
        <4> QED
          BY <3>1
      <3>3. r.affected \in SUBSET Positions(h)
        BY <1>2, <1>4, <2>3
      <3> QED
        BY <2>3, <3>1, <3>2, <3>3 DEF IsInsight
    <2> QED
      BY <2>1, <2>4 DEF Finds, b
  <1>6. Finds(h, OptimalSession(h, z))
    <2> DEFINE r == [id |-> "optimal_session", affected |-> {}, impact |-> edge]
               b == OptimalSession(h, z)
    <2>1. b = IF good = {} \/ NetPnl(h) <= 0 \/ 5 * edge < 4 * NetPnl(h) THEN NoResult ELSE r
      BY DEF OptimalSession, hours
    <2>2. I \in SUBSET Positions(h)
      BY <1>2
    <2> HIDE DEF I
    <2>3. edge \in Int /\ NetPnl(h) \in Int
      BY <2>2, PnlFacts, WonAndLost
    <2> HIDE DEF edge
    <2>4. r.impact = edge
      OBVIOUS
    <2> HIDE DEF r, b, good
    <2>5. CASE NetPnl(h) <= 0 \/ 5 * edge < 4 * NetPnl(h)
      BY <2>1, <2>5 DEF Finds, b
    <2>6. CASE ~(NetPnl(h) <= 0 \/ 5 * edge < 4 * NetPnl(h))
      <3>1. ~(edge < 0)
        BY <2>3, <2>6
      <3>2. IsInsight(h, r)
        BY <2>3, <2>4, <3>1 DEF IsInsight
      <3> QED
        BY <2>1, <3>2 DEF Finds, b
    <2> QED
      BY <2>5, <2>6
  <1> QED
    BY <1>5, <1>6

\* All of them together.
LEMMA InsightsFacts ==
  ASSUME NEW h, Timed(h), Len(h) > 0, NEW z \in Int
  PROVE  \E N \in Nat : /\ DOMAIN Insights(h, z) = 1 .. N
                        /\ \A k \in 1 .. N : IsInsight(h, Insights(h, z)[k])
PROOF
  <1> DEFINE found == << RevengeCost(h), OvertradingCost(h, z), TiltCost(h), BadHoursCost(h, z),
                         BadDaysCost(h, z), LastTradeCost(h, z), SizingCost(h), OptimalSession(h, z) >>
             all == Insights(h, z)
  <1>1. all = IF Len(h) < 10 THEN <<>> ELSE Largest(found)
    BY DEF Insights
  <1>2. DOMAIN found = 1 .. 8
    OBVIOUS
  <1>3. ASSUME NEW k \in 1 .. 8
        PROVE  Finds(h, found[k])
    <2>1. /\ found[1] = RevengeCost(h) /\ found[2] = OvertradingCost(h, z) /\ found[3] = TiltCost(h)
          /\ found[4] = BadHoursCost(h, z) /\ found[5] = BadDaysCost(h, z)
          /\ found[6] = LastTradeCost(h, z) /\ found[7] = SizingCost(h)
          /\ found[8] = OptimalSession(h, z)
      OBVIOUS
    <2>2. k \in {1, 2, 3, 4, 5, 6, 7, 8}
      OBVIOUS
    <2> HIDE DEF found
    <2> QED
      BY <2>1, <2>2, SelectionsFind, DaysAndHoursFind
  <1> HIDE DEF found, all
  <1>4. \E N \in Nat : /\ DOMAIN Largest(found) = 1 .. N
                       /\ \A k \in 1 .. N : IsInsight(h, Largest(found)[k])
    <2>1. \A k \in 1 .. 8 : found[k] = NoResult \/ IsInsight(h, found[k])
      BY <1>3 DEF Finds
    <2> QED
      BY <1>2, <2>1, LargestFacts
  <1>5. CASE Len(h) < 10
    <2>1. DOMAIN all = 1 .. 0 /\ 0 \in Nat
      BY <1>1, <1>5
    <2>2. \A k \in 1 .. 0 : FALSE
      OBVIOUS
    <2> QED
      BY <2>1, <2>2 DEF all
  <1>6. CASE ~(Len(h) < 10)
    BY <1>1, <1>4, <1>6 DEF all
  <1> QED
    BY <1>5, <1>6

\* The insights that cost something.
Costly(h, z) == {k \in DOMAIN Insights(h, z) : Insights(h, z)[k].impact < 0}

\* The leaks are those, each once.
LEMMA LeaksAre ==
  ASSUME NEW h, Timed(h), Len(h) > 0, NEW z \in Int
  PROVE  LET all == Insights(h, z)  neg == Costly(h, z)  leaks == Leaks(h, z) IN
         /\ IsFiniteSet(neg)
         /\ \A k \in neg : /\ all[k].impact \in Int /\ all[k].affected \in SUBSET Positions(h)
                           /\ all[k].impact = PnlOf(h, all[k].affected) /\ all[k].impact < 0
         /\ \E f : /\ DOMAIN f = DOMAIN leaks
                   /\ \A n \in DOMAIN leaks : f[n] \in neg /\ leaks[n] = all[f[n]]
                   /\ \A k \in neg : \E n \in DOMAIN leaks : f[n] = k
PROOF
  <1> DEFINE all == Insights(h, z)
             neg == Costly(h, z)
             leaks == Leaks(h, z)
             f == Ascending(neg)
  <1>1. PICK N \in Nat : DOMAIN all = 1 .. N /\ \A k \in 1 .. N : IsInsight(h, all[k])
    BY InsightsFacts
  <1>2. neg \in SUBSET (1 .. N) /\ \A k \in neg : IsInsight(h, all[k]) /\ all[k].impact < 0
    BY <1>1 DEF Costly
  <1>3. leaks = [n \in DOMAIN f |-> all[f[n]]]
    BY DEF Leaks, Entries, Costly
  <1> HIDE DEF all, neg, leaks, f
  <1>4. IsFiniteSet(neg) /\ neg \in SUBSET Int
    <2>1. IsFiniteSet(1 .. N) /\ 1 .. N \in SUBSET Int
      BY FS_Interval
    <2> QED
      BY <1>2, <2>1, FS_Subset
  <1>5. Enumerates(f, neg, Cardinality(neg))
    BY <1>4, AscendingFacts DEF f
  <1>6. /\ DOMAIN leaks = DOMAIN f /\ \A n \in DOMAIN leaks : f[n] \in neg /\ leaks[n] = all[f[n]]
        /\ \A k \in neg : \E n \in DOMAIN leaks : f[n] = k
    BY <1>3, <1>5 DEF Enumerates
  <1>7. \A k \in neg : /\ all[k].impact \in Int /\ all[k].affected \in SUBSET Positions(h)
                       /\ all[k].impact = PnlOf(h, all[k].affected) /\ all[k].impact < 0
    BY <1>2 DEF IsInsight
  <1> QED
    BY <1>4, <1>6, <1>7 DEF all, neg, leaks

\* The last trade of a history is the last of the last day.
LEMMA LatestDay ==
  ASSUME NEW h, Timed(h), Len(h) > 0, NEW z \in Int
  PROVE  LET days == Grouped(DayOf(h, z)) IN
         /\ DOMAIN days \in SUBSET Int /\ Max(DOMAIN days) \in DOMAIN days
         /\ \A d \in DOMAIN days : d <= Max(DOMAIN days)
         /\ Max(days[Max(DOMAIN days)]) = Len(h)
PROOF
  <1> DEFINE N == Len(h)
             day == DayOf(h, z)
             days == Grouped(day)
             D == DOMAIN days
             e == day[N]
             T == days[e]
  <1>1. N \in Nat /\ N > 0 /\ AreGroups(days, day, N)
    BY HoursAndDays
  <1>2. /\ day \in [1 .. N -> Int] /\ \A i, j \in 1 .. N : i <= j => day[i] <= day[j]
    <2>1. \A i \in 1 .. N : day[i] = LocalDay(h[i], z)
      BY DaysGoOn
    <2> QED
      BY <2>1, DaysGoOn
  <1> HIDE DEF N, day, days, D
  <1>3. N \in 1 .. N /\ \A i \in 1 .. N : i <= N
    BY <1>1
  <1>4. D = {day[i] : i \in 1 .. N} /\ T = {i \in 1 .. N : day[i] = e} /\ e \in D
    BY <1>1, <1>3 DEF AreGroups, D
  <1>5. D \in SUBSET Int /\ e \in Int /\ \A k \in D : k <= e
    BY <1>2, <1>3, <1>4
  <1>6. Max(D) \in D /\ \A k \in D : k <= Max(D)
    <2> HIDE DEF e
    <2> QED
      BY <1>4, <1>5, MaxOfBounded
  <1>7. Max(D) = e
    <2> DEFINE m == Max(D)
    <2>1. m \in Int /\ e \in Int /\ e <= m /\ m <= e
      BY <1>4, <1>5, <1>6
    <2> HIDE DEF m, e
    <2>2. m = e
      BY <2>1
    <2> QED
      BY <2>2 DEF m
  <1>8. T \in SUBSET Int /\ N \in T /\ \A i \in T : i <= N
    BY <1>3, <1>4
  <1>9. Max(T) = N
    <2> HIDE DEF T
    <2>1. Max(T) \in T /\ \A x \in T : x <= Max(T)
      BY <1>1, <1>8, MaxOfBounded
    <2> DEFINE m == Max(T)
    <2>2. m \in Int /\ m <= N /\ N <= m
      BY <1>8, <2>1
    <2> HIDE DEF m
    <2>3. m = N
      BY <1>1, <2>2
    <2> QED
      BY <2>3 DEF m
  <1>10. Max(days[Max(D)]) = N
    BY <1>7, <1>9
  <1> HIDE DEF e, T
  <1> QED
    BY <1>5, <1>6, <1>10 DEF D, N, days, day

\* Without the trades of a part a history makes what the others make.
LEMMA PnlLess ==
  ASSUME NEW h, Timed(h), NEW I \in SUBSET Positions(h)
  PROVE  NetPnl(h) - PnlOf(h, I) = PnlOf(h, Positions(h) \ I)
PROOF
  <1> DEFINE P == Positions(h)
             J == P \ I
  <1>1. J \in SUBSET P /\ I \cap J = {} /\ I \cup J = P
    OBVIOUS
  <1> HIDE DEF P, J
  <1>2. PnlOf(h, I) \in Int /\ PnlOf(h, J) \in Int
    BY <1>1, PnlFacts DEF P
  <1>3. PnlOf(h, I \cup J) = PnlOf(h, I) + PnlOf(h, J)
    BY <1>1, PnlFacts DEF P
  <1> DEFINE x == PnlOf(h, I)
             y == PnlOf(h, J)
  <1>4. PnlOf(h, P) = x + y /\ x \in Int /\ y \in Int
    BY <1>1, <1>2, <1>3
  <1> HIDE DEF x, y
  <1>5. PnlOf(h, P) - x = y
    BY <1>4
  <1> QED
    BY <1>5 DEF NetPnl, x, y, J, P

\* A curve ends at what the trades it does not exclude make.
LEMMA CurveCloses ==
  ASSUME NEW h, Timed(h), Len(h) > 0, NEW I
  PROVE  LET c == EquityCurve(h, I) IN
         /\ DOMAIN c \in SUBSET Int /\ Max(DOMAIN c) \in DOMAIN c
         /\ \A d \in DOMAIN c : d <= Max(DOMAIN c)
         /\ DOMAIN c = DOMAIN EquityCurve(h, {})
         /\ c[Max(DOMAIN c)] = PnlOf(h, Positions(h) \ I)
PROOF
  <1> DEFINE days == Grouped(DayOf(h, 0))
             c == EquityCurve(h, I)
             D == DOMAIN days
  <1>1. /\ D \in SUBSET Int /\ Max(D) \in D /\ \A d \in D : d <= Max(D)
        /\ Max(days[Max(D)]) = Len(h)
    BY LatestDay, 0 \in Int
  <1>2. \A J : EquityCurve(h, J) = [d \in D |-> PnlOf(h, (1 .. Max(days[d])) \ J)]
    BY DEF EquityCurve
  <1> HIDE DEF days, D
  <1>3. DOMAIN c = D /\ DOMAIN EquityCurve(h, {}) = D
    BY <1>2
  <1>4. c[Max(D)] = PnlOf(h, (1 .. Max(days[Max(D)])) \ I)
    BY <1>1, <1>2
  <1> HIDE DEF c
  <1>5. c[Max(D)] = PnlOf(h, Positions(h) \ I)
    BY <1>1, <1>4 DEF Positions
  <1> QED
    BY <1>1, <1>3, <1>5 DEF c

\* The two curves of a chart end as far apart as what its trades made.
LEMMA GapIsCost ==
  ASSUME NEW h, Timed(h), Len(h) > 0,
         NEW r, r.affected \in SUBSET Positions(h), r.affected # {}
  PROVE  GapOf(Chart(h, r)) = PnlOf(h, r.affected)
PROOF
  <1> DEFINE I == r.affected
             a == EquityCurve(h, {})
             c == EquityCurve(h, I)
             latest == {d \in DOMAIN a : Cardinality({e \in DOMAIN a : e > d}) < 30}
             chart == Chart(h, r)
             D == Max(DOMAIN a)
  <1>1. /\ DOMAIN a \in SUBSET Int /\ D \in DOMAIN a /\ \A d \in DOMAIN a : d <= D
        /\ a[D] = PnlOf(h, Positions(h) \ {})
    BY CurveCloses
  <1>2. DOMAIN c = DOMAIN a /\ c[D] = PnlOf(h, Positions(h) \ I)
    BY CurveCloses
  <1>3. chart = [d \in latest |-> [actual |-> a[d], counterfactual |-> c[d]]]
    BY DEF Chart
  <1> HIDE DEF a, c, D, chart
  <1>4. latest \in SUBSET Int /\ D \in latest /\ \A d \in latest : d <= D
    <2>1. {e \in DOMAIN a : e > D} = {}
      BY <1>1
    <2>2. Cardinality({e \in DOMAIN a : e > D}) = 0
      BY <2>1, FS_EmptySet
    <2> QED
      BY <1>1, <2>2
  <1> HIDE DEF latest
  <1>5. DOMAIN chart = latest /\ Max(DOMAIN chart) = D
    <2>1. Max(latest) \in latest /\ \A d \in latest : d <= Max(latest)
      BY <1>1, <1>4, MaxOfBounded
    <2> DEFINE m == Max(latest)
    <2>2. m \in Int /\ D \in Int /\ D <= m /\ m <= D
      BY <1>4, <2>1
    <2> HIDE DEF m
    <2>3. m = D
      BY <2>2
    <2> QED
      BY <1>3, <2>3 DEF m
  <1>6. chart[D].actual = a[D] /\ chart[D].counterfactual = c[D]
    BY <1>3, <1>4
  <1>7. GapOf(chart) = PnlOf(h, Positions(h) \ {}) - PnlOf(h, Positions(h) \ I)
    BY <1>1, <1>2, <1>5, <1>6 DEF GapOf
  <1> DEFINE x == PnlOf(h, I)
             y == PnlOf(h, Positions(h) \ I)
             t == NetPnl(h)
  <1>8. PnlOf(h, Positions(h) \ {}) = t
    <2>1. Positions(h) \ {} = Positions(h)
      OBVIOUS
    <2> QED
      BY <2>1 DEF NetPnl
  <1>9. x \in Int /\ t \in Int /\ t - x = y
    BY PnlFacts, WonAndLost, PnlLess
  <1> HIDE DEF x, y, t
  <1>10. t - y = x
    BY <1>9
  <1> QED
    BY <1>7, <1>8, <1>10 DEF x, y, chart

\* What is lost to leaks that share no trade is what the history makes without them.
LEMMA PotentialIsRest ==
  ASSUME NEW h, Timed(h), Len(h) > 0, NEW z \in Int, Disjoint(Leaks(h, z))
  PROVE  LET leaks == Leaks(h, z) IN
         Summary(h, z).potential
            = Close(EquityCurve(h, UNION {leaks[k].affected : k \in DOMAIN leaks}))
PROOF
  <1> DEFINE all == Insights(h, z)
             neg == Costly(h, z)
             leaks == Leaks(h, z)
             P == Positions(h)
             impact == [k \in DOMAIN all |-> all[k].impact]
             part == [k \in neg |-> all[k].affected]
             fun == [i \in P |-> h[i].pnl]
             U == UNION {leaks[k].affected : k \in DOMAIN leaks}
             c == EquityCurve(h, U)
  <1>1. /\ IsFiniteSet(neg)
        /\ \A k \in neg : /\ all[k].impact \in Int /\ all[k].affected \in SUBSET P
                          /\ all[k].impact = PnlOf(h, all[k].affected)
    BY LeaksAre
  <1>2. PICK f : /\ DOMAIN f = DOMAIN leaks
                 /\ \A n \in DOMAIN leaks : f[n] \in neg /\ leaks[n] = all[f[n]]
                 /\ \A k \in neg : \E n \in DOMAIN leaks : f[n] = k
    BY LeaksAre
  <1>3. \A k \in DOMAIN leaks : \A l \in DOMAIN leaks \ {k} :
           leaks[k].affected \cap leaks[l].affected = {}
    BY DEF Disjoint
  <1>4. neg \subseteq DOMAIN all
    BY DEF Costly
  <1>5. \A J : PnlOf(h, J) = SumFunctionOnSet(fun, J)
    BY DEF PnlOf
  <1>6. \A i \in P : fun[i] \in Int
    BY TimedFacts
  <1>7. Summary(h, z).potential = NetPnl(h) - SumFunctionOnSet(impact, neg)
    <2> DEFINE Of(sign) == SumFunctionOnSet(impact, {k \in DOMAIN all : sign * all[k].impact > 0})
    <2>1. Summary(h, z) = [leaked |-> Of(-1), edge |-> Of(1), actual |-> NetPnl(h),
                           potential |-> NetPnl(h) - Of(-1)]
      BY DEF Summary, Totals
    <2>2. {k \in DOMAIN all : (-1) * all[k].impact > 0} = neg
      <3>1. PICK N \in Nat : DOMAIN all = 1 .. N /\ \A k \in 1 .. N : IsInsight(h, all[k])
        BY InsightsFacts
      <3>2. \A k \in DOMAIN all : all[k].impact \in Int
        BY <3>1 DEF IsInsight
      <3>3. \A k \in DOMAIN all : (-1) * all[k].impact > 0 <=> all[k].impact < 0
        <4> HIDE DEF all
        <4> QED
          BY <3>2
      <3> QED
        BY <3>3 DEF Costly
    <2>3. Of(-1) = SumFunctionOnSet(impact, neg)
      BY <2>2
    <2> HIDE DEF Of
    <2> QED
      BY <2>1, <2>3
  <1> HIDE DEF all, neg, leaks, impact, fun, U, P
  <1>8. \A k \in neg : impact[k] = SumFunctionOnSet(fun, part[k])
    BY <1>1, <1>4, <1>5 DEF impact
  <1>9. \A k, l \in neg : k # l => part[k] \cap part[l] = {}
    <2> SUFFICES ASSUME NEW k \in neg, NEW l \in neg, k # l PROVE part[k] \cap part[l] = {}
      OBVIOUS
    <2>1. PICK m \in DOMAIN leaks : f[m] = k
      BY <1>2
    <2>2. PICK n \in DOMAIN leaks : f[n] = l
      BY <1>2
    <2>3. m # n /\ leaks[m] = all[k] /\ leaks[n] = all[l]
      BY <1>2, <2>1, <2>2
    <2>4. leaks[m].affected \cap leaks[n].affected = {}
      BY <1>3, <2>3
    <2> QED
      BY <2>3, <2>4
  <1>10. Together(neg, part) = U /\ U \in SUBSET P
    <2>1. \A k \in neg : part[k] = all[k].affected
      OBVIOUS
    <2> HIDE DEF part
    <2>2. \A x : x \in Together(neg, part) <=> \E k \in neg : x \in all[k].affected
      BY <2>1 DEF Together
    <2>3. \A x : x \in U <=> \E n \in DOMAIN leaks : x \in leaks[n].affected
      BY DEF U
    <2>4. \A x : (\E k \in neg : x \in all[k].affected) <=> \E n \in DOMAIN leaks : x \in leaks[n].affected
      BY <1>2
    <2>5. \A x : x \in U => x \in P
      BY <1>1, <2>3, <2>4
    <2>6. \A x : x \in U <=> x \in Together(neg, part)
      BY <2>2, <2>3, <2>4
    <2> QED
      BY <2>5, <2>6
  <1>11. Separate(neg, part, P)
    <2>1. IsFiniteSet(P)
      <3>1. P \in SUBSET Positions(h)
        BY DEF P
      <3> QED
        BY <3>1, PnlFacts
    <2>2. \A k \in neg : part[k] \in SUBSET P
      BY <1>1
    <2> HIDE DEF part
    <2> QED
      BY <1>1, <1>9, <2>1, <2>2 DEF Separate
  <1> HIDE DEF part
  <1>12. SumFunctionOnSet(impact, neg) = PnlOf(h, U)
    <2>1. SumFunctionOnSet(impact, neg) = SumFunctionOnSet(fun, Together(neg, part))
      BY <1>6, <1>8, <1>11, PartsAddUp
    <2> QED
      BY <1>5, <1>10, <2>1
  <1>13. NetPnl(h) - PnlOf(h, U) = PnlOf(h, Positions(h) \ U)
    BY <1>10, PnlLess DEF P
  <1>14. Close(c) = PnlOf(h, Positions(h) \ U)
    BY CurveCloses DEF Close
  <1> QED
    BY <1>7, <1>12, <1>13, <1>14 DEF U, leaks

\* Leaks add up.
LEMMA LeaksAddUp ==
  ASSUME Timed(history), Len(history) > 0, offset \in Int
  PROVE  AddUp(Leaks(history, offset))
PROOF
  <1> DEFINE h == history
             z == offset
             all == Insights(h, z)
             neg == Costly(h, z)
             leaks == Leaks(h, z)
  <1>1. \A k \in neg : /\ all[k].impact \in Int /\ all[k].affected \in SUBSET Positions(h)
                       /\ all[k].impact = PnlOf(h, all[k].affected) /\ all[k].impact < 0
    BY LeaksAre
  <1>2. PICK f : /\ DOMAIN f = DOMAIN leaks
                 /\ \A n \in DOMAIN leaks : f[n] \in neg /\ leaks[n] = all[f[n]]
    BY LeaksAre
  <1>3. ASSUME NEW k \in DOMAIN leaks
        PROVE  GapOf(Chart(h, leaks[k])) = leaks[k].impact
    <2> DEFINE r == leaks[k]
    <2> HIDE DEF all, neg, leaks
    <2>1. r.affected \in SUBSET Positions(h) /\ r.impact = PnlOf(h, r.affected) /\ r.impact < 0
      BY <1>1, <1>2, <1>3
    <2> HIDE DEF r
    <2>2. r.affected # {}
      BY <2>1, PnlFacts
    <2>3. GapOf(Chart(h, r)) = PnlOf(h, r.affected)
      BY <2>1, <2>2, GapIsCost
    <2> QED
      BY <2>1, <2>3 DEF r
  <1>4. Disjoint(leaks) => Summary(h, z).potential
                             = Close(EquityCurve(h, UNION {leaks[k].affected : k \in DOMAIN leaks}))
    BY PotentialIsRest
  <1> HIDE DEF leaks
  <1>5. AddUp(leaks)
    BY <1>3, <1>4 DEF AddUp
  <1> QED
    BY <1>5 DEF leaks

\* Every breakdown adds up to the overview, the daily curve ends at its total, two
\* engines agree on a Monday and on a mood, no kind of alert charges a loss twice, and
\* what the scenarios leak is what the history makes without them, for any history and
\* timezone (analytics.py:78, counterfactual.py:82, intelligence.py:23).
THEOREM TotalsAddUp == ReportSpec => []TotalsAgree
PROOF
  <1>1. ReportTypeOK => TotalsAgree
    <2> SUFFICES ASSUME ReportTypeOK PROVE TotalsAgree
      OBVIOUS
    <2> DEFINE h == history
               z == offset
    <2>1. Timed(h) /\ z \in Int
      BY TimedIsTyped, HistoryAssumption DEF ReportTypeOK
    <2>2. h # <<>> => Len(h) > 0
      <3>1. Len(h) \in Nat /\ h \in Seq(Coherents)
        BY <2>1, TimedFacts DEF Timed
      <3> QED
        BY <3>1, EmptySeq
    <2>3. /\ SlicesAgree(h, z, TimeAnalysis(h, z).hours)
          /\ SlicesAgree(h, z, TimeAnalysis(h, z).weekdays)
          /\ SlicesAgree(h, z, TimeAnalysis(h, z).sessions)
          /\ SlicesAgree(h, z, SymbolAnalysis(h).per)
          /\ Overview(h, z).loss = -PnlOf(h, Losers(h)) /\ Overview(h, z).pnl = NetPnl(h)
      BY <2>1, BreakdownsAgree
    <2>4. DayEffect(h, 0, z) # NoResult =>
            DayEffect(h, 0, z).target = TimeAnalysis(h, z).weekdays[0]
      BY <2>1, MondaysAgree
    <2>5. EmotionAnalysis(h) # NoResult =>
            \A a \in MoodCost(h) : a.impact = EmotionAnalysis(h).per[a.about].pnl
      BY MoodsAgree
    <2>6. \A kind \in {"mood_cost", "recurring_mistake", "time_pattern"} :
            BehavioralCost({a \in Alerts(h, {}, z) : a.kind = kind}) <= Overview(h, z).loss
      BY <2>1, <2>3, ChargedOnce
    <2>7. h # <<>> => Last(DailyCloses(h, z)).pnl = Overview(h, z).pnl
      BY <2>1, <2>2, <2>3, CurveEnds
    <2>8. h # <<>> => AddUp(Leaks(h, z))
      BY <2>1, <2>2, LeaksAddUp
    <2> QED
      BY <2>3, <2>4, <2>5, <2>6, <2>7, <2>8 DEF TotalsAgree, SlicesAgree
  <1> QED
    BY <1>1, ReportTypeCorrect, PTL
=============================================================================
