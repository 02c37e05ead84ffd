---------------------------- MODULE LoopProofs ----------------------------
(***************************************************************************)
(* Loops over a list, for any list.  The matching of a broker's orders is  *)
(* first in, first out and creates and loses no quantity; the loops of the *)
(* rule checkers list what the checkers' definitions say; a tradebook is   *)
(* read as the trades its orders are matched to; a list of trades is read  *)
(* the same from every kind of file that can hold it.  With the reports of  *)
(* ReportProofs these are all the engines of MCEngines.                    *)
(***************************************************************************)
EXTENDS MCEngines, ReportProofs

\* An order the loop has not reached is untouched.
Untouched == \A o \in rest : left[o] = book[o].qty

\* A queue holds open orders of its side, each of them once.
Holds(q, side, open) ==
    \A i \in 1 .. Len(q) :
        /\ book[q[i]].side = side /\ open[q[i]] > 0
        /\ \A j \in 1 .. Len(q) : q[i] = q[j] => i = j
Queued(q, side) == Holds(q, side, left)

\* A trade used up one of its two orders, so the same pair never trades again.
UsedUp == IsFiniteSet(trades) /\ \A t \in trades : left[t.buy] = 0 \/ left[t.sell] = 0

IInv == TypeOK /\ Untouched /\ Queued(buys, "BUY") /\ Queued(sells, "SELL") /\ UsedUp /\ Conserved

-----------------------------------------------------------------------------
\* Before the loop nothing is matched.
LEMMA InitEstablishes == Init => IInv
PROOF
  <1> SUFFICES ASSUME Init PROVE IInv
    OBVIOUS
  <1>1. \A o \in Orders : book[o].qty \in Nat
    BY ValuesAssumption DEF Init, Order
  <1>2. TypeOK
    BY <1>1 DEF Init, TypeOK
  <1>3. Untouched /\ Queued(buys, "BUY") /\ Queued(sells, "SELL")
    BY DEF Init, Untouched, Queued, Holds
  <1>4. UsedUp
    BY FS_EmptySet DEF Init, UsedUp
  <1>5. Conserved
    <2>1. \A o \in Orders : Using(o) = {}
      BY DEF Init, Using
    <2>2. \A fun : SumFunctionOnSet(fun, {}) = 0
      BY SumOfNone
    <2>3. \A o \in Orders : SumFunctionOnSet([t \in trades |-> t.qty], Using(o)) = 0
      BY <2>1, <2>2
    <2>4. \A o \in Orders : left[o] = book[o].qty
      BY DEF Init
    <2> QED
      BY <2>3, <2>4, <1>1 DEF Conserved
  <1> QED
    BY <1>2, <1>3, <1>4, <1>5 DEF IInv

\* An order that joins its queue was not in it.
LEMMA JoinsQueue ==
  ASSUME IInv, NEW o \in Orders, Enqueue(o), NEW q, NEW side \in {"BUY", "SELL"},
         q \in Seq(Orders \ rest), Queued(q, side)
  PROVE  LET p == Queue(q, book[o].symbol) IN
         /\ p \in Seq(Orders \ rest') /\ Queued(p, side)
         /\ Append(p, o) \in Seq(Orders \ rest')
         /\ book[o].side = side => Queued(Append(p, o), side)
PROOF
  <1> DEFINE p == Queue(q, book[o].symbol)
  <1>1. o \in rest /\ rest' = rest \ {o}
    BY DEF Enqueue
  <1>2. p \in Seq(Orders \ rest) /\ Queued(p, side)
    BY DEF Queue, Queued, Holds
  <1>3. left[o] > 0
    BY <1>1, ValuesAssumption DEF IInv, TypeOK, Untouched, Order
  <1> HIDE DEF p
  <1>4. p \in Seq(Orders \ rest') /\ Append(p, o) \in Seq(Orders \ rest')
    BY <1>1, <1>2
  <1>5. ASSUME book[o].side = side
        PROVE  Queued(Append(p, o), side)
    <2>1. \A i \in 1 .. Len(p) : p[i] \in Orders \ rest
      BY <1>2
    <2>2. Len(Append(p, o)) = Len(p) + 1 /\ Len(p) \in Nat
          /\ \A i \in 1 .. Len(p) + 1 : Append(p, o)[i] = IF i = Len(p) + 1 THEN o ELSE p[i]
      BY <1>2
    <2> QED
      BY SMTT(30), <1>1, <1>2, <1>3, <1>5, <2>1, <2>2 DEF Queued, Holds
  <1> QED
    BY <1>2, <1>4, <1>5 DEF p

\* The loop takes the next order.
LEMMA EnqueueStep ==
  ASSUME IInv, NEW o \in Orders, Enqueue(o)
  PROVE  IInv'
PROOF
  <1>1. /\ rest' = rest \ {o} /\ book' = book /\ left' = left /\ trades' = trades
    BY DEF Enqueue
  <1>2. /\ buys \in Seq(Orders \ rest) /\ Queued(buys, "BUY")
        /\ sells \in Seq(Orders \ rest) /\ Queued(sells, "SELL")
        /\ book[o].side \in {"BUY", "SELL"}
    BY DEF IInv, TypeOK, Order
  <1>3. /\ buys' \in Seq(Orders \ rest') /\ Queued(buys', "BUY")
        /\ sells' \in Seq(Orders \ rest') /\ Queued(sells', "SELL")
    <2>1. CASE book[o].side = "BUY"
      <3>1. buys' = Append(Queue(buys, book[o].symbol), o) /\ sells' = Queue(sells, book[o].symbol)
        BY <2>1 DEF Enqueue
      <3> QED
        BY <2>1, <3>1, <1>2, JoinsQueue
    <2>2. CASE book[o].side = "SELL"
      <3>1. sells' = Append(Queue(sells, book[o].symbol), o) /\ buys' = Queue(buys, book[o].symbol)
        BY <2>2 DEF Enqueue
      <3> QED
        BY <2>2, <3>1, <1>2, JoinsQueue
    <2> QED
      BY <2>1, <2>2, <1>2
  <1>4. Queued(buys, "BUY")' /\ Queued(sells, "SELL")'
    BY <1>1, <1>3 DEF Queued, Holds
  <1> QED
    BY <1>1, <1>3, <1>4 DEF IInv, TypeOK, Untouched, UsedUp, Conserved, Using

-----------------------------------------------------------------------------
(* One round of the inner loop.                                            *)

\* The heads of the two queues, and what they trade.
LEMMA Heads ==
  ASSUME IInv, Matching
  PROVE  LET buy == Head(buys) sell == Head(sells) qty == Min({left[buy], left[sell]}) IN
         /\ buy \in Orders \ rest /\ sell \in Orders \ rest /\ buy # sell
         /\ book[buy].side = "BUY" /\ book[sell].side = "SELL"
         /\ left[buy] \in Nat /\ left[sell] \in Nat /\ qty \in Nat /\ qty > 0
         /\ qty <= left[buy] /\ qty <= left[sell] /\ qty \in {left[buy], left[sell]}
PROOF
  <1> DEFINE buy == Head(buys)
             sell == Head(sells)
  <1>1. /\ buys \in Seq(Orders \ rest) /\ buys # <<>> /\ Queued(buys, "BUY")
        /\ sells \in Seq(Orders \ rest) /\ sells # <<>> /\ Queued(sells, "SELL")
    BY DEF IInv, TypeOK, Matching
  <1>2. /\ buy = buys[1] /\ 1 \in 1 .. Len(buys) /\ buy \in Orders \ rest
        /\ sell = sells[1] /\ 1 \in 1 .. Len(sells) /\ sell \in Orders \ rest
    BY <1>1
  <1>3. /\ book[buy].side = "BUY" /\ left[buy] > 0
        /\ book[sell].side = "SELL" /\ left[sell] > 0
    BY <1>1, <1>2 DEF Queued, Holds
  <1>4. left[buy] \in Nat /\ left[sell] \in Nat
    BY <1>2 DEF IInv, TypeOK
  <1>5. buy # sell
    BY <1>3
  <1> HIDE DEF buy, sell
  <1>6. /\ Min({left[buy], left[sell]}) \in {left[buy], left[sell]}
        /\ Min({left[buy], left[sell]}) <= left[buy] /\ Min({left[buy], left[sell]}) <= left[sell]
    BY <1>4, MinOfTwo
  <1> QED
    BY <1>2, <1>3, <1>4, <1>5, <1>6 DEF buy, sell

\* An exhausted head leaves its queue, and the others of the queue are not touched.
LEMMA Leaves ==
  ASSUME NEW q \in Seq(Orders), q # <<>>, NEW side, Holds(q, side, left),
         NEW other, book[other].side # side,
         NEW now \in [Orders -> Nat], \A o \in Orders \ {Head(q), other} : now[o] = left[o]
  PROVE  Holds(IF now[Head(q)] = 0 THEN Tail(q) ELSE q, side, now)
PROOF
  <1>1. /\ Head(q) = q[1] /\ Len(q) \in Nat \ {0} /\ \A i \in 1 .. Len(q) : q[i] \in Orders
        /\ Tail(q) \in Seq(Orders) /\ Len(Tail(q)) = Len(q) - 1
        /\ \A i \in 1 .. Len(q) - 1 : Tail(q)[i] = q[i + 1]
    OBVIOUS
  <1>2. \A i \in 1 .. Len(q) : i # 1 => q[i] # Head(q) /\ q[i] # other
    BY <1>1 DEF Holds
  <1>3. \A i \in 1 .. Len(q) : i # 1 => now[q[i]] > 0
    BY <1>1, <1>2 DEF Holds
  <1>4. Holds(Tail(q), side, now)
    <2>1. \A i \in 1 .. Len(q) - 1 : i + 1 \in 1 .. Len(q) /\ i + 1 # 1
      BY <1>1
    <2>2. ASSUME NEW i \in 1 .. Len(q) - 1
          PROVE  /\ book[Tail(q)[i]].side = side /\ now[Tail(q)[i]] > 0
                 /\ \A j \in 1 .. Len(q) - 1 : Tail(q)[i] = Tail(q)[j] => i = j
      <3>1. book[q[i + 1]].side = side /\ now[q[i + 1]] > 0
        BY <2>1, <1>3 DEF Holds
      <3>2. ASSUME NEW j \in 1 .. Len(q) - 1, q[i + 1] = q[j + 1]
            PROVE  i = j
        <4>1. i + 1 = j + 1
          BY <2>1, <3>2 DEF Holds
        <4> QED
          BY <4>1
      <3> QED
        BY <3>1, <3>2, <1>1
    <2> QED
      BY <2>2, <1>1 DEF Holds
  <1>5. ASSUME now[Head(q)] # 0
        PROVE  Holds(q, side, now)
    <2>1. q[1] \in Orders /\ now[q[1]] \in Nat
      BY <1>1
    <2>2. now[q[1]] > 0
      BY <2>1, <1>5, <1>1
    <2>3. \A i \in 1 .. Len(q) : now[q[i]] > 0
      BY <2>2, <1>3
    <2> QED
      BY <2>3 DEF Holds
  <1> QED
    BY <1>4, <1>5

\* Counting two of the numbers down by an amount neither falls short of.
LEMMA CountedDown ==
  ASSUME NEW D, NEW open \in [D -> Nat], NEW a \in D, NEW b \in D, a # b,
         NEW n \in Nat, n <= open[a], n <= open[b],
         NEW now, now = [open EXCEPT ![a] = @ - n, ![b] = @ - n]
  PROVE  /\ now \in [D -> Nat] /\ now[a] = open[a] - n /\ now[b] = open[b] - n
         /\ \A x \in D \ {a, b} : now[x] = open[x]
PROOF
  <1>1. now = [x \in D |-> IF x = b THEN open[b] - n ELSE IF x = a THEN open[a] - n ELSE open[x]]
    OBVIOUS
  <1> QED
    BY <1>1

\* The round trip takes its quantity from both orders.
LEMMA MatchStep ==
  ASSUME IInv, Match
  PROVE  IInv'
PROOF
  <1> DEFINE buy  == Head(buys)
             sell == Head(sells)
             qty  == Min({left[buy], left[sell]})
             new  == [buy |-> buy, sell |-> sell, qty |-> qty,
                      side |-> IF book[buy].time <= book[sell].time THEN "BUY" ELSE "SELL"]
  <1>1. /\ Matching /\ trades' = trades \cup {new}
        /\ left' = [left EXCEPT ![buy] = @ - qty, ![sell] = @ - qty]
        /\ buys'  = IF left'[buy] = 0 THEN Tail(buys) ELSE buys
        /\ sells' = IF left'[sell] = 0 THEN Tail(sells) ELSE sells
        /\ book' = book /\ rest' = rest
    BY DEF Match
  <1>2. /\ buy \in Orders \ rest /\ sell \in Orders \ rest /\ buy # sell
        /\ book[buy].side = "BUY" /\ book[sell].side = "SELL"
        /\ left[buy] \in Nat /\ left[sell] \in Nat /\ qty \in Nat /\ qty > 0
        /\ qty <= left[buy] /\ qty <= left[sell] /\ qty \in {left[buy], left[sell]}
    BY <1>1, Heads
  <1>3. TypeOK
    BY DEF IInv
  <1>4. new \in Trade /\ new.buy = buy /\ new.sell = sell /\ new.qty = qty
    BY <1>2 DEF Trade
  <1> HIDE DEF qty, new, buy, sell
  <1>5. /\ left' \in [Orders -> Nat] /\ left'[buy] = left[buy] - qty /\ left'[sell] = left[sell] - qty
        /\ \A o \in Orders \ {buy, sell} : left'[o] = left[o]
    <2>1. left \in [Orders -> Nat] /\ buy \in Orders /\ sell \in Orders
      BY <1>2, <1>3 DEF TypeOK
    <2>2. left' = [left EXCEPT ![buy] = @ - qty, ![sell] = @ - qty]
      BY <1>1
    <2> QED
      BY <2>1, <2>2, <1>2, CountedDown
  <1>6. /\ buys' \in Seq(Orders \ rest) /\ Queued(buys, "BUY")'
        /\ sells' \in Seq(Orders \ rest) /\ Queued(sells, "SELL")'
    <2>1. /\ buys \in Seq(Orders \ rest) /\ buys # <<>> /\ Holds(buys, "BUY", left)
          /\ sells \in Seq(Orders \ rest) /\ sells # <<>> /\ Holds(sells, "SELL", left)
          /\ left \in [Orders -> Nat]
      BY <1>1 DEF IInv, TypeOK, Matching, Queued
    <2>2. left' \in [Orders -> Nat] /\ book[sell].side # "BUY" /\ book[buy].side # "SELL"
      BY <1>2, <1>5
    <2>3. buys \in Seq(Orders) /\ sells \in Seq(Orders)
      BY <2>1
    <2>4. /\ buys'  = IF left'[Head(buys)] = 0 THEN Tail(buys) ELSE buys
          /\ sells' = IF left'[Head(sells)] = 0 THEN Tail(sells) ELSE sells
      BY <1>1 DEF buy, sell
    <2>5. Holds(buys', "BUY", left')
      <3>1. \A o \in Orders \ {Head(buys), sell} : left'[o] = left[o]
        BY <1>5 DEF buy
      <3>2. Holds(IF left'[Head(buys)] = 0 THEN Tail(buys) ELSE buys, "BUY", left')
        BY <3>1, <2>1, <2>2, <2>3, Leaves
      <3> QED
        BY <3>2, <2>4
    <2>6. Holds(sells', "SELL", left')
      <3>1. \A o \in Orders \ {Head(sells), buy} : left'[o] = left[o]
        BY <1>5 DEF sell
      <3>2. Holds(IF left'[Head(sells)] = 0 THEN Tail(sells) ELSE sells, "SELL", left')
        BY <3>1, <2>1, <2>2, <2>3, Leaves
      <3> QED
        BY <3>2, <2>4
    <2>7. buys' \in Seq(Orders \ rest) /\ sells' \in Seq(Orders \ rest)
      BY <2>1, <2>4
    <2> QED
      BY <2>5, <2>6, <2>7, <1>1 DEF Queued, Holds
  <1>7. TypeOK'
    BY <1>1, <1>2, <1>3, <1>4, <1>5, <1>6 DEF TypeOK
  <1>8. Untouched'
    BY <1>1, <1>2, <1>3, <1>5 DEF IInv, Untouched, TypeOK
  <1>9. UsedUp'
    <2>1. left'[buy] = 0 \/ left'[sell] = 0
      BY <1>2, <1>5
    <2>2. \A o \in Orders : left[o] = 0 => left'[o] = 0
      BY <1>2, <1>5
    <2>3. \A t \in trades : t.buy \in Orders /\ t.sell \in Orders
      BY <1>3 DEF TypeOK, Trade
    <2>4. IsFiniteSet(trades')
      BY <1>1, FS_AddElement DEF IInv, UsedUp
    <2> QED
      BY <1>1, <1>4, <2>1, <2>2, <2>3, <2>4 DEF IInv, UsedUp
  <1>10. Conserved'
    <2> DEFINE fun == [t \in trades |-> t.qty]
               gun == [t \in trades' |-> t.qty]
    <2>1. new \notin trades
      BY <1>2, <1>4 DEF IInv, UsedUp
    <2>2. SUFFICES ASSUME NEW o \in Orders
                   PROVE  book[o].qty = left'[o] + SumFunctionOnSet(gun, Using(o)')
      BY <1>1 DEF Conserved
    <2>3. book[o].qty = left[o] + SumFunctionOnSet(fun, Using(o))
      BY DEF IInv, Conserved
    <2>4. Using(o) \subseteq trades /\ IsFiniteSet(Using(o)) /\ new \notin Using(o)
      BY <2>1, FS_Subset DEF IInv, UsedUp, Using
    <2>5. \A t \in trades' : gun[t] \in Int /\ gun[t] = t.qty
      BY <1>7 DEF TypeOK, Trade
    <2>6. \A t \in Using(o) : fun[t] = gun[t] /\ fun[t] \in Int
      BY <2>4, <1>1, <1>3 DEF TypeOK, Trade
    <2>7. new \in trades'
      BY <1>1
    <2>8. Using(o)' = IF o \in {buy, sell} THEN Using(o) \cup {new} ELSE Using(o)
      BY <1>1, <1>4 DEF Using
    <2>9. \A t \in Using(o) \cup {new} : gun[t] \in Int
      BY <2>4, <2>5, <1>1
    <2>10. gun[new] = qty
      BY <2>5, <2>7, <1>4
    <2> HIDE DEF fun, gun
    <2>11. SumFunctionOnSet(fun, Using(o)) = SumFunctionOnSet(gun, Using(o))
      BY <2>4, <2>6, SumSame
    <2>12. SumFunctionOnSet(gun, Using(o) \cup {new}) = SumFunctionOnSet(gun, Using(o)) + qty
      BY <2>4, <2>9, <2>10, SumWith
    <2>13. SumFunctionOnSet(gun, Using(o)) \in Int
      BY <2>4, <2>9, SumType
    <2>14. CASE o \in {buy, sell}
      BY <2>3, <2>8, <2>11, <2>12, <2>13, <2>14, <1>2, <1>5
    <2>15. CASE o \notin {buy, sell}
      BY <2>3, <2>8, <2>11, <2>15, <1>5
    <2> QED
      BY <2>14, <2>15
  <1> QED
    BY <1>6, <1>7, <1>8, <1>9, <1>10 DEF IInv

\* Each step of the matching loop keeps what is said of its queues and trades.
LEMMA MatchingSteps == IInv /\ [Next]_vars => IInv'
PROOF
  <1> SUFFICES ASSUME IInv, [Next]_vars PROVE IInv'
    OBVIOUS
  <1>1. CASE UNCHANGED vars
    BY ZenonT(60), <1>1 DEF vars, IInv, TypeOK, Untouched, Queued, Holds, UsedUp, Conserved, Using
  <1>2. CASE Match
    BY <1>2, MatchStep
  <1>3. CASE \E o \in Orders : Enqueue(o)
    BY <1>3, EnqueueStep
  <1> QED
    BY <1>1, <1>2, <1>3 DEF Next

\* Open orders are queued once and untouched before they are reached, and a pair of
\* orders trades once.
THEOREM Inductive == Spec => []IInv
PROOF BY InitEstablishes, MatchingSteps, PTL DEF Spec

\* Type correctness: what is left of an order never falls below zero, and a round
\* trip has a quantity (broker_sync.py:80-112).
THEOREM TypeCorrect == Spec => []TypeOK
PROOF
  <1>1. IInv => TypeOK
    BY DEF IInv
  <1> QED
    BY <1>1, Inductive, PTL

\* For any orders, an order's quantity is what is left of it and what its trades
\* used (broker_sync.py:80-114).
THEOREM QuantityConserved == Spec => []Conserved
PROOF
  <1>1. IInv => Conserved
    BY DEF IInv
  <1> QED
    BY <1>1, Inductive, PTL

-----------------------------------------------------------------------------
(* First in, first out.                                                    *)

End(o)     == Ahead(o) + book[o].qty
Larger(a, b)  == IF a > b THEN a ELSE b
Smaller(a, b) == IF a < b THEN a ELSE b

\* What the first n units bought and sold of a symbol have in common of two orders.
Shared(b, s, n) ==
    LET from == Larger(Ahead(b), Ahead(s))
        to   == Smaller(n, Smaller(End(b), End(s))) IN
    IF from < to THEN to - from ELSE 0

Opposite(b, s) ==
    book[b].side = "BUY" /\ book[s].side = "SELL" /\ book[b].symbol = book[s].symbol

\* The orders waiting in the queues.
Waiting == {buys[i] : i \in 1 .. Len(buys)} \cup {sells[i] : i \in 1 .. Len(sells)}

\* The orders are reached in their order, and wait in that order for one symbol.
InTurn    == \A o \in Orders \ rest, p \in rest : Precedes(o, p)
InLine(q) == \A i, j \in 1 .. Len(q) : i < j => Earlier(q[i], q[j])
OneSymbol == \A o, p \in Waiting : book[o].symbol = book[p].symbol

\* An open order waits, unless the loop has left its symbol.
Tracked ==
    \A o \in Orders \ rest : left[o] > 0 =>
        o \in Waiting \/ \A p \in rest \cup Waiting : book[p].symbol # book[o].symbol

\* Only the queues hold open orders of both sides.
OneSided ==
    \A b, s \in Orders \ rest :
        Opposite(b, s) /\ left[b] > 0 /\ left[s] > 0 => b \in Waiting /\ s \in Waiting

\* Of every symbol as many units are bought as sold, the first ones of each side.
LeftOf(o, n) == IF n <= Ahead(o) THEN book[o].qty ELSE IF End(o) <= n THEN 0 ELSE End(o) - n
MatchedTo(upto) ==
    /\ \A o \in Orders : left[o] = LeftOf(o, upto[book[o].symbol])
    /\ \A t \in trades :
         Opposite(t.buy, t.sell) /\ t.qty = Shared(t.buy, t.sell, upto[book[t.buy].symbol])
    /\ \A b, s \in Orders : Opposite(b, s) /\ Shared(b, s, upto[book[b].symbol]) > 0
         => \E t \in trades : t.buy = b /\ t.sell = s

Lines == InTurn /\ InLine(buys) /\ InLine(sells) /\ OneSymbol /\ Tracked /\ OneSided
FInv  == Lines /\ \E upto \in [Symbols -> Nat] : MatchedTo(upto)

\* The larger of two quantities.
LEMMA MaxOfTwo ==
  ASSUME NEW a \in Nat, NEW b \in Nat
  PROVE  Max({a, b}) = Larger(a, b)
PROOF
  <1>1. \E x \in {a, b} : \A y \in {a, b} : x >= y
    BY a <= b \/ b <= a
  <1>2. /\ Max({a, b}) \in {a, b}
        /\ Max({a, b}) >= a /\ Max({a, b}) >= b
    BY <1>1 DEF Max
  <1> QED
    BY <1>2 DEF Larger

\* The orders of o's symbol and side that come before o.
Peers(o) == {p \in Orders : /\ book[p].symbol = book[o].symbol /\ book[p].side = book[o].side
                            /\ Earlier(p, o)}

\* Orders are in a line: one of two is earlier, and what is earlier than p is
\* earlier than what p is earlier than.
LEMMA EarlierIsLinear ==
  ASSUME book \in [Orders -> Order], NEW o \in Orders, NEW p \in Orders
  PROVE  /\ o # p => Earlier(o, p) \/ Earlier(p, o)
         /\ ~(Earlier(o, p) /\ Earlier(p, o))
         /\ ~Earlier(o, o)
         /\ \A q \in Orders : Earlier(q, o) /\ Earlier(o, p) => Earlier(q, p)
PROOF
  <1>1. \A q \in Orders : book[q].time \in Nat /\ q \in Nat
    BY OrdersAssumption, ValuesAssumption DEF Order
  <1> QED
    BY <1>1 DEF Earlier

\* The unit an order starts with is where the orders before it end.
LEMMA AheadFacts ==
  ASSUME book \in [Orders -> Order], NEW o \in Orders
  PROVE  /\ Ahead(o) \in Nat /\ book[o].qty \in Nat \ {0} /\ End(o) \in Nat
         /\ \A p \in Peers(o) : End(p) <= Ahead(o)
         /\ Ahead(o) = 0 \/ \E p \in Peers(o) : Ahead(o) = End(p)
PROOF
  <1> DEFINE size == [p \in Orders |-> book[p].qty]
  <1>1. \A p \in Orders : Ahead(p) = SumFunctionOnSet(size, Peers(p))
    BY DEF Ahead, Peers
  <1>2. \A p \in Orders : size[p] = book[p].qty /\ size[p] \in Nat \ {0}
    BY ValuesAssumption DEF Order
  <1>3. \A p \in Orders : Peers(p) \in SUBSET Orders /\ IsFiniteSet(Peers(p)) /\ p \notin Peers(p)
    BY OrdersAssumption, FS_Subset, EarlierIsLinear DEF Peers
  <1> HIDE DEF size
  <1>4. \A p \in Orders : Ahead(p) \in Nat /\ End(p) \in Nat /\ End(p) = Ahead(p) + size[p]
    <2> SUFFICES ASSUME NEW p \in Orders
                 PROVE  Ahead(p) \in Nat /\ End(p) \in Nat /\ End(p) = Ahead(p) + size[p]
      OBVIOUS
    <2>1. \A x \in Peers(p) : size[x] \in Nat
      BY <1>2, <1>3
    <2>2. SumFunctionOnSet(size, Peers(p)) \in Nat
      BY <2>1, <1>3, SumType
    <2> QED
      BY <2>2, <1>1, <1>2 DEF End
  <1>5. \A p \in Orders : SumFunctionOnSet(size, Peers(p) \cup {p}) = End(p)
    <2> SUFFICES ASSUME NEW p \in Orders
                 PROVE  SumFunctionOnSet(size, Peers(p) \cup {p}) = End(p)
      OBVIOUS
    <2>1. \A x \in Peers(p) \cup {p} : size[x] \in Int
      BY <1>2, <1>3
    <2>2. SumFunctionOnSet(size, Peers(p) \cup {p}) = SumFunctionOnSet(size, Peers(p)) + size[p]
      BY <2>1, <1>3, SumWith
    <2> QED
      BY <2>2, <1>1, <1>4
  <1>6. ASSUME NEW p \in Orders, NEW q \in Peers(p)
        PROVE  End(q) <= Ahead(p)
    <2>1. q \in Orders /\ Peers(q) \cup {q} \subseteq Peers(p)
      BY EarlierIsLinear DEF Peers
    <2>2. \A x \in Peers(p) : size[x] \in Nat
      BY <1>2, <1>3
    <2>3. SumFunctionOnSet(size, Peers(q) \cup {q}) <= SumFunctionOnSet(size, Peers(p))
      BY <2>1, <2>2, <1>3, SumOfMore
    <2> QED
      BY <2>1, <2>3, <1>1, <1>5
  <1>7. ASSUME Ahead(o) # 0
        PROVE  \E p \in Peers(o) : Ahead(o) = End(p)
    <2>1. Peers(o) # {}
      BY <1>7, <1>1, SumOfNone
    <2> DEFINE Gaps == {Ahead(o) - Ahead(p) : p \in Peers(o)}
    <2>2. \A p \in Peers(o) : Ahead(o) - Ahead(p) \in Nat
      BY <1>2, <1>3, <1>4, <1>6
    <2>3. PICK m \in Gaps : \A n \in Gaps : m <= n
      <3>1. Gaps \in SUBSET Nat /\ Gaps # {}
        BY <2>1, <2>2
      <3> QED
        BY <3>1, LeastOfNats
    <2>4. PICK p \in Peers(o) : m = Ahead(o) - Ahead(p)
      BY <2>3
    <2>5. \A q \in Peers(o) : Ahead(q) <= Ahead(p)
      <3> SUFFICES ASSUME NEW q \in Peers(o) PROVE Ahead(q) <= Ahead(p)
        OBVIOUS
      <3>1. Ahead(o) - Ahead(p) <= Ahead(o) - Ahead(q)
        BY <2>3, <2>4
      <3> QED
        BY <3>1, <1>3, <1>4
    <2>6. p \in Orders /\ \A q \in Peers(o) : q \in Orders
      BY <1>3
    <2>7. \A q \in Peers(o) : p \notin Peers(q)
      BY <2>5, <2>6, <1>2, <1>4, <1>6
    <2>8. Peers(o) = Peers(p) \cup {p}
      BY <2>6, <2>7, EarlierIsLinear DEF Peers
    <2> QED
      BY <2>6, <2>8, <1>1, <1>5
  <1> QED
    BY <1>2, <1>4, <1>6, <1>7

\* Of two orders of a symbol and a side one ends before the other starts.
LEMMA NoOverlap ==
  ASSUME book \in [Orders -> Order], NEW o \in Orders, NEW p \in Orders, o # p,
         book[o].symbol = book[p].symbol, book[o].side = book[p].side
  PROVE  End(o) <= Ahead(p) \/ End(p) <= Ahead(o)
PROOF
  <1>1. o \in Peers(p) \/ p \in Peers(o)
    BY EarlierIsLinear DEF Peers
  <1> QED
    BY <1>1, AheadFacts

\* A symbol is first listed somewhere, so an order does not precede itself and,
\* within its symbol, not those before it.
LEMMA PrecedesWithin ==
  ASSUME book \in [Orders -> Order], NEW o \in Orders, NEW p \in Orders,
         book[o].symbol = book[p].symbol
  PROVE  Precedes(o, p) <=> Earlier(o, p)
PROOF
  <1> DEFINE Listed == {q \in Orders : book[q].symbol = book[o].symbol}
  <1>1. Listed \in SUBSET Nat /\ Listed # {}
    BY OrdersAssumption
  <1>2. PICK m \in Listed : \A n \in Listed : m <= n
    BY <1>1, LeastOfNats
  <1>3. FirstListed(book[o].symbol) \in Listed
    BY <1>2 DEF FirstListed, Min
  <1>4. ~(FirstListed(book[o].symbol) < FirstListed(book[p].symbol))
    BY <1>1, <1>3
  <1> QED
    BY <1>4 DEF Precedes

\* Symbols are reached one after another.
LEMMA PrecedesAcross ==
  ASSUME book \in [Orders -> Order], NEW o \in Orders, NEW p \in Orders, NEW q \in Orders,
         Precedes(o, p), Precedes(p, q), book[o].symbol = book[q].symbol
  PROVE  book[p].symbol = book[o].symbol
PROOF
  <1>1. \A x \in Orders : FirstListed(book[x].symbol) \in Nat
    <2> SUFFICES ASSUME NEW x \in Orders PROVE FirstListed(book[x].symbol) \in Nat
      OBVIOUS
    <2> DEFINE Listed == {y \in Orders : book[y].symbol = book[x].symbol}
    <2>1. Listed \in SUBSET Nat /\ Listed # {}
      BY OrdersAssumption
    <2>2. PICK m \in Listed : \A n \in Listed : m <= n
      BY <2>1, LeastOfNats
    <2>3. FirstListed(book[x].symbol) \in Listed
      BY <2>2 DEF FirstListed, Min
    <2> QED
      BY <2>1, <2>3
  <1> QED
    BY <1>1 DEF Precedes

-----------------------------------------------------------------------------
(* The next order joins its line.                                          *)

\* What one queue holds after an order was taken.
LEMMA JoinsLine ==
  ASSUME IInv, InTurn, NEW o \in Orders, Enqueue(o), NEW q \in Seq(Orders \ rest), InLine(q),
         \A i \in 1 .. Len(q) : book[q[i]].symbol = book[Head(q)].symbol
  PROVE  LET p == Queue(q, book[o].symbol) IN
         /\ InLine(p) /\ InLine(Append(p, o))
         /\ {p[i] : i \in 1 .. Len(p)} =
              {x \in {q[i] : i \in 1 .. Len(q)} : book[x].symbol = book[o].symbol}
         /\ {Append(p, o)[i] : i \in 1 .. Len(Append(p, o))} = {p[i] : i \in 1 .. Len(p)} \cup {o}
PROOF
  <1> DEFINE p == Queue(q, book[o].symbol)
  <1>1. q # <<>> => Head(q) = q[1] /\ 1 \in 1 .. Len(q)
    OBVIOUS
  <1>2. p = IF q # <<>> /\ book[Head(q)].symbol = book[o].symbol THEN q ELSE <<>>
    BY DEF Queue
  <1>3. p \in Seq(Orders \ rest) /\ InLine(p)
    BY <1>2 DEF InLine
  <1>4. {p[i] : i \in 1 .. Len(p)} =
          {x \in {q[i] : i \in 1 .. Len(q)} : book[x].symbol = book[o].symbol}
    <2>1. CASE q # <<>> /\ book[Head(q)].symbol = book[o].symbol
      BY <2>1, <1>2
    <2>2. CASE q # <<>> /\ book[Head(q)].symbol # book[o].symbol
      BY <2>2, <1>2
    <2>3. CASE q = <<>>
      BY <2>3, <1>2
    <2> QED
      BY <2>1, <2>2, <2>3
  <1> HIDE DEF p
  <1>5. /\ Len(Append(p, o)) = Len(p) + 1 /\ Len(p) \in Nat
        /\ \A i \in 1 .. Len(p) + 1 : Append(p, o)[i] = IF i = Len(p) + 1 THEN o ELSE p[i]
    BY <1>3
  <1>6. {Append(p, o)[i] : i \in 1 .. Len(Append(p, o))} = {p[i] : i \in 1 .. Len(p)} \cup {o}
    <2>1. Len(p) + 1 \in 1 .. Len(p) + 1 /\ \A i \in 1 .. Len(p) : i \in 1 .. Len(p) + 1 /\ i # Len(p) + 1
      BY <1>5
    <2>2. \A i \in 1 .. Len(p) + 1 : i = Len(p) + 1 \/ i \in 1 .. Len(p)
      BY <1>5
    <2> QED
      BY <1>5, <2>1, <2>2
  <1>7. \A i \in 1 .. Len(p) : Earlier(p[i], o)
    <2> SUFFICES ASSUME NEW i \in 1 .. Len(p) PROVE Earlier(p[i], o)
      OBVIOUS
    <2>1. o \in rest /\ p[i] \in Orders \ rest
      BY <1>3 DEF Enqueue
    <2>2. book[p[i]].symbol = book[o].symbol
      BY <1>4
    <2>3. Precedes(p[i], o)
      BY <2>1 DEF InTurn
    <2> QED
      BY <2>1, <2>2, <2>3, PrecedesWithin DEF IInv, TypeOK
  <1>8. InLine(Append(p, o))
    <2> SUFFICES ASSUME NEW i \in 1 .. Len(p) + 1, NEW j \in 1 .. Len(p) + 1, i < j
                 PROVE  Earlier(Append(p, o)[i], Append(p, o)[j])
      BY <1>5 DEF InLine
    <2>1. i \in 1 .. Len(p) /\ Append(p, o)[i] = p[i]
      BY <1>5
    <2>2. CASE j = Len(p) + 1
      BY <2>1, <2>2, <1>5, <1>7
    <2>3. CASE j # Len(p) + 1
      <3>1. j \in 1 .. Len(p) /\ Append(p, o)[j] = p[j]
        BY <2>3, <1>5
      <3> QED
        BY <2>1, <3>1, <1>3 DEF InLine
    <2> QED
      BY <2>2, <2>3
  <1> QED
    BY <1>3, <1>4, <1>6, <1>8 DEF p

\* The loop takes the next order: the queues keep the orders of its symbol only.
LEMMA EnqueueLines ==
  ASSUME IInv, Lines, NEW o \in Orders, Enqueue(o)
  PROVE  Lines'
PROOF
  <1> DEFINE sym == book[o].symbol
  <1>1. /\ o \in rest /\ rest' = rest \ {o} /\ book' = book /\ left' = left
        /\ \A p \in rest \ {o} : Precedes(o, p)
    BY DEF Enqueue
  <1>2. /\ book \in [Orders -> Order] /\ rest \in SUBSET Orders
        /\ buys \in Seq(Orders \ rest) /\ sells \in Seq(Orders \ rest)
    BY DEF IInv, TypeOK
  <1>3. /\ \A i \in 1 .. Len(buys) : book[buys[i]].symbol = book[Head(buys)].symbol
        /\ \A i \in 1 .. Len(sells) : book[sells[i]].symbol = book[Head(sells)].symbol
    <2>1. /\ buys # <<>> => Head(buys) = buys[1] /\ 1 \in 1 .. Len(buys)
          /\ sells # <<>> => Head(sells) = sells[1] /\ 1 \in 1 .. Len(sells)
      BY <1>2
    <2> QED
      BY <2>1, <1>2 DEF Lines, OneSymbol, Waiting
  <1> DEFINE kept == {p \in Waiting : book[p].symbol = sym}
  <1>4. InLine(buys') /\ InLine(sells') /\ Waiting' = kept \cup {o}
    <2> DEFINE B == Queue(buys, sym)
               Q == Queue(sells, sym)
    <2>1. /\ InLine(B) /\ InLine(Append(B, o)) /\ InLine(Q) /\ InLine(Append(Q, o))
          /\ {B[i] : i \in 1 .. Len(B)} = {p \in {buys[i] : i \in 1 .. Len(buys)} : book[p].symbol = sym}
          /\ {Q[i] : i \in 1 .. Len(Q)} = {p \in {sells[i] : i \in 1 .. Len(sells)} : book[p].symbol = sym}
          /\ {Append(B, o)[i] : i \in 1 .. Len(Append(B, o))} = {B[i] : i \in 1 .. Len(B)} \cup {o}
          /\ {Append(Q, o)[i] : i \in 1 .. Len(Append(Q, o))} = {Q[i] : i \in 1 .. Len(Q)} \cup {o}
      BY <1>2, <1>3, JoinsLine DEF Lines
    <2> HIDE DEF B, Q
    <2>2. Waiting' = {buys'[i] : i \in 1 .. Len(buys')} \cup {sells'[i] : i \in 1 .. Len(sells')}
      BY DEF Waiting
    <2>3. kept = {B[i] : i \in 1 .. Len(B)} \cup {Q[i] : i \in 1 .. Len(Q)}
      BY <2>1 DEF Waiting
    <2> HIDE DEF kept
    <2>4. CASE book[o].side = "BUY"
      <3>1. buys' = Append(B, o) /\ sells' = Q
        BY <2>4 DEF Enqueue, B, Q
      <3>2. Waiting' = kept \cup {o}
        BY <3>1, <2>1, <2>2, <2>3
      <3> QED
        BY <3>1, <3>2, <2>1
    <2>5. CASE book[o].side # "BUY"
      <3>1. buys' = B /\ sells' = Append(Q, o)
        BY <2>5 DEF Enqueue, B, Q
      <3>2. Waiting' = kept \cup {o}
        BY <3>1, <2>1, <2>2, <2>3
      <3> QED
        BY <3>1, <3>2, <2>1
    <2> QED
      BY <2>4, <2>5
  <1>5. InLine(buys)' /\ InLine(sells)'
    BY <1>1, <1>4 DEF InLine, Earlier
  <1>6. InTurn'
    <2>1. ASSUME NEW p \in Orders \ rest', NEW q \in rest'
          PROVE  Precedes(p, q)
      BY <1>1 DEF Lines, InTurn
    <2> QED
      BY <1>1, <2>1 DEF InTurn, Precedes, FirstListed, Earlier
  <1>7. OneSymbol'
    BY <1>1, <1>4 DEF OneSymbol
  <1>8. Waiting \subseteq Orders \ rest
    BY <1>2 DEF Waiting
  <1>9. Tracked'
    <2> SUFFICES ASSUME NEW p \in Orders \ rest', left[p] > 0, p \notin Waiting'
                 PROVE  \A q \in rest' \cup Waiting' : book[q].symbol # book[p].symbol
      BY <1>1 DEF Tracked
    <2>1. p \in Orders \ rest
      BY <1>1, <1>4
    <2>2. CASE p \in Waiting
      <3>1. book[p].symbol # sym
        BY <2>2, <1>4
      <3>2. ASSUME NEW q \in rest', book[q].symbol = book[p].symbol
            PROVE  FALSE
        <4>1. Precedes(p, o) /\ Precedes(o, q)
          BY <1>1, <2>1 DEF Lines, InTurn
        <4> QED
          BY <4>1, <3>1, <3>2, <1>1, <1>2, <2>1, PrecedesAcross
      <3> QED
        BY <3>1, <3>2, <1>4
    <2>3. CASE p \notin Waiting
      BY <2>1, <2>3, <1>1, <1>4 DEF Lines, Tracked
    <2> QED
      BY <2>2, <2>3
  <1>10. OneSided'
    <2>1. \A b, s \in Orders \ rest : ~(Opposite(b, s) /\ left[b] > 0 /\ left[s] > 0)
      <3> SUFFICES ASSUME NEW b \in Orders \ rest, NEW s \in Orders \ rest,
                          Opposite(b, s), left[b] > 0, left[s] > 0
                   PROVE  FALSE
        OBVIOUS
      <3>1. b \in Waiting /\ s \in Waiting
        BY DEF Lines, OneSided
      <3>2. buys # <<>> /\ sells # <<>>
        BY <3>1, <1>2 DEF Waiting, Opposite, IInv, Queued, Holds
      <3> QED
        BY <3>2 DEF Enqueue, Matching
    <2>2. ASSUME NEW b \in Orders \ rest', NEW s \in Orders \ rest',
                 Opposite(b, s), left[b] > 0, left[s] > 0
          PROVE  b \in Waiting' /\ s \in Waiting'
      <3>1. book[b].symbol = book[s].symbol /\ (b = o \/ s = o)
        BY <2>1, <2>2, <1>1 DEF Opposite
      <3>2. ASSUME NEW p \in {b, s}, p # o
            PROVE  p \in Waiting /\ book[p].symbol = sym
        BY <3>1, <3>2, <2>2, <1>1 DEF Lines, Tracked
      <3> QED
        BY <3>1, <3>2, <1>4
    <2> QED
      BY <1>1, <2>2 DEF OneSided, Opposite
  <1> QED
    BY <1>5, <1>6, <1>7, <1>9, <1>10 DEF Lines

-----------------------------------------------------------------------------
(* One round of the inner loop, in line.                                   *)

\* A queue whose head was used up loses it and nothing else.
LEMMA LeavesLine ==
  ASSUME NEW q \in Seq(Orders), q # <<>>, InLine(q), NEW p \in {q, Tail(q)}
  PROVE  /\ InLine(p)
         /\ {p[i] : i \in 1 .. Len(p)} \subseteq {q[i] : i \in 1 .. Len(q)}
         /\ \A x \in {q[i] : i \in 1 .. Len(q)} :
              x \in {p[i] : i \in 1 .. Len(p)} \/ (p # q /\ x = Head(q))
PROOF
  <1>1. /\ Head(q) = q[1] /\ Len(q) \in Nat \ {0}
        /\ Tail(q) \in Seq(Orders) /\ Len(Tail(q)) = Len(q) - 1
        /\ \A i \in 1 .. Len(q) - 1 : Tail(q)[i] = q[i + 1]
    OBVIOUS
  <1>2. \A i \in 1 .. Len(q) - 1 : i + 1 \in 1 .. Len(q)
    BY <1>1
  <1>3. InLine(Tail(q))
    <2> SUFFICES ASSUME NEW i \in 1 .. Len(q) - 1, NEW j \in 1 .. Len(q) - 1, i < j
                 PROVE  Earlier(Tail(q)[i], Tail(q)[j])
      BY <1>1 DEF InLine
    <2>1. i + 1 < j + 1 /\ i + 1 \in 1 .. Len(q) /\ j + 1 \in 1 .. Len(q)
      BY <1>2
    <2>2. Earlier(q[i + 1], q[j + 1])
      BY <2>1 DEF InLine
    <2> QED
      BY <2>2, <1>1
  <1>4. {Tail(q)[i] : i \in 1 .. Len(Tail(q))} \subseteq {q[i] : i \in 1 .. Len(q)}
    BY <1>1, <1>2
  <1>5. ASSUME NEW i \in 1 .. Len(q), q[i] # Head(q)
        PROVE  q[i] \in {Tail(q)[j] : j \in 1 .. Len(Tail(q))}
    <2>1. i - 1 \in 1 .. Len(q) - 1 /\ (i - 1) + 1 = i
      BY <1>5, <1>1
    <2>2. Tail(q)[i - 1] = q[i]
      BY <2>1, <1>1
    <2> QED
      BY <2>1, <2>2, <1>1
  <1> QED
    BY <1>3, <1>4, <1>5

\* A matched order that stays open stays in its queue.
LEMMA MatchLines ==
  ASSUME IInv, Lines, Match
  PROVE  Lines'
PROOF
  <1>1. /\ buys \in Seq(Orders) /\ buys # <<>> /\ sells \in Seq(Orders) /\ sells # <<>>
        /\ buys \in Seq(Orders \ rest) /\ sells \in Seq(Orders \ rest)
        /\ book' = book /\ rest' = rest
    BY DEF IInv, TypeOK, Match, Matching
  <1>2. /\ buys' \in {buys, Tail(buys)} /\ (buys' # buys => left'[Head(buys)] = 0)
        /\ sells' \in {sells, Tail(sells)} /\ (sells' # sells => left'[Head(sells)] = 0)
    BY DEF Match
  <1>3. /\ InLine(buys') /\ InLine(sells')
        /\ Waiting' \subseteq Waiting
        /\ \A o \in Waiting : o \in Waiting' \/ left'[o] = 0
    <2>1. /\ InLine(buys')
          /\ {buys'[i] : i \in 1 .. Len(buys')} \subseteq {buys[i] : i \in 1 .. Len(buys)}
          /\ \A x \in {buys[i] : i \in 1 .. Len(buys)} :
               x \in {buys'[i] : i \in 1 .. Len(buys')} \/ left'[x] = 0
      BY <1>1, <1>2, LeavesLine DEF Lines
    <2>2. /\ InLine(sells')
          /\ {sells'[i] : i \in 1 .. Len(sells')} \subseteq {sells[i] : i \in 1 .. Len(sells)}
          /\ \A x \in {sells[i] : i \in 1 .. Len(sells)} :
               x \in {sells'[i] : i \in 1 .. Len(sells')} \/ left'[x] = 0
      BY <1>1, <1>2, LeavesLine DEF Lines
    <2> QED
      BY <2>1, <2>2 DEF Waiting
  <1>4. \A o \in Orders : left'[o] > 0 => left[o] > 0
    <2> DEFINE buy == Head(buys)
               sell == Head(sells)
               qty == Min({left[buy], left[sell]})
    <2>1. /\ buy \in Orders /\ sell \in Orders /\ buy # sell /\ qty \in Nat
          /\ qty <= left[buy] /\ qty <= left[sell] /\ left[buy] > 0 /\ left[sell] > 0
      BY Heads DEF Match
    <2>2. left' = [left EXCEPT ![buy] = @ - qty, ![sell] = @ - qty]
      BY DEF Match
    <2>3. left \in [Orders -> Nat]
      BY DEF IInv, TypeOK
    <2> HIDE DEF buy, sell, qty
    <2>4. \A o \in Orders \ {buy, sell} : left'[o] = left[o]
      BY <2>1, <2>2, <2>3, CountedDown
    <2> QED
      BY <2>1, <2>4
  <1>5. Tracked'
    BY <1>1, <1>3, <1>4 DEF Lines, Tracked
  <1>6. OneSided'
    BY <1>1, <1>3, <1>4 DEF Lines, OneSided, Opposite
  <1> QED
    BY <1>1, <1>3, <1>5, <1>6 DEF Lines, InTurn, Precedes, FirstListed, Earlier, InLine, OneSymbol

\* The head of a queue has the first unit of its symbol and side not matched yet.
LEMMA HeadIsNext ==
  ASSUME IInv, Lines, NEW upto \in [Symbols -> Nat], MatchedTo(upto),
         NEW q \in {buys, sells}, q # <<>>
  PROVE  LET o == Head(q) n == upto[book[o].symbol] IN
         Ahead(o) <= n /\ n < End(o) /\ left[o] = End(o) - n
PROOF
  <1> DEFINE o == Head(q)
             n == upto[book[o].symbol]
  <1>1. /\ q \in Seq(Orders \ rest) /\ book \in [Orders -> Order] /\ left \in [Orders -> Nat]
        /\ rest \subseteq Orders
    BY DEF IInv, TypeOK
  <1>2. o = q[1] /\ 1 \in 1 .. Len(q) /\ o \in Orders \ rest
    BY <1>1
  <1>3. n \in Nat /\ left[o] > 0 /\ left[o] = LeftOf(o, n)
    BY <1>1, <1>2 DEF IInv, MatchedTo, Order, Queued, Holds
  <1>4. o \in Waiting
    BY <1>2 DEF Waiting
  <1> HIDE DEF o, n
  <1>5. ASSUME NEW p \in Peers(o)
        PROVE  End(p) <= n
    <2>1. p \in Orders /\ Earlier(p, o) /\ book[p].symbol = book[o].symbol /\ book[p].side = book[o].side
      BY DEF Peers
    <2>2. p \notin rest
      BY <1>1, <1>2, <2>1, PrecedesWithin, EarlierIsLinear DEF Lines, InTurn
    <2>3. ASSUME left[p] > 0
          PROVE  FALSE
      <3>1. p \in Waiting
        BY <2>1, <2>2, <2>3, <1>4 DEF Lines, Tracked
      <3>2. PICK i \in 1 .. Len(q) : p = q[i]
        <4>1. book[p].side = book[q[1]].side
          BY <2>1, <1>2
        <4> QED
          BY <3>1, <4>1, <1>2 DEF Waiting, IInv, Queued, Holds
      <3>3. i = 1 \/ Earlier(o, p)
        BY <3>2, <1>1, <1>2 DEF Lines, InLine
      <3> QED
        BY <3>2, <3>3, <2>1, <1>1, <1>2, EarlierIsLinear
    <2>4. left[p] = LeftOf(p, n) /\ left[p] = 0
      BY <2>1, <2>3, <1>1 DEF MatchedTo, n
    <2> QED
      BY <2>1, <2>4, <1>1, <1>3, AheadFacts DEF LeftOf
  <1>6. Ahead(o) <= n
    BY SMTT(30), <1>1, <1>2, <1>3, <1>5, AheadFacts
  <1>7. n < End(o) /\ left[o] = End(o) - n
    BY <1>1, <1>2, <1>3, <1>6, AheadFacts DEF LeftOf, End
  <1> QED
    BY <1>6, <1>7 DEF o, n

\* The lines depend on the orders only, which no step changes.
LEMMA SameLines ==
  ASSUME book' = book
  PROVE  /\ \A b, s : Opposite(b, s)' <=> Opposite(b, s)
         /\ \A b, s, k : Shared(b, s, k)' = Shared(b, s, k)
         /\ \A o, k : LeftOf(o, k)' = LeftOf(o, k)
PROOF
  <1>1. \A o : Ahead(o)' = Ahead(o) /\ End(o)' = End(o)
    BY DEF Ahead, End, Earlier
  <1> QED
    BY <1>1 DEF Opposite, Shared, LeftOf

\* What is matched stays so while orders and trades stay as they are.
LEMMA MatchedKept ==
  ASSUME book' = book, left' = left, trades' = trades, NEW upto, MatchedTo(upto)
  PROVE  MatchedTo(upto)'
PROOF
  <1>1. (\A o \in Orders : left[o] = LeftOf(o, upto[book[o].symbol]))'
    BY SameLines DEF MatchedTo
  <1>2. (\A t \in trades :
           Opposite(t.buy, t.sell) /\ t.qty = Shared(t.buy, t.sell, upto[book[t.buy].symbol]))'
    BY SameLines DEF MatchedTo
  <1>3. (\A b, s \in Orders : Opposite(b, s) /\ Shared(b, s, upto[book[b].symbol]) > 0
           => \E t \in trades : t.buy = b /\ t.sell = s)'
    BY SameLines DEF MatchedTo
  <1> QED
    BY <1>1, <1>2, <1>3 DEF MatchedTo

\* What a pair of orders shares of the units up to n and up to m is the same unless
\* both have units in between.
LEMMA SharedBeyond ==
  ASSUME book \in [Orders -> Order], NEW x \in Orders, NEW y \in Orders,
         NEW n \in Nat, NEW m \in Nat, n <= m,
         End(x) <= n \/ m <= Ahead(x) \/ End(y) <= n \/ m <= Ahead(y)
  PROVE  Shared(x, y, m) = Shared(x, y, n)
PROOF
  <1>1. Ahead(x) \in Nat /\ Ahead(y) \in Nat /\ End(x) \in Nat /\ End(y) \in Nat
    BY AheadFacts
  <1> QED
    BY <1>1 DEF Shared, Larger, Smaller

\* The round matches the next units of the symbol, and the trade is what the two
\* heads share of them.
LEMMA MatchMatches ==
  ASSUME IInv, Lines, Match, NEW upto \in [Symbols -> Nat], MatchedTo(upto)
  PROVE  \E later \in [Symbols -> Nat] : MatchedTo(later)'
PROOF
  <1> DEFINE buy  == Head(buys)
             sell == Head(sells)
             qty  == Min({left[buy], left[sell]})
             sym  == book[buy].symbol
             n    == upto[sym]
             m    == n + qty
             new  == [buy |-> buy, sell |-> sell, qty |-> qty,
                      side |-> IF book[buy].time <= book[sell].time THEN "BUY" ELSE "SELL"]
  <1>1. /\ Matching /\ book' = book /\ trades' = trades \cup {new}
        /\ left' = [left EXCEPT ![buy] = @ - qty, ![sell] = @ - qty]
    BY DEF Match
  <1>2. /\ buy \in Orders /\ sell \in Orders /\ buy # sell
        /\ book[buy].side = "BUY" /\ book[sell].side = "SELL"
        /\ left[buy] \in Nat /\ left[sell] \in Nat /\ qty \in Nat /\ qty > 0
        /\ qty <= left[buy] /\ qty <= left[sell] /\ qty \in {left[buy], left[sell]}
    BY <1>1, Heads
  <1>3. /\ book \in [Orders -> Order] /\ left \in [Orders -> Nat] /\ trades \in SUBSET Trade
        /\ buys \in Seq(Orders) /\ buys # <<>> /\ sells \in Seq(Orders) /\ sells # <<>>
    BY <1>1 DEF IInv, TypeOK, Matching
  <1>4. book[sell].symbol = sym /\ sym \in Symbols /\ Opposite(buy, sell)
    <2>1. buy = buys[1] /\ 1 \in 1 .. Len(buys) /\ sell = sells[1] /\ 1 \in 1 .. Len(sells)
      BY <1>3
    <2>2. buy \in Waiting /\ sell \in Waiting
      BY <2>1 DEF Waiting
    <2> QED
      BY <2>2, <1>2, <1>3 DEF Lines, OneSymbol, Opposite, Order
  <1>5. /\ Ahead(buy) <= n /\ n < End(buy) /\ left[buy] = End(buy) - n
        /\ Ahead(sell) <= n /\ n < End(sell) /\ left[sell] = End(sell) - n
    BY <1>3, <1>4, HeadIsNext DEF IInv
  <1>6. new.buy = buy /\ new.sell = sell /\ new.qty = qty
    OBVIOUS
  <1> HIDE DEF buy, sell, qty, new
  <1>7. PICK later \in [Symbols -> Nat] :
          /\ n \in Nat /\ m \in Nat /\ n <= m /\ later[sym] = m
          /\ \A x \in Symbols \ {sym} : later[x] = upto[x]
    <2>1. n \in Nat /\ m \in Nat /\ n <= m
      BY <1>2, <1>4
    <2> HIDE DEF n, m, sym
    <2>2. [upto EXCEPT ![sym] = m] \in [Symbols -> Nat]
      BY <2>1
    <2> QED
      BY <2>1, <2>2, <1>4
  <1>8. /\ left'[buy] = left[buy] - qty /\ left'[sell] = left[sell] - qty
        /\ \A o \in Orders \ {buy, sell} : left'[o] = left[o]
    BY <1>1, <1>2, <1>3, CountedDown
  <1> HIDE DEF sym, n, m
  <1>9. \A o \in Orders : /\ Ahead(o) \in Nat /\ End(o) \in Nat
                           /\ book[o].qty \in Nat \ {0} /\ End(o) = Ahead(o) + book[o].qty
    BY <1>3, AheadFacts DEF End
  <1>10. Ahead(buy) \in Nat /\ End(buy) \in Nat /\ Ahead(sell) \in Nat /\ End(sell) \in Nat
    BY <1>2, <1>9
  <1>11. m = n + qty /\ n \in Nat /\ m \in Nat /\ qty \in Nat /\ qty > 0
    BY <1>2, <1>7 DEF m
  <1>12. m <= End(buy) /\ m <= End(sell)
    <2>1. qty <= End(buy) - n /\ qty <= End(sell) - n
      BY <1>2, <1>5
    <2> QED
      BY <2>1, <1>10, <1>11
  <1>13. ASSUME NEW o \in Orders, book[o].symbol = sym, o # buy, o # sell
         PROVE  End(o) <= n \/ m <= Ahead(o)
    <2>1. PICK h \in {buy, sell} : book[h].side = book[o].side
      BY <1>2, <1>3 DEF Order
    <2>2. h \in Orders /\ h # o /\ book[h].symbol = sym /\ Ahead(h) <= n /\ m <= End(h)
      BY <1>2, <1>4, <1>5, <1>12, <1>13 DEF sym
    <2>3. End(o) <= Ahead(h) \/ End(h) <= Ahead(o)
      BY <2>1, <2>2, <1>3, <1>13, NoOverlap
    <2>4. /\ Ahead(o) \in Nat /\ End(o) \in Nat /\ Ahead(h) \in Nat /\ End(h) \in Nat
      BY <2>2, <1>9
    <2> QED
      BY <2>2, <2>3, <2>4, <1>11
  <1>14. \A o \in Orders : left'[o] = LeftOf(o, later[book[o].symbol])
    <2> SUFFICES ASSUME NEW o \in Orders
                 PROVE  left'[o] = LeftOf(o, later[book[o].symbol])
      OBVIOUS
    <2>1. left[o] = LeftOf(o, upto[book[o].symbol]) /\ book[o].symbol \in Symbols
      BY <1>3 DEF MatchedTo, Order
    <2>2. CASE o \in {buy, sell}
      <3>1. later[book[o].symbol] = m /\ Ahead(o) <= n /\ n < m /\ m <= End(o)
            /\ left'[o] = (End(o) - n) - qty
        BY <2>2, <1>2, <1>4, <1>5, <1>7, <1>8, <1>12 DEF sym, m
      <3>2. LeftOf(o, m) = End(o) - m
        <4>1. Ahead(o) \in Nat /\ End(o) \in Nat
          BY <1>9
        <4> QED
          BY <3>1, <4>1, <1>11 DEF LeftOf
      <3>3. (End(o) - n) - qty = End(o) - m
        BY <1>9, <1>11
      <3> QED
        BY <3>1, <3>2, <3>3
    <2>3. CASE o \notin {buy, sell} /\ book[o].symbol = sym
      <3>1. End(o) <= n \/ m <= Ahead(o)
        BY <2>3, <1>13
      <3>2. LeftOf(o, m) = LeftOf(o, n)
        <4>1. /\ Ahead(o) \in Nat /\ End(o) \in Nat
              /\ book[o].qty \in Nat \ {0} /\ End(o) = Ahead(o) + book[o].qty
          BY <1>9
        <4> QED
          BY <3>1, <4>1, <1>11 DEF LeftOf
      <3> QED
        BY <2>1, <2>3, <3>2, <1>7, <1>8 DEF n
    <2>4. CASE o \notin {buy, sell} /\ book[o].symbol # sym
      BY <2>1, <2>4, <1>7, <1>8
    <2> QED
      BY <2>2, <2>3, <2>4
  <1>15. Shared(buy, sell, n) = 0 /\ Shared(buy, sell, m) = qty
    <2>1. left[buy] # 0 /\ left[sell] # 0
      BY <1>2
    <2>2. \A t \in trades : ~(t.buy = buy /\ t.sell = sell)
      BY <2>1 DEF IInv, UsedUp
    <2>3. ~(Shared(buy, sell, n) > 0)
      BY <2>2, <1>2, <1>4 DEF MatchedTo, n, sym
    <2>4. m = End(buy) \/ m = End(sell)
      <3>1. qty = End(buy) - n \/ qty = End(sell) - n
        BY <1>2, <1>5
      <3> QED
        BY <3>1, <1>10, <1>11
    <2> QED
      BY <2>3, <2>4, <1>5, <1>12, <1>10, <1>11 DEF Shared, Larger, Smaller
  <1>16. ASSUME NEW x \in Orders, NEW y \in Orders, Opposite(x, y), ~(x = buy /\ y = sell)
         PROVE  Shared(x, y, later[book[x].symbol]) = Shared(x, y, upto[book[x].symbol])
    <2>1. book[x].symbol = book[y].symbol /\ book[x].symbol \in Symbols
      BY <1>3, <1>16 DEF Opposite, Order
    <2>2. CASE book[x].symbol = sym
      <3>1. (x # buy /\ x # sell) \/ (y # buy /\ y # sell)
        BY <1>2, <1>16 DEF Opposite
      <3>2. End(x) <= n \/ m <= Ahead(x) \/ End(y) <= n \/ m <= Ahead(y)
        BY <3>1, <2>1, <2>2, <1>13
      <3> QED
        BY <3>2, <2>2, <1>3, <1>7, SharedBeyond DEF n
    <2>3. CASE book[x].symbol # sym
      BY <2>1, <2>3, <1>7
    <2> QED
      BY <2>2, <2>3
  <1>17. \A t \in trades' :
           Opposite(t.buy, t.sell) /\ t.qty = Shared(t.buy, t.sell, later[book[t.buy].symbol])
    <2>1. \A t \in trades :
            /\ t.buy \in Orders /\ t.sell \in Orders /\ Opposite(t.buy, t.sell)
            /\ t.qty = Shared(t.buy, t.sell, upto[book[t.buy].symbol]) /\ t.qty > 0
      BY <1>3 DEF MatchedTo, Trade, IInv, TypeOK
    <2>2. \A t \in trades : ~(t.buy = buy /\ t.sell = sell)
      BY <2>1, <1>15 DEF n, sym
    <2>3. ASSUME NEW t \in trades
          PROVE  t.qty = Shared(t.buy, t.sell, later[book[t.buy].symbol])
      BY <2>1, <2>2, <1>16
    <2>4. new.qty = Shared(new.buy, new.sell, later[book[new.buy].symbol])
      BY <1>6, <1>7, <1>15 DEF sym
    <2> QED
      BY <2>1, <2>3, <2>4, <1>1, <1>4, <1>6
  <1>18. \A b, s \in Orders : Opposite(b, s) /\ Shared(b, s, later[book[b].symbol]) > 0
           => \E t \in trades' : t.buy = b /\ t.sell = s
    BY <1>1, <1>6, <1>16 DEF MatchedTo
  <1>19. MatchedTo(later)'
    <2>1. /\ \A b, s : Opposite(b, s)' <=> Opposite(b, s)
          /\ \A b, s, k : Shared(b, s, k)' = Shared(b, s, k)
          /\ \A o, k : LeftOf(o, k)' = LeftOf(o, k)
      BY <1>1, SameLines
    <2>2. (\A o \in Orders : left[o] = LeftOf(o, later[book[o].symbol]))'
      BY <2>1, <1>1, <1>14
    <2>3. (\A t \in trades :
             Opposite(t.buy, t.sell) /\ t.qty = Shared(t.buy, t.sell, later[book[t.buy].symbol]))'
      BY <2>1, <1>1, <1>17
    <2>4. (\A b, s \in Orders : Opposite(b, s) /\ Shared(b, s, later[book[b].symbol]) > 0
             => \E t \in trades : t.buy = b /\ t.sell = s)'
      BY <2>1, <1>1, <1>18
    <2> QED
      BY <2>2, <2>3, <2>4 DEF MatchedTo
  <1> QED
    BY <1>7, <1>19

\* A pair whose shorter order ends within the units matched shares all it overlaps.
LEMMA SharedIsOverlap ==
  ASSUME book \in [Orders -> Order], NEW b \in Orders, NEW s \in Orders, NEW n \in Nat
  PROVE  /\ Overlap(b, s) \in Nat
         /\ End(b) <= n \/ End(s) <= n => Shared(b, s, n) = Overlap(b, s)
         /\ Shared(b, s, n) > 0 => Overlap(b, s) > 0 /\ Ahead(b) < n /\ Ahead(s) < n
PROOF
  <1>1. Ahead(b) \in Nat /\ Ahead(s) \in Nat /\ End(b) \in Nat /\ End(s) \in Nat
    BY AheadFacts
  <1>2. Max({Ahead(b), Ahead(s)}) = Larger(Ahead(b), Ahead(s))
    BY <1>1, MaxOfTwo
  <1>3. Min({End(b), End(s)}) = Smaller(End(b), End(s))
    <2>1. /\ Min({End(b), End(s)}) \in {End(b), End(s)}
          /\ Min({End(b), End(s)}) <= End(b) /\ Min({End(b), End(s)}) <= End(s)
      BY <1>1, MinOfTwo
    <2> QED
      BY <2>1, <1>1 DEF Smaller
  <1>4. Overlap(b, s) = LET from == Larger(Ahead(b), Ahead(s)) to == Smaller(End(b), End(s)) IN
                        IF from < to THEN to - from ELSE 0
    BY <1>2, <1>3 DEF Overlap, End
  <1> QED
    BY <1>1, <1>4 DEF Shared, Larger, Smaller

\* Before the loop nothing is matched and nobody waits.
LEMMA InitLines == Init => FInv
PROOF
  <1> SUFFICES ASSUME Init PROVE FInv
    OBVIOUS
  <1>1. IInv
    BY InitEstablishes
  <1>2. /\ book \in [Orders -> Order] /\ left = [o \in Orders |-> book[o].qty] /\ rest = Orders
        /\ buys = <<>> /\ sells = <<>> /\ trades = {}
    BY DEF Init
  <1>3. Waiting = {} /\ InLine(buys) /\ InLine(sells)
    BY <1>2 DEF Waiting, InLine
  <1>4. Lines
    BY <1>2, <1>3 DEF Lines, InTurn, OneSymbol, Tracked, OneSided
  <1>5. MatchedTo([x \in Symbols |-> 0])
    <2>1. \A o \in Orders : book[o].symbol \in Symbols /\ Ahead(o) \in Nat
      BY <1>2, AheadFacts DEF Order
    <2>2. \A o \in Orders : left[o] = LeftOf(o, 0)
      BY <1>2, <2>1 DEF LeftOf
    <2>3. \A b, s \in Orders : ~(Shared(b, s, 0) > 0)
      BY <1>2, <2>1, SharedIsOverlap
    <2> QED
      BY <1>2, <2>1, <2>2, <2>3 DEF MatchedTo
  <1>6. [x \in Symbols |-> 0] \in [Symbols -> Nat]
    OBVIOUS
  <1> QED
    BY <1>4, <1>5, <1>6 DEF FInv

\* The orders wait in line and the units matched are the first ones of each side.
THEOREM LinesKept == Spec => [](IInv /\ FInv)
PROOF
  <1>1. Init => FInv
    BY InitLines
  <1>2. IInv /\ FInv /\ [Next]_vars => FInv'
    <2> SUFFICES ASSUME IInv, FInv, [Next]_vars PROVE FInv'
      OBVIOUS
    <2>1. Lines /\ \E upto \in [Symbols -> Nat] : MatchedTo(upto)
      BY DEF FInv
    <2>2. CASE UNCHANGED vars
      <3>1. Lines'
        BY <2>1, <2>2 DEF vars, Lines, InTurn, InLine, OneSymbol, Tracked, OneSided, Waiting,
                          Opposite, Precedes, FirstListed, Earlier
      <3>2. ASSUME NEW upto \in [Symbols -> Nat], MatchedTo(upto)
            PROVE  MatchedTo(upto)'
        BY <2>2, <3>2, MatchedKept DEF vars
      <3> QED
        BY <2>1, <3>1, <3>2 DEF FInv
    <2>3. CASE Match
      BY <2>1, <2>3, MatchLines, MatchMatches DEF FInv
    <2>4. ASSUME NEW o \in Orders, Enqueue(o)
          PROVE  FInv'
      <3>1. Lines'
        BY <2>1, <2>4, EnqueueLines
      <3>2. book' = book /\ left' = left /\ trades' = trades
        BY <2>4 DEF Enqueue
      <3>3. ASSUME NEW upto \in [Symbols -> Nat], MatchedTo(upto)
            PROVE  MatchedTo(upto)'
        BY <3>2, <3>3, MatchedKept
      <3> QED
        BY <2>1, <3>1, <3>3 DEF FInv
    <2> QED
      BY <2>2, <2>3, <2>4 DEF Next
  <1> QED
    BY <1>1, <1>2, Inductive, PTL DEF Spec

\* When no pair is left to match, the trades are the overlaps.
LEMMA NothingLeft ==
  ASSUME IInv, FInv, ~Matching
  PROVE  {<<t.buy, t.sell, t.qty>> : t \in trades} =
            {<<p[1], p[2], Overlap(p[1], p[2])>> : p \in
                {p \in Reached("BUY") \X Reached("SELL") :
                    book[p[1]].symbol = book[p[2]].symbol /\ Overlap(p[1], p[2]) > 0}}
PROOF
  <1>1. PICK upto \in [Symbols -> Nat] : MatchedTo(upto)
    BY DEF FInv
  <1>2. /\ book \in [Orders -> Order] /\ rest \subseteq Orders /\ trades \in SUBSET Trade
        /\ buys \in Seq(Orders \ rest) /\ sells \in Seq(Orders \ rest)
        /\ \A t \in trades : t.qty > 0
    BY DEF IInv, TypeOK
  <1>3. ASSUME NEW b \in Reached("BUY"), NEW s \in Reached("SELL"), book[b].symbol = book[s].symbol
        PROVE  Shared(b, s, upto[book[b].symbol]) = Overlap(b, s)
    <2> DEFINE n == upto[book[b].symbol]
    <2>1. /\ b \in Orders \ rest /\ s \in Orders \ rest /\ Opposite(b, s)
          /\ n \in Nat /\ left[b] = LeftOf(b, n) /\ left[s] = LeftOf(s, n)
      BY <1>1, <1>2, <1>3 DEF Reached, Opposite, MatchedTo, Order
    <2>2. ~(left[b] > 0 /\ left[s] > 0)
      <3> SUFFICES ASSUME left[b] > 0, left[s] > 0 PROVE FALSE
        OBVIOUS
      <3>1. b \in Waiting /\ s \in Waiting
        BY <2>1 DEF FInv, Lines, OneSided
      <3>2. buys # <<>> /\ sells # <<>>
        BY <3>1, <2>1, <1>2 DEF Waiting, Opposite, IInv, Queued, Holds
      <3> QED
        BY <3>2 DEF Matching
    <2> HIDE DEF n
    <2>3. \A o \in {b, s} : /\ Ahead(o) \in Nat /\ End(o) \in Nat
                            /\ book[o].qty \in Nat \ {0} /\ left[o] = LeftOf(o, n)
      BY <2>1, <1>2, AheadFacts
    <2>4. \A o \in {b, s} : left[o] > 0 \/ End(o) <= n
      BY <2>1, <2>3 DEF LeftOf
    <2>5. End(b) <= n \/ End(s) <= n
      BY <2>2, <2>4
    <2> QED
      BY <2>1, <2>5, <1>2, SharedIsOverlap DEF n
  <1>4. ASSUME NEW b \in Orders, NEW s \in Orders, Opposite(b, s),
               Shared(b, s, upto[book[b].symbol]) > 0
        PROVE  b \in Reached("BUY") /\ s \in Reached("SELL")
    <2> DEFINE n == upto[book[b].symbol]
    <2>1. n \in Nat /\ book[s].symbol = book[b].symbol
      BY <1>2, <1>4 DEF Opposite, Order
    <2>2. Ahead(b) < n /\ Ahead(s) < n
      BY <2>1, <1>2, <1>4, SharedIsOverlap
    <2>3. \A o \in {b, s} : /\ Ahead(o) \in Nat /\ End(o) \in Nat /\ End(o) = Ahead(o) + book[o].qty
                            /\ book[o].qty \in Nat /\ left[o] = LeftOf(o, n)
      BY <2>1, <1>1, <1>2, AheadFacts DEF MatchedTo, End
    <2> HIDE DEF n
    <2>4. \A o \in {b, s} : left[o] # book[o].qty
      <3> SUFFICES ASSUME NEW o \in {b, s} PROVE left[o] # book[o].qty
        OBVIOUS
      <3>1. /\ Ahead(o) < n /\ Ahead(o) \in Nat /\ book[o].qty \in Nat
            /\ End(o) = Ahead(o) + book[o].qty
            /\ left[o] = IF n <= Ahead(o) THEN book[o].qty ELSE IF End(o) <= n THEN 0 ELSE End(o) - n
        BY <2>2, <2>3 DEF LeftOf
      <3>2. book[o].qty > 0
        BY <1>2, AheadFacts
      <3> QED
        BY <3>1, <3>2, <2>1
    <2> QED
      BY <2>4, <1>2, <1>4 DEF IInv, Untouched, Reached, Opposite
  <1>5. ASSUME NEW t \in trades
        PROVE  /\ t.buy \in Reached("BUY") /\ t.sell \in Reached("SELL")
               /\ book[t.buy].symbol = book[t.sell].symbol
               /\ t.qty = Overlap(t.buy, t.sell) /\ t.qty > 0
    <2>1. /\ t.buy \in Orders /\ t.sell \in Orders /\ Opposite(t.buy, t.sell) /\ t.qty > 0
          /\ t.qty = Shared(t.buy, t.sell, upto[book[t.buy].symbol])
      BY <1>1, <1>2 DEF MatchedTo, Trade
    <2>2. t.buy \in Reached("BUY") /\ t.sell \in Reached("SELL")
      BY <2>1, <1>4
    <2> QED
      BY <2>1, <2>2, <1>3 DEF Opposite
  <1>6. ASSUME NEW b \in Reached("BUY"), NEW s \in Reached("SELL"),
               book[b].symbol = book[s].symbol, Overlap(b, s) > 0
        PROVE  \E t \in trades : t.buy = b /\ t.sell = s /\ t.qty = Overlap(b, s)
    <2>1. b \in Orders /\ s \in Orders /\ Opposite(b, s)
      BY <1>6 DEF Reached, Opposite
    <2>2. PICK t \in trades : t.buy = b /\ t.sell = s
      BY <2>1, <1>1, <1>3, <1>6 DEF MatchedTo
    <2> QED
      BY <2>2, <1>5
  <1> DEFINE pairs == {p \in Reached("BUY") \X Reached("SELL") :
                         book[p[1]].symbol = book[p[2]].symbol /\ Overlap(p[1], p[2]) > 0}
  <1>7. ASSUME NEW t \in trades
        PROVE  \E p \in pairs : <<t.buy, t.sell, t.qty>> = <<p[1], p[2], Overlap(p[1], p[2])>>
    <2>1. <<t.buy, t.sell>> \in pairs
      BY <1>5
    <2> QED
      BY <2>1, <1>5
  <1>8. ASSUME NEW p \in pairs
        PROVE  \E t \in trades : <<t.buy, t.sell, t.qty>> = <<p[1], p[2], Overlap(p[1], p[2])>>
    BY <1>6
  <1> HIDE DEF pairs
  <1>9. {<<t.buy, t.sell, t.qty>> : t \in trades} = {<<p[1], p[2], Overlap(p[1], p[2])>> : p \in pairs}
    BY <1>7, <1>8
  <1> QED
    BY <1>9 DEF pairs

\* For any orders, the n-th unit bought of a symbol is matched with the n-th unit sold
\* (broker_sync.py:59-114).
THEOREM FirstInFirstOut == Spec => []FifoAgrees
PROOF
  <1>1. IInv /\ FInv => FifoAgrees
    BY NothingLeft DEF FifoAgrees
  <1> QED
    BY <1>1, LinesKept, PTL

-----------------------------------------------------------------------------
SoFar       == S \ unchecked
On(D, d)   == {s \in D : Day[s] = d}
Trailing(D) == {s \in D : \A q \in D : q >= s => Losing(q)}

\* The trades seen are finitely many and come before the rest.
Ordered == IsFiniteSet(SoFar) /\ \A s \in SoFar, t \in unchecked : s < t

\* The counters of the loop are sums and counts over the trades seen.
Counting ==
    RuleType[r] = "max_trades_per_day" => \A d \in Days : count[d] = Cardinality(On(SoFar, d))
DayLosses ==
    RuleType[r] = "max_loss_per_day" => \A d \in Days :
        loss[d] = Lost(On(SoFar, d)) /\ (d \in breached <=> loss[d] > Limit)
Consecutive ==
    RuleType[r] = "max_consecutive_losses" => consec = Cardinality(Trailing(SoFar))

LoopInv == LoopTypeOK /\ Ordered /\ Counting /\ DayLosses /\ Consecutive /\ LoopAgrees

-----------------------------------------------------------------------------
(* A trade and the trades before it.                                       *)

\* Visited(D, t): t comes after the trades of D.
Visited(D, t) == /\ D \subseteq Trades /\ IsFiniteSet(D) /\ t \in Trades /\ t \notin D
                 /\ \A s \in D : s < t

\* What a verdict on an earlier trade depends on does not change.
LEMMA EarlierKept ==
  ASSUME NEW D, NEW t, Visited(D, t), NEW s \in D
  PROVE  /\ UpTo(SameDay(D \cup {t}, s), s) = UpTo(SameDay(D, s), s)
         /\ LosingRun(D \cup {t}, s) = LosingRun(D, s)
PROOF
  <1>1. s \in Nat /\ t \in Nat /\ s < t
    BY TradesAssumption DEF Visited
  <1>2. ~(t <= s)
    BY <1>1
  <1>3. UpTo(D \cup {t}, s) = UpTo(D, s)
    BY <1>2 DEF UpTo
  <1>4. UpTo(SameDay(D \cup {t}, s), s) = UpTo(SameDay(D, s), s)
    BY <1>2 DEF UpTo, SameDay
  <1> QED
    BY <1>3, <1>4 DEF LosingRun

\* What the verdict on the new trade depends on.
LEMMA LatestSees ==
  ASSUME NEW D, NEW t, Visited(D, t)
  PROVE  /\ UpTo(SameDay(D \cup {t}, t), t) = On(D, Day[t]) \cup {t}
         /\ On(D \cup {t}, Day[t]) = On(D, Day[t]) \cup {t}
         /\ \A d : d # Day[t] => On(D \cup {t}, d) = On(D, d)
         /\ LosingRun(D \cup {t}, t) = Trailing(D \cup {t})
         /\ Trailing(D \cup {t}) = IF Losing(t) THEN Trailing(D) \cup {t} ELSE {}
PROOF
  <1>1. t \in Nat /\ t <= t /\ t >= t /\ \A s \in D : s \in Nat /\ s <= t /\ t >= s /\ ~(s >= t)
    BY TradesAssumption DEF Visited
  <1>2. UpTo(D \cup {t}, t) = D \cup {t}
    BY <1>1 DEF UpTo
  <1>3. UpTo(SameDay(D \cup {t}, t), t) = On(D, Day[t]) \cup {t}
    BY <1>1 DEF UpTo, SameDay, On
  <1>4. LosingRun(D \cup {t}, t) = Trailing(D \cup {t})
    BY <1>2 DEF LosingRun, Trailing
  <1>5. Trailing(D \cup {t}) = IF Losing(t) THEN Trailing(D) \cup {t} ELSE {}
    BY <1>1 DEF Trailing
  <1> QED
    BY <1>3, <1>4, <1>5 DEF On

\* The parts of a finite set of trades are finite and what they lost is a natural.
LEMMA PartsFinite ==
  ASSUME NEW D, D \subseteq Trades, IsFiniteSet(D)
  PROVE  /\ \A d : IsFiniteSet(On(D, d)) /\ Cardinality(On(D, d)) \in Nat /\ Lost(On(D, d)) \in Nat
         /\ IsFiniteSet(Trailing(D)) /\ Cardinality(Trailing(D)) \in Nat
PROOF
  <1>1. \A t \in Trades : Loss(t) \in Nat
    BY BookAssumption DEF Loss, Losing
  <1>2. ASSUME NEW d
        PROVE  IsFiniteSet(On(D, d)) /\ Cardinality(On(D, d)) \in Nat /\ Lost(On(D, d)) \in Nat
    <2>1. IsFiniteSet(On(D, d)) /\ On(D, d) \subseteq Trades
      BY FS_Subset, On(D, d) \in SUBSET D DEF On
    <2>2. \A x \in On(D, d) : [t \in Trades |-> Loss(t)][x] \in Nat
      BY <1>1, <2>1
    <2>3. Lost(On(D, d)) \in Nat
      BY <2>1, <2>2, SumType DEF Lost
    <2> QED
      BY <2>1, <2>3, FS_CardinalityType
  <1>3. IsFiniteSet(Trailing(D))
    BY FS_Subset, Trailing(D) \in SUBSET D DEF Trailing
  <1> QED
    BY <1>2, <1>3, FS_CardinalityType

\* The new trade adds one to the count of its day, its loss to the day's loss and,
\* if it lost, one to the run of losses.
LEMMA LatestAdds ==
  ASSUME NEW D, NEW t, Visited(D, t)
  PROVE  LET on == On(D, Day[t]) IN
         /\ Cardinality(on \cup {t}) = Cardinality(on) + 1
         /\ Lost(on \cup {t}) = Lost(on) + Loss(t)
         /\ Cardinality(Trailing(D \cup {t})) =
              IF Losing(t) THEN Cardinality(Trailing(D)) + 1 ELSE 0
PROOF
  <1> DEFINE on  == On(D, Day[t])
             fun == [s \in Trades |-> Loss(s)]
  <1>1. t \notin on /\ t \notin Trailing(D) /\ on \subseteq Trades /\ t \in Trades
    BY DEF Visited, On, Trailing
  <1>2. IsFiniteSet(on) /\ IsFiniteSet(Trailing(D))
    BY PartsFinite DEF Visited
  <1>3. fun[t] = Loss(t) /\ \A y \in on \cup {t} : fun[y] \in Int
    BY <1>1, BookAssumption DEF Loss, Losing
  <1>4. Lost(on \cup {t}) = Lost(on) + Loss(t)
    <2>1. \A part : Lost(part) = SumFunctionOnSet(fun, part)
      BY DEF Lost
    <2> HIDE DEF on, fun
    <2>2. SumFunctionOnSet(fun, on \cup {t}) = SumFunctionOnSet(fun, on) + fun[t]
      BY <1>1, <1>2, <1>3, SumWith
    <2> QED
      BY <2>1, <2>2, <1>3
  <1>5. Cardinality(on \cup {t}) = Cardinality(on) + 1
    BY <1>1, <1>2, FS_AddElement
  <1>6. Cardinality(Trailing(D \cup {t})) =
          IF Losing(t) THEN Cardinality(Trailing(D)) + 1 ELSE 0
    <2>1. CASE Losing(t)
      <3>1. Trailing(D \cup {t}) = Trailing(D) \cup {t}
        BY <2>1, LatestSees
      <3>2. Cardinality(Trailing(D) \cup {t}) = Cardinality(Trailing(D)) + 1
        BY <1>1, <1>2, FS_AddElement
      <3> QED
        BY <2>1, <3>1, <3>2
    <2>2. CASE ~Losing(t)
      BY <2>2, LatestSees, FS_EmptySet
    <2> QED
      BY <2>1, <2>2
  <1> QED
    BY <1>4, <1>5, <1>6

-----------------------------------------------------------------------------
(* The verdict on the new trade.                                           *)

\* The limit of a rule is a number, whole or in parts.
LEMMA LimitIsNat == \A q \in Rules : LimitOf(q) \in Nat
PROOF
  <1> SUFFICES ASSUME NEW q \in Rules PROVE LimitOf(q) \in Nat
    OBVIOUS
  <1>1. PICK n \in Nat, u \in Nat : n = Threshold[q] /\ u = Unit /\ u > 0
    BY RulesAssumption
  <1>2. n \div u \in Nat
    BY <1>1
  <1> QED
    BY <1>1, <1>2 DEF LimitOf

\* Rule q lists t after the trades of D, by what the counters hold.
Listed(D, t, q) ==
    LET n == LimitOf(q) IN
    CASE RuleType[q] = "max_trades_per_day"     -> Cardinality(On(D, Day[t])) + 1 > n
      [] RuleType[q] = "max_loss_per_day"       -> Lost(On(D, Day[t])) + Loss(t) > n
      [] RuleType[q] = "max_loss_per_trade"     -> Loss(t) > n
      [] RuleType[q] = "no_trading_after"       -> Hour[t] >= n
      [] RuleType[q] = "no_trading_before"      -> Hour[t] < n
      [] RuleType[q] = "max_consecutive_losses" ->
            (IF Losing(t) THEN Cardinality(Trailing(D)) + 1 ELSE 0) > n
      [] RuleType[q] = "max_position_size"      -> Qty[t] > n

\* A new trade withdraws no verdict and adds none on an earlier trade.
LEMMA CheckStep ==
  ASSUME NEW D, NEW t, Visited(D, t), NEW q \in Rules
  PROVE  Check(D \cup {t}, q) = IF Listed(D, t, q) THEN Check(D, q) \cup {t} ELSE Check(D, q)
PROOF
  <1> DEFINE E == D \cup {t}
             n == LimitOf(q)
  <1>1. RuleType[q] \in RuleTypes
    BY RulesAssumption
  <1> DEFINE on == On(D, Day[t])
  <1>2. /\ Cardinality(UpTo(SameDay(E, t), t)) = Cardinality(on) + 1
        /\ Lost(UpTo(SameDay(E, t), t)) = Lost(on) + Loss(t)
        /\ Cardinality(LosingRun(E, t)) = IF Losing(t) THEN Cardinality(Trailing(D)) + 1 ELSE 0
    <2>1. UpTo(SameDay(E, t), t) = on \cup {t} /\ LosingRun(E, t) = Trailing(E)
      BY LatestSees
    <2> QED
      BY <2>1, LatestAdds
  <1> HIDE DEF on
  <1>3. CASE RuleType[q] = "max_trades_per_day"
    <2>1. \A s \in D : s \in MaxTradesPerDay(E, n) <=> s \in MaxTradesPerDay(D, n)
      BY EarlierKept DEF MaxTradesPerDay
    <2>2. t \in MaxTradesPerDay(E, n) <=> Cardinality(on) + 1 > n
      BY <1>2 DEF MaxTradesPerDay
    <2>3. MaxTradesPerDay(D, n) \subseteq D /\ MaxTradesPerDay(E, n) \subseteq E
      BY DEF MaxTradesPerDay
    <2> QED
      BY <1>3, <2>1, <2>2, <2>3 DEF Check, Listed, on
  <1>4. CASE RuleType[q] = "max_loss_per_day"
    <2>1. \A s \in D : s \in MaxLossPerDay(E, n) <=> s \in MaxLossPerDay(D, n)
      BY EarlierKept DEF MaxLossPerDay
    <2>2. t \in MaxLossPerDay(E, n) <=> Lost(on) + Loss(t) > n
      BY <1>2 DEF MaxLossPerDay
    <2>3. MaxLossPerDay(D, n) \subseteq D /\ MaxLossPerDay(E, n) \subseteq E
      BY DEF MaxLossPerDay
    <2> QED
      BY <1>4, <2>1, <2>2, <2>3 DEF Check, Listed, on
  <1>5. CASE RuleType[q] = "max_consecutive_losses"
    <2>1. \A s \in D : s \in MaxConsecutiveLosses(E, n) <=> s \in MaxConsecutiveLosses(D, n)
      BY EarlierKept DEF MaxConsecutiveLosses
    <2>2. t \in MaxConsecutiveLosses(E, n)
            <=> (IF Losing(t) THEN Cardinality(Trailing(D)) + 1 ELSE 0) > n
      BY <1>2 DEF MaxConsecutiveLosses
    <2>3. MaxConsecutiveLosses(D, n) \subseteq D /\ MaxConsecutiveLosses(E, n) \subseteq E
      BY DEF MaxConsecutiveLosses
    <2> QED
      BY <1>5, <2>1, <2>2, <2>3 DEF Check, Listed
  <1>6. CASE RuleType[q] \in {"max_loss_per_trade", "no_trading_after",
                             "no_trading_before", "max_position_size"}
    BY <1>6 DEF Check, Listed, MaxLossPerTrade, NoTradingAfter, NoTradingBefore, MaxPositionSize
  <1> QED
    BY <1>1, <1>3, <1>4, <1>5, <1>6 DEF RuleTypes

-----------------------------------------------------------------------------
(* The invariant.                                                          *)

\* The part of Visit that does not depend on the verdict.
Moves(t) == /\ t \in unchecked /\ \A s \in unchecked : t <= s
            /\ unchecked' = unchecked \ {t} /\ UNCHANGED <<S, r>>

\* Visiting a trade moves it to the trades seen.
LEMMA VisitMoves ==
  ASSUME LoopTypeOK, Ordered, NEW t \in Trades, Moves(t)
  PROVE  /\ Visited(SoFar, t) /\ SoFar' = SoFar \cup {t}
         /\ Ordered'
         /\ S' \in SUBSET Trades /\ unchecked' \in SUBSET S' /\ r' = r /\ r \in Rules
         /\ out \subseteq SoFar
PROOF
  <1>1. S' = S /\ r' = r /\ t \in unchecked /\ unchecked' = unchecked \ {t} /\ t \in S
        /\ \A s \in unchecked : t <= s
    BY DEF Moves, LoopTypeOK
  <1>2. SoFar' = SoFar \cup {t}
    BY <1>1 DEF SoFar
  <1>3. Visited(SoFar, t)
    BY <1>1 DEF Visited, Ordered, LoopTypeOK, SoFar
  <1>4. Ordered'
    <2>1. IsFiniteSet(SoFar')
      BY <1>2, FS_AddElement DEF Ordered
    <2>2. ASSUME NEW s \in SoFar', NEW u \in unchecked'
          PROVE  s < u
      <3>1. s \in Nat /\ u \in Nat /\ t \in Nat /\ t <= u /\ u # t
        BY <1>1, <1>2, TradesAssumption DEF LoopTypeOK, SoFar
      <3> QED
        BY <3>1, <2>2, <1>1, <1>2 DEF Ordered
    <2> QED
      BY <2>1, <2>2 DEF Ordered
  <1> QED
    BY <1>1, <1>2, <1>3, <1>4 DEF LoopTypeOK, SoFar

\* The list stays what the rule says when the code lists the trade exactly if the
\* rule does.
LEMMA ListStaysRight ==
  ASSUME LoopTypeOK, Ordered, LoopAgrees, NEW t \in Trades, Moves(t),
         out' = IF Listed(SoFar, t, r) THEN out \cup {t} ELSE out
  PROVE  LoopAgrees' /\ out' \in SUBSET SoFar'
PROOF
  <1>1. Check(SoFar \cup {t}, r) =
          IF Listed(SoFar, t, r) THEN Check(SoFar, r) \cup {t} ELSE Check(SoFar, r)
    <2>1. Visited(SoFar, t) /\ r \in Rules
      BY VisitMoves
    <2> QED
      BY <2>1, CheckStep
  <1>2. out = Check(SoFar, r)
    BY DEF LoopAgrees, SoFar
  <1>3. (S \ unchecked)' = SoFar \cup {t} /\ r' = r
    BY VisitMoves DEF SoFar
  <1>4. Check(S \ unchecked, r)' = Check(SoFar \cup {t}, r)
    BY <1>3
  <1>5. LoopAgrees'
    BY <1>1, <1>2, <1>4 DEF LoopAgrees
  <1> QED
    BY <1>5, VisitMoves

\* Before the first trade every counter is zero and nothing is listed.
LEMMA LoopStarts == LoopInit => LoopInv
PROOF
  <1> SUFFICES ASSUME LoopInit PROVE LoopInv
    OBVIOUS
  <1>1. SoFar = {} /\ r \in Rules
    BY DEF LoopInit, SoFar
  <1>2. LoopTypeOK
    BY DEF LoopInit, LoopTypeOK
  <1>3. \A d : On(SoFar, d) = {}
    BY <1>1 DEF On
  <1>4. Trailing(SoFar) = {}
    BY <1>1 DEF Trailing
  <1>5. Lost({}) = 0
    BY SumOfNone DEF Lost
  <1>6. Limit \in Nat
    BY <1>1, LimitIsNat DEF LoopTypeOK, LoopInit, Limit
  <1>7. Ordered /\ Counting /\ DayLosses /\ Consecutive
    BY <1>1, <1>3, <1>4, <1>5, <1>6, FS_EmptySet DEF LoopInit, Ordered, Counting, DayLosses, Consecutive
  <1>8. LoopAgrees
    <2>1. RuleType[r] \in RuleTypes
      BY <1>1, RulesAssumption
    <2>2. Check({}, r) = {}
      BY <2>1 DEF Check, RuleTypes, MaxTradesPerDay, MaxLossPerDay, MaxLossPerTrade, NoTradingAfter,
                  NoTradingBefore, MaxPositionSize, MaxConsecutiveLosses
    <2> QED
      BY <1>1, <2>2 DEF LoopAgrees, LoopInit, SoFar
  <1> QED
    BY <1>2, <1>7, <1>8 DEF LoopInv

\* check_max_trades_per_day: the count of the trade's day goes up by one.
LEMMA PerDayStep ==
  ASSUME LoopInv, NEW t \in Trades, VisitPerDay(t)
  PROVE  LoopInv'
PROOF
  <1> DEFINE listed == count[Day[t]] >= Limit
  <1>1. /\ RuleType[r] = "max_trades_per_day" /\ Moves(t)
        /\ out' = IF listed THEN out \cup {t} ELSE out
        /\ count' = [count EXCEPT ![Day[t]] = @ + 1] /\ UNCHANGED <<loss, breached, consec>>
    BY DEF VisitPerDay, Visit, Moves
  <1>2. LoopTypeOK /\ Ordered /\ LoopAgrees /\ Day[t] \in Days /\ Limit \in Nat
    BY LimitIsNat DEF LoopInv, LoopTypeOK, Days, Limit
  <1>3. /\ Visited(SoFar, t) /\ SoFar' = SoFar \cup {t} /\ Ordered' /\ r' = r
        /\ S' \in SUBSET Trades /\ unchecked' \in SUBSET S'
    BY <1>1, <1>2, VisitMoves
  <1>4. \A d \in Days : count[d] = Cardinality(On(SoFar, d)) /\ count[d] \in Nat
    BY <1>1 DEF LoopInv, Counting, LoopTypeOK
  <1>5. LoopAgrees' /\ out' \in SUBSET SoFar'
    <2>1. listed <=> Listed(SoFar, t, r)
      BY <1>1, <1>2, <1>4 DEF Listed, Limit
    <2> HIDE DEF listed
    <2> QED
      BY <1>1, <1>2, <2>1, ListStaysRight
  <1>6. LoopTypeOK'
    BY <1>1, <1>2, <1>3, <1>5 DEF LoopTypeOK, SoFar
  <1>7. Counting'
    <2>1. Cardinality(On(SoFar', Day[t])) = Cardinality(On(SoFar, Day[t])) + 1
      BY ZenonT(60), <1>3, LatestSees, LatestAdds
    <2>2. \A d \in Days \ {Day[t]} : On(SoFar', d) = On(SoFar, d)
      BY ZenonT(60), <1>3, LatestSees
    <2> QED
      BY <1>1, <1>2, <1>4, <2>1, <2>2 DEF Counting, LoopTypeOK
  <1> QED
    BY <1>1, <1>3, <1>5, <1>6, <1>7 DEF LoopInv, DayLosses, Consecutive

\* check_max_loss_per_day: a day once breached stays so, as its loss never goes down.
LEMMA DayLossStep ==
  ASSUME LoopInv, NEW t \in Trades, VisitDayLoss(t)
  PROVE  LoopInv'
PROOF
  <1> DEFINE running == loss[Day[t]] + Loss(t)
             listed  == running > Limit \/ Day[t] \in breached
  <1>1. /\ RuleType[r] = "max_loss_per_day" /\ Moves(t)
        /\ out' = IF listed THEN out \cup {t} ELSE out
        /\ loss' = [loss EXCEPT ![Day[t]] = running]
        /\ breached' = IF running > Limit THEN breached \cup {Day[t]} ELSE breached
        /\ UNCHANGED <<count, consec>>
    BY DEF VisitDayLoss, Visit, Moves
  <1>2. LoopTypeOK /\ Ordered /\ LoopAgrees /\ Day[t] \in Days /\ Limit \in Nat
    BY LimitIsNat DEF LoopInv, LoopTypeOK, Days, Limit
  <1>3. /\ Visited(SoFar, t) /\ SoFar' = SoFar \cup {t} /\ Ordered' /\ r' = r
        /\ S' \in SUBSET Trades /\ unchecked' \in SUBSET S'
    BY <1>1, <1>2, VisitMoves
  <1>4. \A d \in Days : /\ loss[d] = Lost(On(SoFar, d)) /\ loss[d] \in Nat
                        /\ d \in breached <=> loss[d] > Limit
    BY <1>1 DEF LoopInv, DayLosses, LoopTypeOK
  <1>5. Loss(t) \in Nat
    BY BookAssumption DEF Loss, Losing
  <1>6. LoopAgrees' /\ out' \in SUBSET SoFar'
    <2>1. Listed(SoFar, t, r) <=> running > Limit
      BY <1>1, <1>2, <1>4 DEF Listed, Limit
    <2>2. listed <=> running > Limit
      BY <1>2, <1>4, <1>5
    <2> HIDE DEF listed, running
    <2> QED
      BY <1>1, <1>2, <2>1, <2>2, ListStaysRight
  <1>7. LoopTypeOK'
    BY <1>1, <1>2, <1>3, <1>4, <1>5, <1>6 DEF LoopTypeOK, SoFar
  <1>8. DayLosses'
    <2>1. Limit' = Limit
      BY <1>3 DEF Limit
    <2>2. Lost(On(SoFar', Day[t])) = Lost(On(SoFar, Day[t])) + Loss(t)
      <3>1. On(SoFar', Day[t]) = On(SoFar, Day[t]) \cup {t}
        BY <1>3, LatestSees
      <3> QED
        BY <1>3, <3>1, LatestAdds
    <2>3. \A d \in Days \ {Day[t]} : On(SoFar', d) = On(SoFar, d)
      BY ZenonT(60), <1>3, LatestSees
    <2>4. loss'[Day[t]] = running /\ \A d \in Days \ {Day[t]} : loss'[d] = loss[d]
      BY <1>1, <1>2 DEF LoopTypeOK
    <2>5. running \in Nat /\ running >= loss[Day[t]]
      BY <1>2, <1>4, <1>5
    <2>6. ASSUME NEW d \in Days
          PROVE  loss'[d] = Lost(On(SoFar', d)) /\ (d \in breached' <=> loss'[d] > Limit)
      <3> HIDE DEF running
      <3>1. CASE d = Day[t]
        <4>1. loss'[d] = Lost(On(SoFar', d))
          BY <3>1, <2>2, <2>4, <1>4, <1>2 DEF running
        <4>2. d \in breached' <=> running > Limit
          BY <3>1, <1>1, <1>2, <1>4, <2>5
        <4> QED
          BY <3>1, <4>1, <4>2, <2>4
      <3>2. CASE d # Day[t]
        BY <3>2, <2>3, <2>4, <1>1, <1>4
      <3> QED
        BY <3>1, <3>2
    <2> QED
      BY <2>1, <2>6 DEF DayLosses
  <1> QED
    BY <1>1, <1>3, <1>6, <1>7, <1>8 DEF LoopInv, Counting, Consecutive

\* check_max_consecutive_losses: a trade that did not lose ends the run.
LEMMA ConsecutiveStep ==
  ASSUME LoopInv, NEW t \in Trades, VisitConsecutive(t)
  PROVE  LoopInv'
PROOF
  <1> DEFINE run    == IF Losing(t) THEN consec + 1 ELSE 0
             listed == run > Limit
  <1>1. /\ RuleType[r] = "max_consecutive_losses" /\ Moves(t)
        /\ out' = IF listed THEN out \cup {t} ELSE out
        /\ consec' = run /\ UNCHANGED <<count, loss, breached>>
    BY DEF VisitConsecutive, Visit, Moves
  <1>2. LoopTypeOK /\ Ordered /\ LoopAgrees /\ Limit \in Nat
    BY LimitIsNat DEF LoopInv, LoopTypeOK, Limit
  <1>3. /\ Visited(SoFar, t) /\ SoFar' = SoFar \cup {t} /\ Ordered' /\ r' = r
        /\ S' \in SUBSET Trades /\ unchecked' \in SUBSET S'
    BY <1>1, <1>2, VisitMoves
  <1>4. consec = Cardinality(Trailing(SoFar))
    BY <1>1 DEF LoopInv, Consecutive
  <1>5. LoopAgrees' /\ out' \in SUBSET SoFar'
    <2>1. listed <=> Listed(SoFar, t, r)
      BY <1>1, <1>4 DEF Listed, Limit
    <2> HIDE DEF listed
    <2> QED
      BY <1>1, <1>2, <2>1, ListStaysRight
  <1>6. LoopTypeOK'
    BY <1>1, <1>2, <1>3, <1>5 DEF LoopTypeOK, SoFar
  <1>7. Consecutive'
    BY <1>1, <1>3, <1>4, LatestAdds DEF Consecutive
  <1> QED
    BY <1>1, <1>3, <1>5, <1>6, <1>7 DEF LoopInv, Counting, DayLosses

\* The other checkers judge a trade by itself.
LEMMA AloneStep ==
  ASSUME LoopInv, NEW t \in Trades, VisitAlone(t)
  PROVE  LoopInv'
PROOF
  <1>1. /\ RuleType[r] \in {"max_loss_per_trade", "no_trading_after",
                            "no_trading_before", "max_position_size"}
        /\ Moves(t) /\ out' = IF Listed(SoFar, t, r) THEN out \cup {t} ELSE out
    <2>1. Pnl[t] \in Int /\ Limit \in Nat
      BY BookAssumption, LimitIsNat DEF LoopInv, LoopTypeOK, Limit
    <2>2. Losing(t) /\ -Pnl[t] > Limit <=> Loss(t) > Limit
      BY <2>1 DEF Loss, Losing
    <2> QED
      BY <2>2 DEF VisitAlone, Visit, Moves, Listed, Limit
  <1>2. LoopTypeOK /\ Ordered /\ LoopAgrees /\ UNCHANGED <<count, loss, breached, consec>>
    BY DEF LoopInv, VisitAlone
  <1>3. /\ Visited(SoFar, t) /\ SoFar' = SoFar \cup {t} /\ Ordered' /\ r' = r
        /\ S' \in SUBSET Trades /\ unchecked' \in SUBSET S'
    BY <1>1, <1>2, VisitMoves
  <1>4. LoopAgrees' /\ out' \in SUBSET SoFar'
    BY <1>1, <1>2, ListStaysRight
  <1>5. LoopTypeOK'
    BY <1>2, <1>3, <1>4 DEF LoopTypeOK, SoFar
  <1> QED
    BY <1>1, <1>3, <1>4, <1>5 DEF LoopInv, Counting, DayLosses, Consecutive

\* Every trade visited keeps the invariant.
LEMMA RuleLoopSteps == LoopInv /\ [LoopNext]_loopVars => LoopInv'
PROOF
  <1> SUFFICES ASSUME LoopInv, [LoopNext]_loopVars PROVE LoopInv'
    OBVIOUS
  <1>1. CASE UNCHANGED loopVars
    BY <1>1 DEF loopVars, LoopInv, LoopTypeOK, Ordered, Counting, DayLosses, Consecutive, LoopAgrees, SoFar, Limit
  <1>2. ASSUME NEW t \in Trades, VisitPerDay(t)
        PROVE  LoopInv'
    BY <1>2, PerDayStep
  <1>3. ASSUME NEW t \in Trades, VisitDayLoss(t)
        PROVE  LoopInv'
    BY <1>3, DayLossStep
  <1>4. ASSUME NEW t \in Trades, VisitConsecutive(t)
        PROVE  LoopInv'
    BY <1>4, ConsecutiveStep
  <1>5. ASSUME NEW t \in Trades, VisitAlone(t)
        PROVE  LoopInv'
    BY <1>5, AloneStep
  <1> QED
    BY <1>1, <1>2, <1>3, <1>4, <1>5 DEF LoopNext

\* The counters of the loops are the sums and counts of the trades seen.
THEOREM LoopInductive == LoopSpec => []LoopInv
PROOF
  <1>1. LoopInit => LoopInv
    BY LoopStarts
  <1>2. LoopInv /\ [LoopNext]_loopVars => LoopInv'
    BY RuleLoopSteps
  <1> QED
    BY <1>1, <1>2, PTL DEF LoopSpec

\* Type correctness of the loops' counters.
THEOREM LoopTypeCorrect == LoopSpec => []LoopTypeOK
PROOF
  <1>1. LoopInv => LoopTypeOK
    BY DEF LoopInv
  <1> QED
    BY <1>1, LoopInductive, PTL

\* After every trade each loop lists exactly the trades its rule's definition names
\* (rule_checker.py:58-198).
THEOREM LoopsAgree == LoopSpec => []LoopAgrees
PROOF
  <1>1. LoopInv => LoopAgrees
    BY DEF LoopInv
  <1> QED
    BY <1>1, LoopInductive, PTL

-----------------------------------------------------------------------------
(* The round trips of a day, from the API's list and from a tradebook.     *)

\* A header over n rows.
LEMMA Headed ==
  ASSUME NEW n \in Nat, NEW head, NEW rows, rows = [i \in 1 .. n |-> rows[i]]
  PROVE  /\ (<<head>> \o rows)[1] = head /\ Tail(<<head>> \o rows) = rows
         /\ Len(<<head>> \o rows) = n + 1 /\ <<head>> \o rows # <<>>
         /\ \A i \in 1 .. n : (<<head>> \o rows)[i + 1] = rows[i]
PROOF
  <1> DEFINE R == {head} \cup {rows[i] : i \in 1 .. n}
             s == <<head>> \o rows
  <1>1. <<head>> \in Seq(R) /\ Len(<<head>>) = 1 /\ <<head>>[1] = head
    OBVIOUS
  <1>2. rows \in Seq(R) /\ Len(rows) = n
    <2>1. rows \in [1 .. n -> R]
      OBVIOUS
    <2> QED
      BY <2>1, SeqDef, LenProperties
  <1> HIDE DEF R
  <1>3. /\ s \in Seq(R) /\ Len(s) = n + 1 /\ s[1] = head
        /\ \A i \in 1 .. n : s[i + 1] = rows[i]
    <2>1. s \in Seq(R) /\ Len(s) = 1 + n
      BY <1>1, <1>2, ConcatProperties
    <2>2. \A i \in 1 .. 1 + n : s[i] = IF i <= 1 THEN <<head>>[i] ELSE rows[i - 1]
      BY <1>1, <1>2, ConcatProperties
    <2>3. 1 \in 1 .. 1 + n /\ \A i \in 1 .. n : i + 1 \in 1 .. 1 + n /\ ~(i + 1 <= 1) /\ i + 1 - 1 = i
      OBVIOUS
    <2> QED
      BY <1>1, <2>1, <2>2, <2>3
  <1>4. s # <<>>
    BY <1>3
  <1> HIDE DEF s
  <1>5. Tail(s) \in Seq(R) /\ Len(Tail(s)) = n /\ \A i \in 1 .. n : Tail(s)[i] = rows[i]
    <2>1. Tail(s) \in Seq(R) /\ Len(Tail(s)) = Len(s) - 1
          /\ \A i \in 1 .. Len(Tail(s)) : Tail(s)[i] = s[i + 1]
      BY <1>3, <1>4, HeadTailProperties
    <2> QED
      BY <1>3, <2>1
  <1>6. Tail(s) = rows
    <2> DEFINE t == Tail(s)
    <2>1. t \in Seq(R) /\ Len(t) = n
      BY <1>5
    <2> HIDE DEF t
    <2>2. DOMAIN t = 1 .. n /\ t = [i \in DOMAIN t |-> t[i]]
      BY <2>1, LenProperties
    <2>3. \A i \in 1 .. n : t[i] = rows[i]
      BY <1>5 DEF t
    <2> QED
      BY <2>2, <2>3 DEF t
  <1> QED
    BY <1>3, <1>4, <1>6 DEF s

\* All the entries up to n.
LEMMA AllEntries == ASSUME NEW n \in Nat, NEW s PROVE Entries(s, 1 .. n) = [m \in 1 .. n |-> s[m]]
PROOF
  <1>1. PICK a \in 0 .. n : a = 0
    OBVIOUS
  <1>2. Entries(s, a + 1 .. n) = [m \in 1 .. n - a |-> s[a + m]]
    BY EntriesInRow
  <1>3. a + 1 .. n = 1 .. n /\ 1 .. n - a = 1 .. n /\ \A m \in 1 .. n : a + m = m
    BY <1>1
  <1> QED
    BY <1>2, <1>3

\* What is no trade says so.
LEMMA TradesAreTrades == ASSUME NEW t, "at" \in DOMAIN t PROVE t # NoTrade /\ t # Crash
PROOF BY DEF NoTrade, Crash

\* A file in which every row is a trade is read in full.
LEMMA AllRead ==
  ASSUME NEW n \in Nat, NEW verdicts, verdicts = [i \in 1 .. n |-> verdicts[i]],
         \A i \in 1 .. n : verdicts[i] # NoTrade /\ verdicts[i] # Crash
  PROVE  Outcome(verdicts) = verdicts
PROOF
  <1>1. DOMAIN verdicts = 1 .. n
    OBVIOUS
  <1>2. Crash \notin ToSet(verdicts)
    BY <1>1 DEF ToSet
  <1>3. {i \in DOMAIN verdicts : verdicts[i] # NoTrade} = 1 .. n
    BY <1>1
  <1>4. Entries(verdicts, 1 .. n) = verdicts
    BY AllEntries
  <1> QED
    BY <1>2, <1>3, <1>4 DEF Outcome, Traded

-----------------------------------------------------------------------------
\* Among the legs of one side of a group, a later one has a higher rank.
LEMMA RankRises ==
  ASSUME NEW n \in Nat, NEW group, DOMAIN group = 1 .. n, NEW side,
         NEW i \in 1 .. n, NEW j \in 1 .. n, group[i] = group[j], side[i] = side[j], i < j
  PROVE  Rank(group, side, i) < Rank(group, side, j)
PROOF
  <1> DEFINE A == {k \in Fellows(group, i) : side[k] = side[i] /\ k < i}
             B == {k \in Fellows(group, j) : side[k] = side[j] /\ k < j}
  <1>1. A \subseteq B /\ i \in B /\ i \notin A /\ B \subseteq 1 .. n
    BY DEF Fellows
  <1>2. IsFiniteSet(B) /\ IsFiniteSet(B \ {i}) /\ Cardinality(B \ {i}) = Cardinality(B) - 1
    <2>1. IsFiniteSet(1 .. n)
      BY FS_Interval, 1 \in Int, n \in Int
    <2>2. IsFiniteSet(B)
      BY <1>1, <2>1, FS_Subset
    <2> HIDE DEF A, B
    <2> QED
      BY <1>1, <2>2, FS_RemoveElement
  <1>3. Cardinality(A) <= Cardinality(B \ {i})
    BY <1>1, <1>2, FS_Subset
  <1>4. Cardinality(A) \in Nat /\ Cardinality(B) \in Nat
    BY <1>1, <1>2, FS_Subset, FS_CardinalityType
  <1> QED
    BY <1>2, <1>3, <1>4 DEF Rank

\* A leg has one partner.
LEMMA OnePartner ==
  ASSUME NEW n \in Nat, NEW group, DOMAIN group = 1 .. n, NEW side,
         NEW p \in Partners(group, side), NEW q \in Partners(group, side)
  PROVE  (p[1] = q[1] \/ p[2] = q[2]) => p = q
PROOF
  <1>1. /\ p = <<p[1], p[2]>> /\ q = <<q[1], q[2]>>
        /\ p[1] \in 1 .. n /\ p[2] \in 1 .. n /\ q[1] \in 1 .. n /\ q[2] \in 1 .. n
        /\ side[p[1]] = "BUY" /\ side[p[2]] = "SELL" /\ side[q[1]] = "BUY" /\ side[q[2]] = "SELL"
        /\ group[p[1]] = group[p[2]] /\ group[q[1]] = group[q[2]]
        /\ Rank(group, side, p[1]) = Rank(group, side, p[2])
        /\ Rank(group, side, q[1]) = Rank(group, side, q[2])
    BY DEF Partners
  <1>2. ASSUME NEW i \in 1 .. n, NEW j \in 1 .. n, group[i] = group[j], side[i] = side[j],
               Rank(group, side, i) = Rank(group, side, j)
        PROVE  i = j
    <2>1. \A x \in {Rank(group, side, i)} : x \in Int
      <3>1. {k \in Fellows(group, i) : side[k] = side[i] /\ k < i} \subseteq 1 .. n
        BY DEF Fellows
      <3>2. IsFiniteSet(1 .. n)
        BY FS_Interval, 1 \in Int, n \in Int
      <3>3. Rank(group, side, i) \in Nat
        BY <3>1, <3>2, FS_Subset, FS_CardinalityType DEF Rank
      <3> QED
        BY <3>3
    <2>2. ~(i < j) /\ ~(j < i)
      BY <1>2, <2>1, RankRises
    <2> QED
      BY <2>2
  <1> QED
    BY <1>1, <1>2

\* The least of some numbers up to n.
LEMMA LeastUpTo ==
  ASSUME NEW n \in Nat, NEW T \in SUBSET (1 .. n), T # {}
  PROVE  Min(T) \in T /\ \A k \in T : Min(T) <= k
PROOF
  <1>1. \E m \in T : \A k \in T : m <= k
    BY LeastOfNats, T \in SUBSET Nat
  <1> QED
    BY <1>1 DEF Min

\* The partners are listed, each pair once.
LEMMA PairedFacts ==
  ASSUME NEW n \in Nat, NEW group, DOMAIN group = 1 .. n, NEW side
  PROVE  LET order == Paired(group, side)  N == Cardinality(Partners(group, side)) IN
         /\ IsFiniteSet(Partners(group, side)) /\ N \in Nat /\ order = [k \in 1 .. N |-> order[k]]
         /\ \A k \in 1 .. N : order[k] \in Partners(group, side)
         /\ \A p \in Partners(group, side) : \E k \in 1 .. N : order[k] = p
PROOF
  <1> DEFINE M == Partners(group, side)
             least == [i \in 1 .. n |-> Min(Fellows(group, i))]
             ahead == [p \in M |-> {q \in M : \/ least[q[1]] < least[p[1]]
                                              \/ least[q[1]] = least[p[1]] /\ q[1] < p[1]}]
  <1>1. \A p \in M : p[1] \in 1 .. n
    BY DEF Partners
  <1>2. IsFiniteSet(M)
    <2>1. IsFiniteSet(1 .. n)
      BY FS_Interval, 1 \in Int, n \in Int
    <2>2. IsFiniteSet((1 .. n) \X (1 .. n))
      BY <2>1, FS_Product
    <2>3. M \subseteq (1 .. n) \X (1 .. n)
      BY DEF Partners
    <2> QED
      BY <2>2, <2>3, FS_Subset
  <1>3. ASSUME NEW i \in 1 .. n
        PROVE  least[i] \in 1 .. n /\ group[least[i]] = group[i]
    <2>1. Fellows(group, i) \in SUBSET (1 .. n) /\ i \in Fellows(group, i)
      BY DEF Fellows
    <2>2. Min(Fellows(group, i)) \in Fellows(group, i)
      BY <2>1, LeastUpTo
    <2> QED
      BY <2>1, <2>2 DEF Fellows
  <1>4. Paired(group, side) = Sorted(ahead)
    <2>1. \A p \in M : Min(Fellows(group, p[1])) = least[p[1]]
      BY <1>1
    <2>2. ahead = [p \in M |-> {q \in M :
                      \/ Min(Fellows(group, q[1])) < Min(Fellows(group, p[1]))
                      \/ Min(Fellows(group, q[1])) = Min(Fellows(group, p[1])) /\ q[1] < p[1]}]
      BY <2>1
    <2> HIDE DEF ahead
    <2> QED
      BY <2>2 DEF Paired, M
  <1>5. DOMAIN ahead = M /\ \A p, q \in M :
           q \in ahead[p] <=> \/ least[q[1]] < least[p[1]]
                              \/ least[q[1]] = least[p[1]] /\ q[1] < p[1]
    OBVIOUS
  <1>6. \A p \in M : ahead[p] \subseteq M
    OBVIOUS
  <1> HIDE DEF ahead, least
  <1>7. LinearOrder(ahead)
    <2>1. ASSUME NEW p \in M
          PROVE  p \notin ahead[p]
      BY <1>1, <1>3, <1>5
    <2>2. ASSUME NEW p \in M, NEW q \in M
          PROVE  q = p \/ q \in ahead[p] \/ p \in ahead[q]
      <3>1. p[1] = q[1] => p = q
        BY OnePartner
      <3> QED
        BY <1>1, <1>3, <1>5, <3>1
    <2>3. ASSUME NEW p \in M, NEW q \in M, q \in ahead[p], NEW x \in ahead[q]
          PROVE  x \in ahead[p]
      <3>1. x \in M
        BY <1>6, <2>3
      <3> QED
        BY <1>1, <1>3, <1>5, <2>3, <3>1
    <2> QED
      BY <1>5, <1>6, <2>1, <2>2, <2>3 DEF LinearOrder
  <1> DEFINE order == Sorted(ahead)
             N == Cardinality(M)
  <1>8. Lists(order, ahead, N)
    BY <1>2, <1>5, <1>7, SortedFacts
  <1>9. order = [k \in 1 .. N |-> order[k]]
    BY <1>5 DEF Sorted
  <1> HIDE DEF M, order, N
  <1>10. /\ N \in Nat /\ \A k \in 1 .. N : order[k] \in M
         /\ \A p \in M : \E k \in 1 .. N : order[k] = p
    BY <1>5, <1>8 DEF Lists
  <1> QED
    BY <1>2, <1>4, <1>9, <1>10 DEF M, order, N

-----------------------------------------------------------------------------
\* A row of the tradebook has its values under the names of the header.
LegHeader == [c \in DOMAIN Headings |-> Word(Headings[c])]
\* A column of the tradebook is found under its heading.
LEMMA LegField ==
  ASSUME NEW c \in 1 .. 6, NEW row, NEW default
  PROVE  Field(LegHeader, row, <<Headings[c]>>, default) = row[c]
PROOF
  <1> DEFINE name == Headings[c]
  <1>1. DOMAIN LegHeader = 1 .. 6 /\ \A d \in 1 .. 6 : LegHeader[d] = Word(Headings[d])
    BY DEF LegHeader, Headings
  <1>2. \A d \in 1 .. 6 : Headings[d] = name => d = c
    BY DEF Headings
  <1>3. \A d \in 1 .. 6 : LegHeader[d] = Word(name) => d = c
    BY <1>1, <1>2 DEF Word, Cell
  <1>4. {i \in DOMAIN <<name>> : Word(<<name>>[i]) \in ToSet(LegHeader)} = {1}
    <2>1. Word(name) \in ToSet(LegHeader)
      BY <1>1 DEF ToSet
    <2> QED
      BY <2>1
  <1>5. Min({1}) = 1
    BY DEF Min
  <1>6. (CHOOSE d \in DOMAIN LegHeader : LegHeader[d] = Word(<<name>>[1])) = c
    BY <1>1, <1>3
  <1> HIDE DEF name
  <1>7. Field(LegHeader, row, <<name>>, default) = row[c]
    BY <1>4, <1>5, <1>6 DEF Field
  <1> QED
    BY <1>7 DEF name

\* The time of an order stands under a name of its own.
LEMMA TimeField ==
  ASSUME NEW row, NEW default
  PROVE  Field(LegHeader, row, <<"order_execution_time", "trade_date">>, default) = row[6]
PROOF
  <1> DEFINE names == <<"order_execution_time", "trade_date">>
  <1>1. DOMAIN LegHeader = 1 .. 6 /\ \A d \in 1 .. 6 : LegHeader[d] = Word(Headings[d])
    BY DEF LegHeader, Headings
  <1>2. \A d \in 1 .. 6 : Headings[d] = "order_execution_time" => d = 6
    BY DEF Headings
  <1>3. Headings[6] = "order_execution_time" /\ Headings[1] = "trade_date"
    BY DEF Headings
  <1>4. \A d \in 1 .. 6 : LegHeader[d] = Word("order_execution_time") <=> d = 6
    BY <1>1, <1>2, <1>3 DEF Word, Cell
  <1>5. {i \in DOMAIN names : Word(names[i]) \in ToSet(LegHeader)} = {1, 2}
    <2>1. Word(names[1]) \in ToSet(LegHeader) /\ Word(names[2]) \in ToSet(LegHeader)
      BY <1>1, <1>3 DEF ToSet
    <2>2. DOMAIN names = {1, 2}
      OBVIOUS
    <2> HIDE DEF names
    <2> QED
      BY <2>1, <2>2
  <1>6. Min({1, 2}) = 1
    BY MinOfTwo
  <1>7. (CHOOSE d \in DOMAIN LegHeader : LegHeader[d] = Word(names[1])) = 6
    BY <1>1, <1>4
  <1> HIDE DEF names
  <1>8. Field(LegHeader, row, names, default) = row[6]
    BY <1>5, <1>6, <1>7 DEF Field
  <1> QED
    BY <1>8 DEF names

-----------------------------------------------------------------------------
\* What a cell says, by its kind.
LEMMA CellFacts ==
  /\ \A n : Stamp(Moment(n)) = n /\ Float(Number(n)) = n /\ Float(Money(n)) = n
  /\ \A d : Stamp(Date(d)) = 24 * d
  /\ \A n, s : Ticker(s, n).s = s
  /\ \A s : Word(s).s = s
PROOF
  BY DEF Stamp, Float, Moment, Number, Money, Date, Ticker, Word, Cell

\* A leg is the first if its time is.
LEMMA FirstLeg ==
  ASSUME NEW x \in Nat, NEW y \in Nat, NEW b, NEW s
  PROVE  BuyFirst(24 + x, 24 + y, b, s) <=> x <= y
PROOF
  <1>1. 24 + x # NoTime /\ 24 + y # NoTime /\ (24 + x <= 24 + y <=> x <= y)
    BY DEF NoTime
  <1> QED
    BY <1>1 DEF BuyFirst

\* What the parser groups the legs by, and the round trip it makes of two of them.
GroupOf == [o \in Orders |-> <<Date(1), Ticker(book[o].symbol, 0)>>]
SideOf  == [o \in Orders |-> book[o].side]
RoundTrip(b, s) ==
    LET long == book[b].time <= book[s].time IN
    [at |-> 24, side |-> IF long THEN "BUY" ELSE "SELL", symbol |-> book[b].symbol,
     entry |-> IF long THEN b ELSE s, exit |-> IF long THEN s ELSE b,
     qty |-> book[b].qty, pnl |-> (s - b) * book[b].qty, fees |-> 0]

\* Reading a tradebook matches its rows as the orders are ranked, and lists one round trip a match.
LEMMA TradebookRead ==
  ASSUME TypeOK
  PROVE  LET order == Paired(GroupOf, SideOf) IN
         Zerodha(Tradebook) = [k \in DOMAIN order |-> RoundTrip(order[k][1], order[k][2])]
PROOF
  <1> DEFINE n == Cardinality(Orders)
             legs == [o \in Orders |-> Leg(o)]
             Get(i, name) == Field(LegHeader, legs[i], <<name>>, Blank)
             group == [i \in DOMAIN legs |-> <<Get(i, "trade_date"), Get(i, "tradingsymbol")>>]
             side == [i \in DOMAIN legs |-> Get(i, "trade_type").s]
             order == Paired(group, side)
             verdicts == [i \in DOMAIN order |-> Partnership(LegHeader, legs, order[i][1], order[i][2])]
  <1>1. n \in Nat /\ Orders = 1 .. n /\ DOMAIN legs = Orders
    BY ListAssumption, OrdersAssumption, FS_CardinalityType
  <1>2. Tradebook[1] = LegHeader /\ Tail(Tradebook) = legs
    <2>1. legs = [i \in 1 .. n |-> legs[i]]
      BY <1>1
    <2>2. Tradebook = <<LegHeader>> \o legs
      BY DEF Tradebook, LegHeader
    <2> HIDE DEF legs, n
    <2> QED
      BY <1>1, <2>1, <2>2, Headed
  <1>3. Zerodha(Tradebook) = ZerodhaRows(LegHeader, legs)
    <2> HIDE DEF legs
    <2> QED
      BY <1>2 DEF Zerodha
  <1>4. ZerodhaRows(LegHeader, legs) = IF Ragged(LegHeader, legs) THEN Raises ELSE Outcome(verdicts)
    BY DEF ZerodhaRows
  <1>5. ~Ragged(LegHeader, legs)
    <2>1. Len(LegHeader) = 6
      BY DEF LegHeader, Headings
    <2>2. \A o \in Orders : Len(legs[o]) = 6
      BY DEF Leg
    <2> QED
      BY <1>1, <2>1, <2>2 DEF Ragged
  <1>6. ASSUME NEW o \in Orders
        PROVE  /\ Get(o, "trade_date") = Date(1) /\ Get(o, "trade_type") = Word(book[o].side)
               /\ Get(o, "tradingsymbol") = Ticker(book[o].symbol, 0)
               /\ Get(o, "price") = Number(o)
               /\ Field(LegHeader, legs[o], <<"quantity">>, Number(1)) = Number(book[o].qty)
               /\ Field(LegHeader, legs[o], <<"order_execution_time", "trade_date">>, Blank)
                     = Moment(24 + book[o].time)
    <2>1. /\ Headings[1] = "trade_date" /\ Headings[2] = "tradingsymbol"
          /\ Headings[3] = "trade_type" /\ Headings[4] = "quantity" /\ Headings[5] = "price"
      BY DEF Headings
    <2>2. /\ legs[o][1] = Date(1) /\ legs[o][2] = Ticker(book[o].symbol, 0)
          /\ legs[o][3] = Word(book[o].side) /\ legs[o][4] = Number(book[o].qty)
          /\ legs[o][5] = Number(o) /\ legs[o][6] = Moment(24 + book[o].time)
      BY DEF Leg
    <2> HIDE DEF legs
    <2> QED
      BY <2>1, <2>2, LegField, TimeField
  <1>7. group = GroupOf /\ side = SideOf
    <2>1. \A o \in Orders : /\ Get(o, "trade_date") = Date(1)
                            /\ Get(o, "tradingsymbol") = Ticker(book[o].symbol, 0)
                            /\ Get(o, "trade_type").s = book[o].side
      BY <1>6, CellFacts
    <2> HIDE DEF Get, legs
    <2> QED
      BY <1>1, <2>1 DEF GroupOf, SideOf
  <1>8. ASSUME NEW b \in Orders, NEW s \in Orders
        PROVE  Partnership(LegHeader, legs, b, s) = RoundTrip(b, s)
    <2> DEFINE tb == Stamp(Field(LegHeader, legs[b], <<"order_execution_time", "trade_date">>, Blank))
               ts == Stamp(Field(LegHeader, legs[s], <<"order_execution_time", "trade_date">>, Blank))
               long == BuyFirst(tb, ts, b, s)
               buy == Float(Get(b, "price"))
               sell == Float(Get(s, "price"))
               qty == Float(Field(LegHeader, legs[b], <<"quantity">>, Number(1)))
               date == Stamp(Get(b, "trade_date"))
               symbol == Get(b, "tradingsymbol").s
    <2>1. long <=> book[b].time <= book[s].time
      <3>1. book[b].time \in Nat /\ book[s].time \in Nat
        BY ValuesAssumption DEF TypeOK, Order
      <3>2. tb = 24 + book[b].time /\ ts = 24 + book[s].time
        BY <1>6, CellFacts
      <3> HIDE DEF tb, ts
      <3> QED
        BY <3>1, <3>2, FirstLeg
    <2>2. date = 24 /\ date # NoTime /\ symbol = book[b].symbol /\ buy = b /\ sell = s
          /\ qty = book[b].qty
      <3>1. date = 24 * 1 /\ symbol = book[b].symbol /\ buy = b /\ sell = s /\ qty = book[b].qty
        BY <1>6, CellFacts
      <3> HIDE DEF date
      <3> QED
        BY <3>1 DEF NoTime
    <2>3. Partnership(LegHeader, legs, b, s) =
             IF date = NoTime THEN NoTrade
             ELSE [at |-> date, side |-> IF long THEN "BUY" ELSE "SELL", symbol |-> symbol,
                   entry |-> IF long THEN buy ELSE sell, exit |-> IF long THEN sell ELSE buy,
                   qty |-> qty, pnl |-> (sell - buy) * qty, fees |-> 0]
      BY DEF Partnership
    <2> HIDE DEF long, buy, sell, qty, date, symbol
    <2> QED
      BY <2>1, <2>2, <2>3 DEF RoundTrip
  <1> HIDE DEF group, side, legs
  <1>9. /\ order = [k \in DOMAIN order |-> order[k]]
        /\ \E N \in Nat : DOMAIN order = 1 .. N
        /\ \A k \in DOMAIN order : order[k][1] \in Orders /\ order[k][2] \in Orders
    <2>1. DOMAIN GroupOf = 1 .. n
      BY <1>1 DEF GroupOf
    <2>2. \A p \in Partners(GroupOf, SideOf) : p[1] \in Orders /\ p[2] \in Orders
      BY <1>1, <2>1 DEF Partners
    <2> HIDE DEF n
    <2> QED
      BY <1>1, <1>7, <2>1, <2>2, PairedFacts
  <1> HIDE DEF order
  <1>10. PICK N \in Nat : DOMAIN order = 1 .. N
    BY <1>9
  <1>11. verdicts = [k \in 1 .. N |-> RoundTrip(order[k][1], order[k][2])]
    BY <1>8, <1>9, <1>10
  <1>12. \A k \in 1 .. N : verdicts[k] # NoTrade /\ verdicts[k] # Crash
    <2> SUFFICES ASSUME NEW k \in 1 .. N PROVE verdicts[k] # NoTrade /\ verdicts[k] # Crash
      OBVIOUS
    <2>1. verdicts[k] = RoundTrip(order[k][1], order[k][2])
      BY <1>11
    <2>2. "at" \in DOMAIN verdicts[k]
      BY <2>1 DEF RoundTrip
    <2> HIDE DEF verdicts
    <2> QED
      BY <2>2, TradesAreTrades
  <1> HIDE DEF verdicts
  <1>13. Outcome(verdicts) = verdicts
    BY <1>11, <1>12, AllRead
  <1> QED
    BY <1>3, <1>4, <1>5, <1>7, <1>10, <1>11, <1>13 DEF order

\* The detected parser decides if it finds a trade.
LEMMA FirstTry ==
  ASSUME NEW lines, lines # <<>>, NEW x, x # <<>>,
         Parsed(Commas(lines), DetectFormat(lines), "comma") = x
  PROVE  ParseCsv(Commas(lines), "auto") = x
PROOF
  <1> DEFINE file == Commas(lines)
             tries == << <<DetectFormat(file.lines), file.sniffed>>, <<"generic", file.sniffed>>,
                         <<"generic", "tab">>, <<"mt4", "tab">>, <<"zerodha", "tab">> >>
             results == [k \in DOMAIN tries |-> Parsed(file, tries[k][1], tries[k][2])]
             good == {k \in DOMAIN tries : results[k] # <<>>}
  <1>1. file.lines = lines /\ file.sniffed = "comma"
    BY DEF Commas
  <1>2. ParseCsv(file, "auto") = IF good = {} THEN <<>> ELSE results[Min(good)]
    BY <1>1 DEF ParseCsv
  <1>3. DOMAIN tries = 1 .. 5 /\ tries[1] = <<DetectFormat(lines), "comma">>
    BY <1>1
  <1> HIDE DEF tries
  <1>4. 1 \in good /\ good \in SUBSET (1 .. 5) /\ results[1] = x
    BY <1>3
  <1> HIDE DEF good
  <1>5. Min(good) \in 1 .. 5 /\ Min(good) <= 1
    BY <1>4, LeastUpTo
  <1>6. Min(good) = 1
    BY <1>5
  <1> QED
    BY <1>2, <1>4, <1>6

\* A header and n rows are n + 1 lines.
LEMMA HeadedDomain ==
  ASSUME NEW n \in Nat, NEW head, NEW rows, rows = [i \in 1 .. n |-> rows[i]],
         NEW lines, lines = <<head>> \o rows
  PROVE  /\ DOMAIN lines = 1 .. n + 1 /\ lines = [i \in 1 .. n + 1 |-> lines[i]]
         /\ lines[1] = head /\ \A i \in 1 .. n : lines[i + 1] = rows[i]
PROOF
  <1> DEFINE Q == {head} \cup {rows[i] : i \in 1 .. n}
  <1>1. rows \in Seq(Q) /\ Len(rows) = n
    <2>1. rows \in [1 .. n -> Q]
      OBVIOUS
    <2>2. rows \in Seq(Q)
      BY <2>1, SeqDef
    <2>3. DOMAIN rows = 1 .. n
      BY <2>1
    <2> HIDE DEF Q
    <2> QED
      BY <2>2, <2>3, LenProperties
  <1>2. <<head>> \in Seq(Q) /\ Len(<<head>>) = 1
    OBVIOUS
  <1> HIDE DEF Q
  <1>3. lines \in Seq(Q) /\ Len(lines) = 1 + n
    BY <1>1, <1>2, ConcatProperties
  <1>4. 1 + n = n + 1
    OBVIOUS
  <1>5. DOMAIN lines = 1 .. n + 1 /\ lines = [i \in 1 .. n + 1 |-> lines[i]]
    BY <1>3, <1>4, LenProperties
  <1> QED
    BY <1>5, Headed

\* A tradebook in which round trips are found is read by Zerodha's parser.
LEMMA TradebookUploaded ==
  ASSUME Zerodha(Tradebook) # <<>>
  PROVE  ParseCsv(Download, "auto") = Zerodha(Tradebook)
PROOF
  <1> DEFINE legs == [o \in Orders |-> Leg(o)]
             n == Cardinality(Orders)
  <1>1. n \in Nat /\ Orders = 1 .. n /\ DOMAIN legs = Orders
    BY ListAssumption, OrdersAssumption, FS_CardinalityType
  <1>2. Tradebook[1] = LegHeader /\ 1 \in DOMAIN Tradebook
    <2>1. legs = [i \in 1 .. n |-> legs[i]]
      BY <1>1
    <2>2. Tradebook = <<LegHeader>> \o legs
      BY DEF Tradebook, LegHeader
    <2> HIDE DEF legs, n
    <2>3. DOMAIN Tradebook = 1 .. n + 1 /\ Tradebook[1] = LegHeader
      BY <1>1, <2>1, <2>2, HeadedDomain
    <2> QED
      BY <1>1, <2>3
  <1>3. 1 \in DOMAIN LegHeader /\ LegHeader[1].s = "trade_date"
    <2>1. 1 \in DOMAIN LegHeader /\ LegHeader[1] = Word("trade_date")
      BY DEF LegHeader, Headings
    <2> QED
      BY <2>1, CellFacts
  <1>4. DetectFormat(Tradebook) = "zerodha"
    <2>1. \E i \in DOMAIN Tradebook : \E c \in DOMAIN Tradebook[i] :
             Tradebook[i][c].s \in {"trade_date", "tradingsymbol"}
      BY <1>2, <1>3
    <2> QED
      BY <2>1, Zenon DEF DetectFormat
  <1>5. Download = Commas(Tradebook) /\ Tradebook # <<>>
    BY <1>2 DEF Download, Commas
  <1>6. Parsed(Commas(Tradebook), "zerodha", "comma") = Zerodha(Tradebook)
    <2>1. Commas(Tradebook).lines = Tradebook /\ Commas(Tradebook).delimiter = "comma"
      BY DEF Commas
    <2> QED
      BY <1>5, <2>1 DEF Parsed
  <1> QED
    BY <1>4, <1>5, <1>6, FirstTry

-----------------------------------------------------------------------------
\* The direction of a trade is that of its earlier order.
Sided == \A t \in trades :
            t.side = IF book[t.buy].time <= book[t.sell].time THEN "BUY" ELSE "SELL"

\* A match takes the direction of its earlier order.
LEMMA SidedKept == Sided /\ [Next]_vars => Sided'
PROOF
  <1> SUFFICES ASSUME Sided, [Next]_vars PROVE Sided'
    OBVIOUS
  <1>1. CASE Match
    <2> DEFINE new(qty) == [buy |-> Head(buys), sell |-> Head(sells), qty |-> qty,
                side |-> IF book[Head(buys)].time <= book[Head(sells)].time THEN "BUY" ELSE "SELL"]
    <2>1. book' = book /\ \E qty : trades' = trades \cup {new(qty)}
      BY <1>1 DEF Match
    <2> QED
      BY <2>1 DEF Sided
  <1>2. ASSUME NEW o \in Orders, Enqueue(o)
        PROVE  Sided'
    BY <1>2 DEF Enqueue, Sided
  <1>3. CASE UNCHANGED vars
    BY <1>3 DEF vars, Sided
  <1> QED
    BY <1>1, <1>2, <1>3 DEF Next

\* With equal quantities and each side in the order of time, what is ahead of an order is
\* that quantity times its rank.
LEMMA AheadIsRank ==
  ASSUME TypeOK, Pairable, NEW o \in Orders
  PROVE  /\ Rank(GroupOf, SideOf, o) \in Nat
         /\ Ahead(o) = book[o].qty * Rank(GroupOf, SideOf, o)
PROOF
  <1> DEFINE L == {p \in Orders : /\ book[p].symbol = book[o].symbol /\ book[p].side = book[o].side
                                  /\ Earlier(p, o)}
             K == {j \in Fellows(GroupOf, o) : SideOf[j] = SideOf[o] /\ j < o}
             fun == [p \in Orders |-> book[p].qty]
  <1>1. /\ IsFiniteSet(Orders) /\ Orders \subseteq Nat
        /\ \A p \in Orders : book[p].time \in Nat /\ book[p].qty \in Nat
    BY OrdersAssumption, ValuesAssumption DEF TypeOK, Order
  <1>2. L = K
    <2>1. \A p \in Orders : book[p].symbol = book[o].symbol /\ book[p].side = book[o].side =>
                                (Earlier(p, o) <=> p < o)
      BY <1>1 DEF Earlier, Pairable
    <2>2. \A p \in Orders : p \in Fellows(GroupOf, o) <=> book[p].symbol = book[o].symbol
      <3>1. \A p \in Orders : GroupOf[p] = <<Date(1), Ticker(book[p].symbol, 0)>>
        BY DEF GroupOf
      <3>2. \A p \in Orders : GroupOf[p] = GroupOf[o] <=> book[p].symbol = book[o].symbol
        BY <3>1, CellFacts
      <3> QED
        BY <3>2 DEF Fellows, GroupOf
    <2>3. Fellows(GroupOf, o) \subseteq Orders /\ \A p \in Orders : SideOf[p] = book[p].side
      BY DEF Fellows, GroupOf, SideOf
    <2> QED
      BY <2>1, <2>2, <2>3
  <1>3. IsFiniteSet(L) /\ \A p \in L : fun[p] = book[o].qty
    BY <1>1, FS_Subset DEF Pairable
  <1>4. Cardinality(L) \in Nat
    BY <1>3, FS_CardinalityType
  <1>5. SumFunctionOnSet(fun, L) = book[o].qty * Cardinality(L)
    <2> HIDE DEF L, fun
    <2> QED
      BY <1>1, <1>3, SumOfEqual
  <1>6. Ahead(o) = SumFunctionOnSet(fun, L)
    BY DEF Ahead
  <1>7. Rank(GroupOf, SideOf, o) = Cardinality(L)
    BY <1>2 DEF Rank
  <1> QED
    BY <1>4, <1>5, <1>6, <1>7

\* Intervals of one length that begin at multiples of it overlap if they are the same.
LEMMA EqualIntervals ==
  ASSUME NEW q \in Nat \ {0}, NEW i \in Nat, NEW j \in Nat
  PROVE  LET from == Max({q * i, q * j})  to == Min({q * i + q, q * j + q}) IN
         (IF from < to THEN to - from ELSE 0) = IF i = j THEN q ELSE 0
PROOF
  <1> DEFINE a == q * i
             b == q * j
  <1>1. a \in Nat /\ b \in Nat /\ a + q \in Nat /\ b + q \in Nat
    OBVIOUS
  <1>2. i < j => a + q <= b
    <2> SUFFICES ASSUME i < j PROVE a + q <= b
      OBVIOUS
    <2>1. PICK d \in Nat : j = i + 1 + d
      <3>1. j - i - 1 \in Nat /\ j = i + 1 + (j - i - 1)
        OBVIOUS
      <3> QED
        BY <3>1
    <2>2. q * j = q * i + q + q * d /\ q * d \in Nat
      BY <2>1
    <2> QED
      BY <1>1, <2>2
  <1>3. j < i => b + q <= a
    <2> SUFFICES ASSUME j < i PROVE b + q <= a
      OBVIOUS
    <2>1. PICK d \in Nat : i = j + 1 + d
      <3>1. i - j - 1 \in Nat /\ i = j + 1 + (i - j - 1)
        OBVIOUS
      <3> QED
        BY <3>1
    <2>2. q * i = q * j + q + q * d /\ q * d \in Nat
      BY <2>1
    <2> QED
      BY <1>1, <2>2
  <1>4. i = j => a = b
    OBVIOUS
  <1> HIDE DEF a, b
  <1>5. /\ Max({a, b}) = Larger(a, b)
        /\ Min({a + q, b + q}) \in {a + q, b + q} /\ Min({a + q, b + q}) <= a + q
        /\ Min({a + q, b + q}) <= b + q
    BY <1>1, MaxOfTwo, MinOfTwo
  <1> DEFINE from == Max({a, b})
             to == Min({a + q, b + q})
  <1>6. (IF from < to THEN to - from ELSE 0) = IF i = j THEN q ELSE 0
    <2> HIDE DEF from, to
    <2>1. from = Larger(a, b) /\ to \in {a + q, b + q} /\ to <= a + q /\ to <= b + q
      BY <1>5 DEF from, to
    <2>2. CASE i = j
      BY <1>1, <1>4, <2>1, <2>2 DEF Larger
    <2>3. CASE i < j
      BY <1>1, <1>2, <2>1, <2>3 DEF Larger
    <2>4. CASE j < i
      BY <1>1, <1>3, <2>1, <2>4 DEF Larger
    <2> QED
      BY <2>2, <2>3, <2>4
  <1> QED
    BY <1>6 DEF a, b

\* So the trades of a finished day are the partners of the tradebook.
LEMMA TradesArePartners ==
  ASSUME TypeOK, IsFiniteSet(trades), FifoAgrees, rest = {}, ~Matching, Pairable
  PROVE  /\ \A t \in trades : /\ <<t.buy, t.sell>> \in Partners(GroupOf, SideOf)
                              /\ t.qty = book[t.buy].qty
         /\ \A p \in Partners(GroupOf, SideOf) : \E t \in trades : t.buy = p[1] /\ t.sell = p[2]
PROOF
  <1> DEFINE matched == {p \in Reached("BUY") \X Reached("SELL") :
                            book[p[1]].symbol = book[p[2]].symbol /\ Overlap(p[1], p[2]) > 0}
  <1>1. {<<t.buy, t.sell, t.qty>> : t \in trades} = {<<p[1], p[2], Overlap(p[1], p[2])>> : p \in matched}
    BY DEF FifoAgrees
  <1>2. \A o \in Orders : book[o].qty \in Nat \ {0}
    BY ValuesAssumption DEF TypeOK, Order
  <1>3. ASSUME NEW b \in Orders, NEW s \in Orders, book[b].symbol = book[s].symbol
        PROVE  Overlap(b, s) = IF Rank(GroupOf, SideOf, b) = Rank(GroupOf, SideOf, s)
                               THEN book[b].qty ELSE 0
    <2> DEFINE q == book[b].qty
    <2>1. q \in Nat \ {0} /\ book[s].qty = q
      BY <1>2, <1>3 DEF Pairable
    <2> DEFINE i == Rank(GroupOf, SideOf, b)
               j == Rank(GroupOf, SideOf, s)
    <2>2. i \in Nat /\ Ahead(b) = q * i /\ j \in Nat /\ Ahead(s) = q * j
      BY <2>1, AheadIsRank
    <2> HIDE DEF q, i, j
    <2>3. Overlap(b, s) = LET from == Max({q * i, q * j})
                              to == Min({q * i + q, q * j + q}) IN
                          IF from < to THEN to - from ELSE 0
      <3>1. Overlap(b, s) = LET from == Max({Ahead(b), Ahead(s)})
                                to == Min({Ahead(b) + q, Ahead(s) + q}) IN
                            IF from < to THEN to - from ELSE 0
        BY <2>1 DEF Overlap, q
      <3> QED
        BY <2>2, <3>1
    <2>4. (LET from == Max({q * i, q * j})
               to == Min({q * i + q, q * j + q}) IN
           IF from < to THEN to - from ELSE 0) = IF i = j THEN q ELSE 0
      BY <2>1, <2>2, EqualIntervals
    <2>5. Overlap(b, s) = IF i = j THEN q ELSE 0
      BY <2>3, <2>4
    <2> QED
      BY <2>5 DEF q, i, j
  <1>4. Reached("BUY") = {o \in Orders : book[o].side = "BUY"}
        /\ Reached("SELL") = {o \in Orders : book[o].side = "SELL"}
    BY DEF Reached
  <1>5. /\ DOMAIN GroupOf = Orders /\ \A o \in Orders : SideOf[o] = book[o].side
        /\ \A o, p \in Orders : GroupOf[p] = GroupOf[o] <=> book[p].symbol = book[o].symbol
    <2>1. \A p \in Orders : GroupOf[p] = <<Date(1), Ticker(book[p].symbol, 0)>>
      BY DEF GroupOf
    <2> QED
      BY <2>1, CellFacts DEF GroupOf, SideOf
  <1>6. matched = Partners(GroupOf, SideOf)
    <2>1. ASSUME NEW p \in Orders \X Orders
          PROVE  p \in matched <=> p \in Partners(GroupOf, SideOf)
      <3>1. p[1] \in Orders /\ p[2] \in Orders
        OBVIOUS
      <3>2. book[p[1]].symbol = book[p[2]].symbol =>
               (Overlap(p[1], p[2]) > 0 <=> Rank(GroupOf, SideOf, p[1]) = Rank(GroupOf, SideOf, p[2]))
        BY <1>2, <1>3, <3>1
      <3> QED
        BY <1>4, <1>5, <3>1, <3>2 DEF Partners
    <2>2. matched \subseteq Orders \X Orders /\ Partners(GroupOf, SideOf) \subseteq Orders \X Orders
      BY <1>4, <1>5 DEF Partners
    <2> QED
      BY <2>1, <2>2
  <1>7. \A p \in Partners(GroupOf, SideOf) :
           Overlap(p[1], p[2]) = book[p[1]].qty /\ p = <<p[1], p[2]>>
    BY <1>3, <1>5 DEF Partners
  <1> HIDE DEF matched
  <1>8. ASSUME NEW t \in trades
        PROVE  <<t.buy, t.sell>> \in Partners(GroupOf, SideOf) /\ t.qty = book[t.buy].qty
    <2>1. PICK p \in matched : <<t.buy, t.sell, t.qty>> = <<p[1], p[2], Overlap(p[1], p[2])>>
      BY <1>1
    <2> QED
      BY <1>6, <1>7, <2>1
  <1>9. ASSUME NEW p \in Partners(GroupOf, SideOf)
        PROVE  \E t \in trades : t.buy = p[1] /\ t.sell = p[2]
    <2>1. <<p[1], p[2], Overlap(p[1], p[2])>> \in {<<t.buy, t.sell, t.qty>> : t \in trades}
      BY <1>1, <1>6
    <2> QED
      BY <2>1
  <1> QED
    BY <1>8, <1>9

\* The orders of a day with a round trip are the same round trips whether OrderMatcher
\* pairs the list of the broker's API (broker_sync.py:64) or an uploaded tradebook is
\* parsed, detection and fallbacks included (csv_parser.py:35): as many of them, each
\* with the same two orders, direction and profit, for any number of orders, where those
\* of a symbol have one quantity and each side of it is listed in the order of time.
THEOREM TradebookAgrees == Spec => []PairingsAgree
PROOF
  <1> DEFINE Known == TypeOK /\ IsFiniteSet(trades) /\ FifoAgrees /\ Sided
  <1>1. Spec => []Sided
    <2>1. Init => Sided
      BY DEF Init, Sided
    <2> QED
      BY <2>1, SidedKept, PTL DEF Spec
  <1>2. Spec => []IsFiniteSet(trades)
    <2>1. IInv => IsFiniteSet(trades)
      BY DEF IInv, UsedUp
    <2> QED
      BY <2>1, Inductive, PTL
  <1>3. Known => PairingsAgree
    <2> SUFFICES ASSUME Known, rest = {}, ~Matching, Pairable, trades # {}
                 PROVE  /\ Len(ParseCsv(Download, "auto")) = Cardinality(trades)
                        /\ \A t \in trades : \E i \in DOMAIN ParseCsv(Download, "auto") :
                              ReadAs(t, ParseCsv(Download, "auto")[i])
      BY DEF PairingsAgree
    <2> DEFINE M == Partners(GroupOf, SideOf)
               N == Cardinality(M)
               order == Paired(GroupOf, SideOf)
               read == Zerodha(Tradebook)
               pair == [t \in trades |-> <<t.buy, t.sell>>]
    <2>1. read = [k \in DOMAIN order |-> RoundTrip(order[k][1], order[k][2])]
      BY TradebookRead
    <2>2. Cardinality(Orders) \in Nat /\ DOMAIN GroupOf = 1 .. Cardinality(Orders)
      BY ListAssumption, OrdersAssumption, FS_CardinalityType DEF GroupOf
    <2>3. /\ IsFiniteSet(M) /\ N \in Nat /\ order = [k \in 1 .. N |-> order[k]]
          /\ \A p \in M : \E k \in 1 .. N : order[k] = p
      <3> HIDE DEF M, N, order
      <3> QED
        BY <2>2, PairedFacts DEF M, N, order
    <2>4. /\ \A t \in trades : <<t.buy, t.sell>> \in M /\ t.qty = book[t.buy].qty
          /\ \A p \in M : \E t \in trades : t.buy = p[1] /\ t.sell = p[2]
          /\ \A p \in M : p = <<p[1], p[2]>>
      BY TradesArePartners DEF Partners
    <2>5. \A t \in trades : /\ t = [buy |-> t.buy, sell |-> t.sell, qty |-> t.qty, side |-> t.side]
                            /\ t.buy \in Orders /\ t.sell \in Orders
                            /\ t.side = IF book[t.buy].time <= book[t.sell].time THEN "BUY" ELSE "SELL"
      BY DEF TypeOK, Trade, Sided
    <2> HIDE DEF M, N, order, read
    <2>6. Cardinality(trades) = N
      <3>1. pair \in Bijection(trades, M)
        <4>1. pair \in [trades -> M]
          BY <2>4
        <4>2. ASSUME NEW t \in trades, NEW u \in trades, pair[t] = pair[u]
              PROVE  t = u
          <5>1. t.buy = u.buy /\ t.sell = u.sell
            BY <4>2
          <5>2. t.qty = u.qty
            <6>1. t.qty = book[t.buy].qty /\ u.qty = book[u.buy].qty
              BY <2>4
            <6> QED
              BY <5>1, <6>1
          <5>3. t.side = u.side
            <6>1. /\ t.side = IF book[t.buy].time <= book[t.sell].time THEN "BUY" ELSE "SELL"
                  /\ u.side = IF book[u.buy].time <= book[u.sell].time THEN "BUY" ELSE "SELL"
              BY <2>5
            <6> QED
              BY <5>1, <6>1
          <5> QED
            BY <2>5, <5>1, <5>2, <5>3
        <4>3. \A p \in M : \E t \in trades : pair[t] = p
          <5> SUFFICES ASSUME NEW p \in M PROVE \E t \in trades : pair[t] = p
            OBVIOUS
          <5>1. PICK t \in trades : t.buy = p[1] /\ t.sell = p[2]
            BY <2>4
          <5> QED
            BY <2>4, <5>1
        <4> HIDE DEF pair
        <4> QED
          BY <4>1, <4>2, <4>3 DEF Bijection, Injection, IsInjective, Surjection
      <3> HIDE DEF pair
      <3> QED
        BY <2>3, <3>1, FS_Bijection DEF ExistsBijection, N
    <2>7. Len(read) = N /\ DOMAIN read = 1 .. N
      <3>1. DOMAIN order = 1 .. N
        BY <2>3
      <3>2. read = [k \in 1 .. N |-> RoundTrip(order[k][1], order[k][2])]
        BY <2>1, <3>1
      <3> QED
        BY <2>3, <3>2, LenProperties
    <2>8. ASSUME NEW t \in trades
          PROVE  \E i \in DOMAIN read : ReadAs(t, read[i])
      <3>1. PICK k \in 1 .. N : order[k] = <<t.buy, t.sell>>
        BY <2>3, <2>4
      <3>2. read[k] = RoundTrip(t.buy, t.sell)
        BY <2>1, <2>7, <3>1
      <3>3. ReadAs(t, RoundTrip(t.buy, t.sell))
        BY <2>4, <2>5 DEF ReadAs, RoundTrip
      <3> QED
        BY <2>7, <3>2, <3>3
    <2>9. ParseCsv(Download, "auto") = read
      <3>1. DOMAIN read # {}
        BY <2>8
      <3>2. read # <<>>
        BY <3>1
      <3> QED
        BY <3>2, TradebookUploaded DEF read
    <2> QED
      BY <2>6, <2>7, <2>8, <2>9
  <1> QED
    BY <1>1, <1>2, <1>3, TypeCorrect, FirstInFirstOut, PTL

-----------------------------------------------------------------------------
(* The columns of a header.                                                *)

\* The i-th alias of field x is the first that the header has, in column c alone.
Leads(header, x, i, c) ==
    /\ x \in DOMAIN Aliases /\ i \in DOMAIN Aliases[x] /\ c \in DOMAIN header
    /\ \A d \in DOMAIN header : Normal(header[d].s) = Aliases[x][i] <=> d = c
    /\ \A j \in 1 .. i - 1 : \A d \in DOMAIN header : Normal(header[d].s) # Aliases[x][j]
Lacks(header, x) ==
    \A j \in DOMAIN Aliases[x] : \A d \in DOMAIN header : Normal(header[d].s) # Aliases[x][j]

Fields == {"timestamp", "symbol", "side", "entry_price", "exit_price", "quantity", "pnl", "fees"}
\* The fields a column can carry, each with a finite list of names.
LEMMA AliasLists ==
  /\ DOMAIN Aliases = Fields
  /\ \A x \in Fields : \E n \in Nat : DOMAIN Aliases[x] = 1 .. n
PROOF
  <1>1. DOMAIN Aliases = Fields
    BY DEF Aliases, Fields
  <1>2. /\ DOMAIN Aliases["timestamp"] = 1 .. 8 /\ DOMAIN Aliases["symbol"] = 1 .. 3
        /\ DOMAIN Aliases["side"] = 1 .. 3 /\ DOMAIN Aliases["entry_price"] = 1 .. 4
        /\ DOMAIN Aliases["exit_price"] = 1 .. 3 /\ DOMAIN Aliases["quantity"] = 1 .. 3
        /\ DOMAIN Aliases["pnl"] = 1 .. 3 /\ DOMAIN Aliases["fees"] = 1 .. 2
    BY DEF Aliases
  <1>3. 8 \in Nat /\ 4 \in Nat /\ 3 \in Nat /\ 2 \in Nat
    OBVIOUS
  <1> QED
    BY <1>1, <1>2, <1>3 DEF Fields

\* The column of a field is the one with the first alias that the header has.
LEMMA ColumnIs ==
  ASSUME NEW header, NEW x, NEW i, NEW c, Leads(header, x, i, c)
  PROVE  x \in DOMAIN ColumnMap(header) /\ ColumnMap(header)[x] = c
PROOF
  <1> DEFINE Of(alias) == {d \in DOMAIN header : Normal(header[d].s) = alias}
             Found == {j \in DOMAIN Aliases[x] : Of(Aliases[x][j]) # {}}
  <1>1. x \in DOMAIN Aliases /\ i \in DOMAIN Aliases[x] /\ Of(Aliases[x][i]) = {c}
    BY DEF Leads
  <1>2. \A j \in Found : j \in Nat /\ j >= 1
    BY <1>1, AliasLists
  <1>3. i \in Found
    BY <1>1
  <1>4. \A j \in Found : i <= j
    <2> SUFFICES ASSUME NEW j \in Found, j < i PROVE FALSE
      BY <1>2, <1>3
    <2>1. j \in 1 .. i - 1
      BY <1>2, <1>3
    <2> QED
      BY <2>1 DEF Leads
  <1>5. Min(Found) = i
    <2> HIDE DEF Found
    <2>1. Min(Found) \in Found /\ \A j \in Found : Min(Found) <= j
      BY <1>3, <1>4 DEF Min
    <2> QED
      BY <1>2, <1>3, <1>4, <2>1
  <1>6. (CHOOSE d \in Of(Aliases[x][Min(Found)]) : TRUE) = c
    BY <1>1, <1>5
  <1>7. /\ x \in DOMAIN ColumnMap(header)
        /\ ColumnMap(header)[x] = CHOOSE d \in Of(Aliases[x][Min(Found)]) : TRUE
    BY <1>1, <1>3 DEF ColumnMap
  <1> QED
    BY <1>6, <1>7

\* A field none of whose aliases is in the header has no column.
LEMMA NoColumn == ASSUME NEW header, NEW x, Lacks(header, x) PROVE x \notin DOMAIN ColumnMap(header)
PROOF BY DEF ColumnMap, Lacks

\* Blanks in a name count as underscores.
LEMMA NormalNames ==
  /\ Normal("date") = "date" /\ Normal("duration") = "duration"
  /\ Normal("entry") = "entry" /\ Normal("entry_price") = "entry_price"
  /\ Normal("exit") = "exit" /\ Normal("exit_price") = "exit_price"
  /\ Normal("fees") = "fees" /\ Normal("mistake_category") = "mistake_category"
  /\ Normal("mood") = "mood" /\ Normal("notes") = "notes"
  /\ Normal("open date") = "open_date" /\ Normal("open time") = "open_time"
  /\ Normal("opened at") = "opened at" /\ Normal("pnl") = "pnl"
  /\ Normal("profit") = "profit" /\ Normal("quantity") = "quantity"
  /\ Normal("reason") = "reason" /\ Normal("result") = "result"
  /\ Normal("rule_followed") = "rule_followed" /\ Normal("session") = "session"
  /\ Normal("setup") = "setup" /\ Normal("side") = "side"
  /\ Normal("symbol") = "symbol" /\ Normal("time") = "time"
  /\ Normal("what") = "what"
PROOF BY DEF Normal

\* The columns of the app's own export.
LEMMA ExportColumns ==
  LET m == ColumnMap(Header(ExportNames)) IN
  /\ DOMAIN m = Fields
  /\ m["timestamp"] = 1 /\ m["symbol"] = 2 /\ m["side"] = 3 /\ m["entry_price"] = 4
  /\ m["exit_price"] = 5 /\ m["quantity"] = 6 /\ m["pnl"] = 7 /\ m["fees"] = 11
PROOF
  <1> DEFINE h == Header(ExportNames)
             norm == <<"date", "symbol", "side", "entry_price", "exit_price",
                       "quantity", "pnl", "duration", "setup", "notes",
                       "fees", "mood", "reason", "rule_followed", "mistake_category">>
  <1>1. DOMAIN h = 1 .. 15 /\ \A d \in 1 .. 15 : Normal(h[d].s) = norm[d]
    <2>1. /\ DOMAIN ExportNames = 1 .. 15
          /\ ExportNames[1] = "date" /\ ExportNames[2] = "symbol"
          /\ ExportNames[3] = "side" /\ ExportNames[4] = "entry_price"
          /\ ExportNames[5] = "exit_price" /\ ExportNames[6] = "quantity"
          /\ ExportNames[7] = "pnl" /\ ExportNames[8] = "duration"
          /\ ExportNames[9] = "setup" /\ ExportNames[10] = "notes"
          /\ ExportNames[11] = "fees" /\ ExportNames[12] = "mood"
          /\ ExportNames[13] = "reason" /\ ExportNames[14] = "rule_followed"
          /\ ExportNames[15] = "mistake_category"
      BY DEF ExportNames
    <2>2. DOMAIN h = 1 .. 15 /\ \A d \in 1 .. 15 : h[d].s = ExportNames[d]
      BY <2>1, CellFacts DEF Header
    <2>3. /\ Normal(ExportNames[1]) = norm[1] /\ Normal(ExportNames[2]) = norm[2]
          /\ Normal(ExportNames[3]) = norm[3] /\ Normal(ExportNames[4]) = norm[4]
          /\ Normal(ExportNames[5]) = norm[5] /\ Normal(ExportNames[6]) = norm[6]
          /\ Normal(ExportNames[7]) = norm[7] /\ Normal(ExportNames[8]) = norm[8]
      BY <2>1, NormalNames, ZenonT(60)
    <2>4. /\ Normal(ExportNames[9]) = norm[9] /\ Normal(ExportNames[10]) = norm[10]
          /\ Normal(ExportNames[11]) = norm[11] /\ Normal(ExportNames[12]) = norm[12]
          /\ Normal(ExportNames[13]) = norm[13] /\ Normal(ExportNames[14]) = norm[14]
          /\ Normal(ExportNames[15]) = norm[15]
      BY <2>1, NormalNames, ZenonT(60)
    <2> HIDE DEF norm
    <2>5. \A d \in 1 .. 15 : Normal(ExportNames[d]) = norm[d]
      BY <2>3, <2>4
    <2> QED
      BY <2>2, <2>5
  <1> HIDE DEF h
  <1>2. Leads(h, "timestamp", 1, 1)
    BY <1>1 DEF Leads, Aliases
  <1>3. Leads(h, "symbol", 1, 2)
    BY <1>1 DEF Leads, Aliases
  <1>4. Leads(h, "side", 1, 3)
    BY <1>1 DEF Leads, Aliases
  <1>5. Leads(h, "entry_price", 1, 4)
    BY <1>1 DEF Leads, Aliases
  <1>6. Leads(h, "exit_price", 1, 5)
    BY <1>1 DEF Leads, Aliases
  <1>7. Leads(h, "quantity", 1, 6)
    BY <1>1 DEF Leads, Aliases
  <1>8. Leads(h, "pnl", 1, 7)
    BY <1>1 DEF Leads, Aliases
  <1>9. Leads(h, "fees", 1, 11)
    BY <1>1 DEF Leads, Aliases
  <1>10. DOMAIN ColumnMap(h) \subseteq Fields
    BY AliasLists DEF ColumnMap
  <1> QED
    BY <1>2, <1>3, <1>4, <1>5, <1>6, <1>7, <1>8, <1>9, <1>10, ColumnIs DEF h, Fields

\* The columns of a file with a date and a time apart; the time has no alias.
LEMMA SplitColumns ==
  LET m == ColumnMap(Header(SplitNames)) IN
  /\ DOMAIN m = {"timestamp", "symbol", "side", "entry_price", "exit_price", "pnl"}
  /\ m["timestamp"] = 3 /\ m["symbol"] = 1 /\ m["side"] = 2 /\ m["entry_price"] = 5
  /\ m["exit_price"] = 6 /\ m["pnl"] = 7
PROOF
  <1> DEFINE h == Header(SplitNames)
             norm == <<"symbol", "side", "open_date", "open_time", "entry",
                       "exit", "profit">>
  <1>1. DOMAIN h = 1 .. 7 /\ \A d \in 1 .. 7 : Normal(h[d].s) = norm[d]
    <2>1. /\ DOMAIN SplitNames = 1 .. 7
          /\ SplitNames[1] = "symbol" /\ SplitNames[2] = "side"
          /\ SplitNames[3] = "open date" /\ SplitNames[4] = "open time"
          /\ SplitNames[5] = "entry" /\ SplitNames[6] = "exit"
          /\ SplitNames[7] = "profit"
      BY DEF SplitNames
    <2>2. DOMAIN h = 1 .. 7 /\ \A d \in 1 .. 7 : h[d].s = SplitNames[d]
      BY <2>1, CellFacts DEF Header
    <2>3. /\ Normal(SplitNames[1]) = norm[1] /\ Normal(SplitNames[2]) = norm[2]
          /\ Normal(SplitNames[3]) = norm[3] /\ Normal(SplitNames[4]) = norm[4]
          /\ Normal(SplitNames[5]) = norm[5] /\ Normal(SplitNames[6]) = norm[6]
          /\ Normal(SplitNames[7]) = norm[7]
      BY <2>1, NormalNames, ZenonT(60)
    <2> HIDE DEF norm
    <2>4. \A d \in 1 .. 7 : Normal(SplitNames[d]) = norm[d]
      BY <2>3
    <2> QED
      BY <2>2, <2>4
  <1> HIDE DEF h
  <1>2. Leads(h, "timestamp", 4, 3)
    BY <1>1 DEF Leads, Aliases
  <1>3. Leads(h, "symbol", 1, 1)
    BY <1>1 DEF Leads, Aliases
  <1>4. Leads(h, "side", 1, 2)
    BY <1>1 DEF Leads, Aliases
  <1>5. Leads(h, "entry_price", 2, 5)
    BY <1>1 DEF Leads, Aliases
  <1>6. Leads(h, "exit_price", 2, 6)
    BY <1>1 DEF Leads, Aliases
  <1>7. Leads(h, "pnl", 2, 7)
    BY <1>1 DEF Leads, Aliases
  <1>8. Lacks(h, "quantity")
    BY <1>1 DEF Lacks, Aliases
  <1>9. Lacks(h, "fees")
    BY <1>1 DEF Lacks, Aliases
  <1>10. DOMAIN ColumnMap(h) \subseteq Fields
    BY AliasLists DEF ColumnMap
  <1> QED
    BY <1>2, <1>3, <1>4, <1>5, <1>6, <1>7, <1>8, <1>9, <1>10, ColumnIs, NoColumn DEF h, Fields

\* The columns of a file whose date is headed Date and whose time is headed Time.
LEMMA TimesColumns ==
  LET m == ColumnMap(Header(TimesNames)) IN
  /\ DOMAIN m = {"timestamp", "symbol", "side", "entry_price", "exit_price", "pnl"}
  /\ m["timestamp"] = 2 /\ m["symbol"] = 3 /\ m["side"] = 4 /\ m["entry_price"] = 5
  /\ m["exit_price"] = 6 /\ m["pnl"] = 7
PROOF
  <1> DEFINE h == Header(TimesNames)
             norm == <<"session", "time", "symbol", "side", "entry",
                       "exit", "pnl">>
  <1>1. DOMAIN h = 1 .. 7 /\ \A d \in 1 .. 7 : Normal(h[d].s) = norm[d]
    <2>1. /\ DOMAIN TimesNames = 1 .. 7
          /\ TimesNames[1] = "session" /\ TimesNames[2] = "time"
          /\ TimesNames[3] = "symbol" /\ TimesNames[4] = "side"
          /\ TimesNames[5] = "entry" /\ TimesNames[6] = "exit"
          /\ TimesNames[7] = "pnl"
      BY DEF TimesNames
    <2>2. DOMAIN h = 1 .. 7 /\ \A d \in 1 .. 7 : h[d].s = TimesNames[d]
      BY <2>1, CellFacts DEF Header
    <2>3. /\ Normal(TimesNames[1]) = norm[1] /\ Normal(TimesNames[2]) = norm[2]
          /\ Normal(TimesNames[3]) = norm[3] /\ Normal(TimesNames[4]) = norm[4]
          /\ Normal(TimesNames[5]) = norm[5] /\ Normal(TimesNames[6]) = norm[6]
          /\ Normal(TimesNames[7]) = norm[7]
      BY <2>1, NormalNames, ZenonT(60)
    <2> HIDE DEF norm
    <2>4. \A d \in 1 .. 7 : Normal(TimesNames[d]) = norm[d]
      BY <2>3
    <2> QED
      BY <2>2, <2>4
  <1> HIDE DEF h
  <1>2. Leads(h, "timestamp", 8, 2)
    BY <1>1 DEF Leads, Aliases
  <1>3. Leads(h, "symbol", 1, 3)
    BY <1>1 DEF Leads, Aliases
  <1>4. Leads(h, "side", 1, 4)
    BY <1>1 DEF Leads, Aliases
  <1>5. Leads(h, "entry_price", 2, 5)
    BY <1>1 DEF Leads, Aliases
  <1>6. Leads(h, "exit_price", 2, 6)
    BY <1>1 DEF Leads, Aliases
  <1>7. Leads(h, "pnl", 1, 7)
    BY <1>1 DEF Leads, Aliases
  <1>8. Lacks(h, "quantity")
    BY <1>1 DEF Lacks, Aliases
  <1>9. Lacks(h, "fees")
    BY <1>1 DEF Lacks, Aliases
  <1>10. DOMAIN ColumnMap(h) \subseteq Fields
    BY AliasLists DEF ColumnMap
  <1> QED
    BY <1>2, <1>3, <1>4, <1>5, <1>6, <1>7, <1>8, <1>9, <1>10, ColumnIs, NoColumn DEF h, Fields

\* Of a file with names nobody listed only three columns have an alias.
LEMMA StrangeColumns ==
  LET m == ColumnMap(Header(StrangeNames)) IN
  /\ DOMAIN m = {"side", "entry_price", "exit_price"}
  /\ m["side"] = 1 /\ m["entry_price"] = 2 /\ m["exit_price"] = 3
PROOF
  <1> DEFINE h == Header(StrangeNames)
             Known == {"date", "timestamp", "trade_date", "open_date", "close_date", "open_time"
                       , "close_time", "time", "symbol", "ticker", "tradingsymbol", "side"
                       , "type", "trade_type", "entry_price", "entry", "open_price", "price"
                       , "exit_price", "exit", "close_price", "quantity", "size", "volume"
                       , "pnl", "profit", "amount", "fees", "commission"}
  <1>1. PICK w : /\ w \notin Known /\ DOMAIN h = 1 .. 6
                 /\ Normal(h[1].s) = "side" /\ Normal(h[2].s) = "entry"
                 /\ Normal(h[3].s) = "exit" /\ Normal(h[4].s) = w
                 /\ Normal(h[5].s) = "what" /\ Normal(h[6].s) = "result"
    <2>1. /\ DOMAIN StrangeNames = 1 .. 6
          /\ StrangeNames[1] = "side" /\ StrangeNames[2] = "entry"
          /\ StrangeNames[3] = "exit" /\ StrangeNames[4] = "opened at"
          /\ StrangeNames[5] = "what" /\ StrangeNames[6] = "result"
      BY DEF StrangeNames
    <2>2. DOMAIN h = 1 .. 6 /\ \A d \in 1 .. 6 : h[d].s = StrangeNames[d]
      BY <2>1, CellFacts DEF Header
    <2>3. 1 \in 1 .. 6 /\ 2 \in 1 .. 6 /\ 3 \in 1 .. 6 /\ 4 \in 1 .. 6 /\ 5 \in 1 .. 6 /\ 6 \in 1 .. 6
      OBVIOUS
    <2>4. "opened at" \notin Known
      BY Zenon
    <2>5. /\ h[1].s = StrangeNames[1] /\ h[2].s = StrangeNames[2] /\ h[3].s = StrangeNames[3]
          /\ h[4].s = StrangeNames[4] /\ h[5].s = StrangeNames[5] /\ h[6].s = StrangeNames[6]
      BY <2>2, <2>3
    <2> HIDE DEF Known, h
    <2>6. Normal(h[1].s) = "side" /\ Normal(h[2].s) = "entry" /\ Normal(h[3].s) = "exit"
      BY <2>1, <2>5, NormalNames, ZenonT(60)
    <2>7. Normal(h[4].s) = "opened at"
      BY <2>1, <2>5, NormalNames
    <2>8. Normal(h[5].s) = "what" /\ Normal(h[6].s) = "result"
      BY <2>1, <2>5, NormalNames, ZenonT(60)
    <2> QED
      BY <2>2, <2>4, <2>6, <2>7, <2>8, Zenon
  <1> HIDE DEF h
  <1>2. Leads(h, "side", 1, 1)
    BY <1>1 DEF Leads, Aliases
  <1>3. Leads(h, "entry_price", 2, 2)
    BY <1>1 DEF Leads, Aliases
  <1>4. Leads(h, "exit_price", 2, 3)
    BY <1>1 DEF Leads, Aliases
  <1>5. Lacks(h, "timestamp")
    BY <1>1 DEF Lacks, Aliases
  <1>6. Lacks(h, "symbol")
    BY <1>1 DEF Lacks, Aliases
  <1>7. Lacks(h, "quantity")
    BY <1>1 DEF Lacks, Aliases
  <1>8. Lacks(h, "pnl")
    BY <1>1 DEF Lacks, Aliases
  <1>9. Lacks(h, "fees")
    BY <1>1 DEF Lacks, Aliases
  <1>10. DOMAIN ColumnMap(h) \subseteq Fields
    BY AliasLists DEF ColumnMap
  <1> QED
    BY <1>2, <1>3, <1>4, <1>5, <1>6, <1>7, <1>8, <1>9, <1>10, ColumnIs, NoColumn DEF h, Fields

-----------------------------------------------------------------------------
(* A file with a header, and the order of attempts.                        *)

\* The names stand in the cells of the header.
LEMMA HeaderWords ==
  ASSUME NEW n \in Nat, NEW names, DOMAIN names = 1 .. n
  PROVE  /\ DOMAIN Header(names) = 1 .. n /\ Len(Header(names)) = n
         /\ \A d \in 1 .. n : /\ Header(names)[d] = Word(names[d])
                              /\ Header(names)[d].s = names[d] /\ Header(names)[d].kind = "word"
PROOF
  <1>1. Header(names) = [d \in 1 .. n |-> Word(names[d])]
    BY DEF Header
  <1>2. \A d \in 1 .. n : Word(names[d]).s = names[d] /\ Word(names[d]).kind = "word"
    BY DEF Word, Cell
  <1>3. Header(names) \in Seq({Word(names[d]) : d \in 1 .. n})
    BY <1>1, SeqDef
  <1> QED
    BY <1>1, <1>2, <1>3, LenProperties

\* A column the header has is found by the first of its names, one it lacks is not.
LEMMA FieldIs ==
  ASSUME NEW names, NEW c \in DOMAIN names, NEW list, 1 \in DOMAIN list, list[1] = names[c],
         \A i \in DOMAIN list : i \in Nat /\ i >= 1,
         \A d \in DOMAIN names : names[d] = names[c] => d = c, NEW row, NEW default
  PROVE  Field(Header(names), row, list, default) = row[c]
PROOF
  <1> DEFINE h == Header(names)
             found == {i \in DOMAIN list : Word(list[i]) \in ToSet(h)}
  <1>1. DOMAIN h = DOMAIN names /\ \A d \in DOMAIN names : h[d] = Word(names[d])
    BY DEF Header
  <1>2. \A d \in DOMAIN names : h[d] = Word(list[1]) <=> d = c
    <2>1. \A a, b : Word(a) = Word(b) => a = b
      BY DEF Word, Cell
    <2> QED
      BY <1>1, <2>1
  <1>3. 1 \in found /\ \A i \in found : i \in Nat /\ i >= 1
    BY <1>1, <1>2 DEF ToSet
  <1> HIDE DEF found
  <1>4. Min(found) \in found /\ \A i \in found : Min(found) <= i
    BY <1>3 DEF Min
  <1>5. Min(found) = 1
    BY <1>3, <1>4
  <1>6. (CHOOSE d \in DOMAIN h : h[d] = Word(list[Min(found)])) = c
    BY <1>1, <1>2, <1>5
  <1> QED
    BY <1>3, <1>6 DEF Field, found

\* A name the header lacks gives the default.
LEMMA FieldLacks ==
  ASSUME NEW names, NEW list, \A i \in DOMAIN list : \A d \in DOMAIN names : names[d] # list[i],
         NEW row, NEW default
  PROVE  Field(Header(names), row, list, default) = default
PROOF
  <1> DEFINE h == Header(names)
  <1>1. DOMAIN h = DOMAIN names /\ \A d \in DOMAIN names : h[d] = Word(names[d])
    BY DEF Header
  <1>2. \A a, b : Word(a) = Word(b) => a = b
    BY DEF Word, Cell
  <1>3. {i \in DOMAIN list : Word(list[i]) \in ToSet(h)} = {}
    BY <1>1, <1>2 DEF ToSet
  <1> QED
    BY <1>3 DEF Field

\* A line of names is taken for a header.
LEMMA NamesAreNoData ==
  ASSUME NEW n \in Nat, n >= 2, NEW names, DOMAIN names = 1 .. n
  PROVE  ~LooksLikeData(Header(names))
PROOF
  <1> DEFINE h == Header(names)
  <1>1. DOMAIN h = 1 .. n /\ \A d \in 1 .. n : h[d].kind = "word"
    BY HeaderWords
  <1>2. 1 \in 1 .. n /\ 2 \in 1 .. n
    OBVIOUS
  <1> HIDE DEF h
  <1>3. \A cell : cell.kind = "word" => Stamp(cell) = NoTime /\ cell # Blank
    <2>1. Blank.kind = "blank"
      BY DEF Blank, Cell
    <2> QED
      BY <2>1 DEF Stamp
  <1>4. \A a, b : a.kind = "word" /\ b.kind = "word" => Stamped(a, b) = NoTime
    BY <1>3 DEF Stamped
  <1>5. /\ \A c \in DOMAIN h : Stamp(h[c]) = NoTime
        /\ Stamped(h[1], h[2]) = NoTime /\ h[1].kind # "ticker"
    BY <1>1, <1>2, <1>3, <1>4
  <1> QED
    BY <1>5 DEF LooksLikeData, h

\* The words among the lines of a file.
Mentions(lines, words) == \E i \in DOMAIN lines : \E c \in DOMAIN lines[i] : lines[i][c].s \in words
\* The format depends on which of the marks are mentioned.
LEMMA DetectedFrom ==
  ASSUME NEW lines
  PROVE  DetectFormat(lines) =
           IF Mentions(lines, {"trade_date", "tradingsymbol"}) THEN "zerodha"
           ELSE IF Mentions(lines, {"ticket"}) THEN "mt4"
           ELSE IF Mentions(lines, OwnTimes) /\ ~Mentions(lines, OwnDates) THEN "mt4"
           ELSE "generic"
PROOF BY DEF DetectFormat, Mentions

\* A word mentioned in a file is in its header or in a row.
LEMMA TableMentions ==
  ASSUME NEW n \in Nat, NEW head, NEW rows, rows = [i \in 1 .. n |-> rows[i]], NEW words
  PROVE  Mentions(<<head>> \o rows, words) <=>
           \/ \E c \in DOMAIN head : head[c].s \in words
           \/ \E i \in 1 .. n : \E c \in DOMAIN rows[i] : rows[i][c].s \in words
PROOF
  <1> DEFINE lines == <<head>> \o rows
  <1>1. lines[1] = head /\ Len(lines) = n + 1 /\ \A i \in 1 .. n : lines[i + 1] = rows[i]
    BY Headed
  <1>2. DOMAIN lines = 1 .. n + 1
    BY HeadedDomain
  <1> HIDE DEF lines
  <1>3. \A i \in 1 .. n + 1 : i = 1 \/ \E j \in 1 .. n : i = j + 1
    <2> TAKE i \in 1 .. n + 1
    <2>1. i = 1 \/ (i - 1 \in 1 .. n /\ i = (i - 1) + 1)
      OBVIOUS
    <2> QED
      BY <2>1
  <1>4. 1 \in 1 .. n + 1 /\ \A j \in 1 .. n : j + 1 \in 1 .. n + 1
    OBVIOUS
  <1>5. Mentions(lines, words) <=>
           \E i \in 1 .. n + 1 : \E c \in DOMAIN lines[i] : lines[i][c].s \in words
    BY <1>2 DEF Mentions
  <1>6. ASSUME NEW i \in 1 .. n + 1, NEW c \in DOMAIN lines[i], lines[i][c].s \in words
        PROVE  \/ \E d \in DOMAIN head : head[d].s \in words
               \/ \E j \in 1 .. n : \E d \in DOMAIN rows[j] : rows[j][d].s \in words
    <2>1. CASE i = 1
      BY <1>1, <1>6, <2>1
    <2>2. ASSUME NEW j \in 1 .. n, i = j + 1
          PROVE  \E d \in DOMAIN rows[j] : rows[j][d].s \in words
      BY <1>1, <1>6, <2>2
    <2> QED
      BY <1>3, <2>1, <2>2
  <1>7. ASSUME NEW c \in DOMAIN head, head[c].s \in words
        PROVE  \E i \in 1 .. n + 1 : \E d \in DOMAIN lines[i] : lines[i][d].s \in words
    BY <1>1, <1>4, <1>7
  <1>8. ASSUME NEW j \in 1 .. n, NEW c \in DOMAIN rows[j], rows[j][c].s \in words
        PROVE  \E i \in 1 .. n + 1 : \E d \in DOMAIN lines[i] : lines[i][d].s \in words
    <2>1. lines[j + 1] = rows[j] /\ j + 1 \in 1 .. n + 1
      BY <1>1, <1>4
    <2> QED
      BY <1>8, <2>1
  <1> QED
    BY <1>5, <1>6, <1>7, <1>8 DEF lines

\* When the detected format reads nothing, the file is read by its columns.
LEMMA SecondTry ==
  ASSUME NEW lines, lines # <<>>, NEW x, x # <<>>, Generic(lines) = x,
         Parsed(Commas(lines), DetectFormat(lines), "comma") = <<>>
  PROVE  ParseCsv(Commas(lines), "auto") = x
PROOF
  <1> DEFINE file == Commas(lines)
             tries == << <<DetectFormat(file.lines), file.sniffed>>, <<"generic", file.sniffed>>,
                         <<"generic", "tab">>, <<"mt4", "tab">>, <<"zerodha", "tab">> >>
             results == [k \in DOMAIN tries |-> Parsed(file, tries[k][1], tries[k][2])]
             good == {k \in DOMAIN tries : results[k] # <<>>}
  <1>1. file.lines = lines /\ file.sniffed = "comma" /\ file.delimiter = "comma"
    BY DEF Commas
  <1>2. ParseCsv(file, "auto") = IF good = {} THEN <<>> ELSE results[Min(good)]
    BY <1>1 DEF ParseCsv
  <1>3. /\ DOMAIN tries = 1 .. 5 /\ tries[1] = <<DetectFormat(lines), "comma">>
        /\ tries[2] = <<"generic", "comma">>
    BY <1>1
  <1>4. Parsed(file, "generic", "comma") = x
    BY <1>1 DEF Parsed
  <1> HIDE DEF tries
  <1>5. 2 \in good /\ 1 \notin good /\ good \in SUBSET (1 .. 5) /\ results[2] = x
    BY <1>3, <1>4
  <1> HIDE DEF good
  <1>6. Min(good) \in 1 .. 5 /\ Min(good) <= 2 /\ Min(good) # 1
    BY <1>5, LeastUpTo
  <1>7. Min(good) = 2
    BY <1>6
  <1> QED
    BY <1>2, <1>5, <1>7

\* Under a header the rows are read by its columns.
LEMMA ReadUnderHeader ==
  ASSUME NEW n \in Nat, n >= 2, NEW names, DOMAIN names = 1 .. n,
         NEW m \in Nat, m >= 1, NEW rows, rows = [i \in 1 .. m |-> rows[i]]
  PROVE  LET lines == <<Header(names)>> \o rows IN
         /\ lines # <<>>
         /\ Generic(lines) = GenericRows(SmartMap(Header(names), rows), rows)
PROOF
  <1> DEFINE lines == <<Header(names)>> \o rows
  <1>1. /\ lines[1] = Header(names) /\ Tail(lines) = rows /\ Len(lines) = m + 1
        /\ lines # <<>>
    BY Headed
  <1>2. ~LooksLikeData(lines[1]) /\ Len(lines) # 1
    BY <1>1, NamesAreNoData
  <1> HIDE DEF lines
  <1> QED
    BY <1>1, <1>2 DEF Generic, lines

-----------------------------------------------------------------------------
(* Rows under a header.                                                    *)

\* A moment is a day and an hour of it.
LEMMA HoursOfDay ==
  ASSUME NEW n \in Nat
  PROVE  /\ 24 * (n \div 24) + (n % 24) = n /\ n \div 24 \in Nat /\ n % 24 \in Nat
         /\ (24 * (n \div 24)) % 24 = 0
PROOF
  <1>1. n = 24 * (n \div 24) + (n % 24) /\ n % 24 \in 0 .. 23 /\ n \div 24 \in Int
    OBVIOUS
  <1>2. n \div 24 \in Nat
    BY <1>1
  <1>3. \A k \in Nat : (24 * k) % 24 = 0
    OBVIOUS
  <1> QED
    BY <1>1, <1>2, <1>3

\* What the cells of a trade say.
LEMMA TradeCells ==
  ASSUME NEW t \in Closed
  PROVE  /\ t.at \in Nat /\ t.entry \in Nat /\ t.exit \in Nat /\ t.qty \in Nat /\ t.pnl \in Int
         /\ t.fees \in Nat /\ t.side \in {"BUY", "SELL"}
         /\ t.symbol \notin Marks /\ t.symbol \notin Sides
         /\ t = [at |-> t.at, symbol |-> t.symbol, side |-> t.side, entry |-> t.entry,
                 exit |-> t.exit, qty |-> t.qty, pnl |-> t.pnl, fees |-> t.fees]
         /\ Name(t).s = t.symbol /\ Name(t).kind = "ticker" /\ Name(t).n = 0
         /\ Type(t).s = t.side /\ Type(t).kind = "ticker" /\ Type(t).n = 0
         /\ Direction(t.side) = t.side
         /\ DayCell(t).kind = "date" /\ DayCell(t).n = 24 * (t.at \div 24) /\ DayCell(t).s = Blank.s
         /\ HourCell(t).kind = "clock" /\ HourCell(t).n = t.at % 24 /\ HourCell(t).s = Blank.s
PROOF
  <1>1. /\ t \in [at : Nat, symbol : {u.symbol : u \in Closed}, side : {"BUY", "SELL"},
                  entry : Nat, exit : Nat, qty : Nat, pnl : Int, fees : Nat]
        /\ t.symbol \notin Marks \cup Sides
    BY ClosedAssumption
  <1>2. /\ Name(t).s = t.symbol /\ Name(t).kind = "ticker" /\ Name(t).n = 0
        /\ Type(t).s = t.side /\ Type(t).kind = "ticker" /\ Type(t).n = 0
    BY DEF Name, Type, Ticker, Cell
  <1>3. /\ DayCell(t).kind = "date" /\ DayCell(t).n = 24 * (t.at \div 24) /\ DayCell(t).s = Blank.s
        /\ HourCell(t).kind = "clock" /\ HourCell(t).n = t.at % 24 /\ HourCell(t).s = Blank.s
    BY DEF DayCell, HourCell, Date, Clock, Blank, Cell
  <1>4. Direction(t.side) = t.side
    BY <1>1 DEF Direction
  <1> QED
    BY <1>1, <1>2, <1>3, <1>4

\* A date alone is midnight, with the hour of its time column it is the moment again.
LEMMA StampOfDay ==
  ASSUME NEW t \in Closed
  PROVE  /\ Stamp(DayCell(t)) = 24 * (t.at \div 24) /\ Stamp(DayCell(t)) # NoTime
         /\ Stamp(DayCell(t)) % 24 = 0 /\ Stamped(DayCell(t), HourCell(t)) = t.at
         /\ HourCell(t) # Blank /\ DayCell(t) # Blank
PROOF
  <1>1. Blank.kind = "blank"
    BY DEF Blank, Cell
  <1>2. HourCell(t) # Blank /\ DayCell(t) # Blank
    BY <1>1, TradeCells
  <1>3. Stamp(DayCell(t)) = 24 * (t.at \div 24)
    BY TradeCells DEF Stamp
  <1>4. Stamped(DayCell(t), HourCell(t)) = 24 * (t.at \div 24) + (t.at % 24)
    BY <1>2, TradeCells DEF Stamped
  <1>5. t.at \in Nat
    BY TradeCells
  <1> QED
    BY <1>2, <1>3, <1>4, <1>5, HoursOfDay DEF NoTime

\* A row that has the values of a trade under the columns found is read as that trade.
LEMMA TradeIsRead ==
  ASSUME NEW t \in Closed, NEW map, NEW row,
         {"timestamp", "symbol", "side", "entry_price", "exit_price", "pnl"} \subseteq DOMAIN map,
         CellAt(row, map["symbol"]) = Name(t), CellAt(row, map["side"]) = Type(t),
         CellAt(row, map["entry_price"]) = Number(t.entry),
         CellAt(row, map["exit_price"]) = Number(t.exit), CellAt(row, map["pnl"]) = Number(t.pnl),
         \/ "time" \notin DOMAIN map /\ CellAt(row, map["timestamp"]) = Moment(t.at)
         \/ /\ "time" \in DOMAIN map /\ CellAt(row, map["timestamp"]) = DayCell(t)
            /\ CellAt(row, map["time"]) = HourCell(t),
         \/ "quantity" \notin DOMAIN map /\ t.qty = 1
         \/ "quantity" \in DOMAIN map /\ CellAt(row, map["quantity"]) = Number(t.qty),
         \/ "fees" \notin DOMAIN map /\ t.fees = 0
         \/ "fees" \in DOMAIN map /\ CellAt(row, map["fees"]) = Number(t.fees)
  PROVE  GenericTrade(map, row) = t
PROOF
  <1> DEFINE Read(field) == IF field \in DOMAIN map THEN CellAt(row, map[field]) ELSE Blank
             time == Read("time")
             date == Read("timestamp")
             ts == IF time = Blank THEN Stamp(date) ELSE Stamped(date, time)
  <1>1. ts = t.at /\ time.kind # "missing" /\ (time # Blank => date.kind # "missing")
    <2>1. Blank.kind = "blank"
      BY DEF Blank, Cell
    <2>2. CASE "time" \notin DOMAIN map /\ CellAt(row, map["timestamp"]) = Moment(t.at)
      BY <2>1, <2>2, CellFacts
    <2>3. CASE /\ "time" \in DOMAIN map /\ CellAt(row, map["timestamp"]) = DayCell(t)
               /\ CellAt(row, map["time"]) = HourCell(t)
      BY <2>3, StampOfDay, TradeCells
    <2> QED
      BY <2>2, <2>3
  <1>2. ts # NoTime
    <2>1. t.at \in Nat
      BY TradeCells
    <2> HIDE DEF Read, time, date, ts
    <2> QED
      BY <1>1, <2>1 DEF NoTime
  <1>3. /\ Read("side") = Type(t) /\ Read("symbol") = Name(t)
        /\ Read("entry_price") = Number(t.entry) /\ Read("exit_price") = Number(t.exit)
        /\ Read("pnl") = Number(t.pnl)
    OBVIOUS
  <1>4. "missing" \notin {Read("side").kind, Read("symbol").kind}
    BY <1>3, TradeCells
  <1>5. (IF "quantity" \in DOMAIN map THEN Float(Read("quantity")) ELSE 1) = t.qty
    BY CellFacts
  <1>6. Float(Read("fees")) = t.fees
    <2>1. Float(Blank) = 0
      BY DEF Float, Blank, Cell
    <2> QED
      BY <2>1, CellFacts
  <1>7. /\ Direction(Type(t).s) = t.side /\ Name(t).s = t.symbol
        /\ Float(Number(t.entry)) = t.entry /\ Float(Number(t.exit)) = t.exit
        /\ Float(Number(t.pnl)) = t.pnl /\ "symbol" \in DOMAIN map
    BY TradeCells, CellFacts
  <1>8. GenericTrade(map, row) =
          IF time.kind = "missing" \/ (time # Blank /\ date.kind = "missing") THEN Crash
          ELSE IF ts = NoTime THEN NoTrade
          ELSE IF "missing" \in {Read("side").kind, Read("symbol").kind} THEN Crash
          ELSE [at |-> ts, side |-> Direction(Read("side").s),
                symbol |-> IF "symbol" \in DOMAIN map THEN Read("symbol").s ELSE "UNKNOWN",
                entry |-> Float(Read("entry_price")), exit |-> Float(Read("exit_price")),
                qty |-> IF "quantity" \in DOMAIN map THEN Float(Read("quantity")) ELSE 1,
                pnl |-> Float(Read("pnl")), fees |-> Float(Read("fees"))]
    BY DEF GenericTrade
  <1> HIDE DEF Read, time, date, ts
  <1>9. GenericTrade(map, row) =
          [at |-> t.at, side |-> t.side, symbol |-> t.symbol, entry |-> t.entry, exit |-> t.exit,
           qty |-> t.qty, pnl |-> t.pnl, fees |-> t.fees]
    BY <1>1, <1>2, <1>3, <1>4, <1>5, <1>6, <1>7, <1>8
  <1> QED
    BY <1>9, TradeCells

\* A file of which every row is read as its trade.
LEMMA RowsAreRead ==
  ASSUME closed \in Seq(Closed), NEW verdicts, verdicts = [i \in DOMAIN closed |-> verdicts[i]],
         \A i \in DOMAIN closed : verdicts[i] = closed[i]
  PROVE  Outcome(verdicts) = closed
PROOF
  <1>1. DOMAIN closed = 1 .. Len(closed) /\ Len(closed) \in Nat
    OBVIOUS
  <1>2. closed = [i \in DOMAIN closed |-> closed[i]] /\ \A i \in DOMAIN closed : closed[i] \in Closed
    OBVIOUS
  <1>3. verdicts = closed
    BY <1>2
  <1>4. \A i \in DOMAIN closed : closed[i] # NoTrade /\ closed[i] # Crash
    <2> TAKE i \in DOMAIN closed
    <2>1. "at" \in DOMAIN closed[i]
      BY <1>2, ClosedAssumption
    <2> QED
      BY <2>1, TradesAreTrades
  <1> QED
    BY <1>1, <1>2, <1>3, <1>4, AllRead

\* When every row is read as its trade, the rows are read as the list.
LEMMA RowsUnderMap ==
  ASSUME closed \in Seq(Closed), NEW map, "crash" \notin DOMAIN map, "timestamp" \in DOMAIN map,
         NEW rows, DOMAIN rows = DOMAIN closed,
         \A i \in DOMAIN closed : GenericTrade(map, rows[i]) = closed[i]
  PROVE  GenericRows(map, rows) = closed
PROOF
  <1> DEFINE verdicts == [i \in DOMAIN rows |-> GenericTrade(map, rows[i])]
  <1>1. verdicts = [i \in DOMAIN closed |-> verdicts[i]]
        /\ \A i \in DOMAIN closed : verdicts[i] = closed[i]
    OBVIOUS
  <1>2. GenericRows(map, rows) = Outcome(verdicts)
    BY DEF GenericRows
  <1> HIDE DEF verdicts
  <1> QED
    BY <1>1, <1>2, RowsAreRead

-----------------------------------------------------------------------------
(* The search for columns.                                                 *)

\* One field more in a map leaves the others.
LEMMA PutFacts ==
  ASSUME NEW map, NEW field, NEW c
  PROVE  /\ \A x : x \in DOMAIN Put(map, field, c) <=> x \in DOMAIN map \/ x = field
         /\ Put(map, field, c)[field] = c
         /\ \A x \in DOMAIN map : x # field => Put(map, field, c)[x] = map[x]
PROOF BY DEF Put

\* A field that has a column keeps it.
LEMMA ScanKeeps ==
  ASSUME NEW map, NEW field \in DOMAIN map
  PROVE  \A kinds, header, rows : Scan(map, field, kinds, header, rows) = map
PROOF BY DEF Scan

\* So does the timestamp.
LEMMA DateKept ==
  ASSUME NEW map, "timestamp" \in DOMAIN map
  PROVE  \A header, rows : ScanDate(map, header, rows) = map
PROOF BY DEF ScanDate

\* A map with a time, a profit and a symbol is not searched further.
LEMMA AllFound ==
  ASSUME NEW header, NEW rows, NEW map, map = WithTime(ColumnMap(header), header, rows[1]),
         {"timestamp", "pnl", "symbol"} \subseteq DOMAIN map
  PROVE  SmartMap(header, rows) = map
PROOF BY ScanKeeps, DateKept DEF SmartMap

\* The search looks at some of the rows, the first among them.
LEMMA SampleFacts ==
  ASSUME NEW rows, Len(rows) \in Nat, Len(rows) >= 3
  PROVE  /\ Sample(rows) \subseteq 1 .. Len(rows) /\ 1 \in Sample(rows)
         /\ \E k \in Nat : k >= 3 /\ Sample(rows) = 1 .. k
PROOF
  <1>1. /\ Min({5, Len(rows)}) \in {5, Len(rows)}
        /\ \A x \in {5, Len(rows)} : Min({5, Len(rows)}) <= x
    BY MinOfTwo, 5 \in Int, Len(rows) \in Int
  <1>2. PICK k \in Nat : k = Min({5, Len(rows)}) /\ k >= 3 /\ k <= Len(rows)
    BY <1>1
  <1> QED
    BY <1>2 DEF Sample

\* Column c is the first with a date in any row, and has one in every row.
Dated(map, header, rows, c, w) ==
    /\ "timestamp" \notin DOMAIN map /\ DOMAIN header = 1 .. w /\ w \in Nat /\ c \in 1 .. w
    /\ Len(rows) \in Nat /\ Len(rows) >= 3
    /\ \A i \in 1 .. Len(rows) :
          /\ CellAt(rows[i], c).kind = "moment"
          /\ \A d \in 1 .. w : d < c => CellAt(rows[i], d).kind \notin {"missing", "date", "moment"}

\* Without a date's name the first column with dates is the timestamp's.
LEMMA DateFound ==
  ASSUME NEW map, NEW header, NEW rows, NEW c, NEW w, Dated(map, header, rows, c, w)
  PROVE  ScanDate(map, header, rows) = Put(map, "timestamp", c)
PROOF
  <1> DEFINE Ends(d) == {i \in Sample(rows) : CellAt(rows[i], d).kind \in {"missing", "date", "moment"}}
             ended == {d \in DOMAIN header : Ends(d) # {}}
  <1>0. /\ "timestamp" \notin DOMAIN map /\ DOMAIN header = 1 .. w /\ w \in Nat /\ c \in 1 .. w
        /\ Len(rows) \in Nat /\ Len(rows) >= 3
        /\ \A i \in 1 .. Len(rows) :
              /\ CellAt(rows[i], c).kind = "moment"
              /\ \A d \in 1 .. w : d < c => CellAt(rows[i], d).kind \notin {"missing", "date", "moment"}
    BY DEF Dated
  <1>1. Sample(rows) \subseteq 1 .. Len(rows) /\ 1 \in Sample(rows)
    BY <1>0, SampleFacts
  <1>2. c \in ended /\ Ends(c) = Sample(rows)
    BY <1>0, <1>1
  <1>3. \A d \in ended : d \in 1 .. w /\ c <= d
    BY <1>0, <1>1
  <1>4. Min(ended) = c
    <2> HIDE DEF ended
    <2>1. ended \subseteq Int
      BY <1>3
    <2> QED
      BY <1>2, <1>3, <2>1, MinIs
  <1>5. Min(Ends(c)) \in 1 .. Len(rows)
    <2>1. Ends(c) \in SUBSET (1 .. Len(rows)) /\ Ends(c) # {}
      BY <1>0, <1>1, <1>2
    <2> HIDE DEF Ends
    <2> QED
      BY <1>0, <2>1, LeastUpTo
  <1>6. CellAt(rows[Min(Ends(c))], c).kind # "missing"
    BY <1>0, <1>5
  <1>7. ScanDate(map, header, rows) =
          IF "timestamp" \in DOMAIN map \/ ended = {} THEN map
          ELSE IF CellAt(rows[Min(Ends(Min(ended)))], Min(ended)).kind = "missing"
               THEN Put(map, "crash", Min(ended)) ELSE Put(map, "timestamp", Min(ended))
    BY DEF ScanDate
  <1>8. ended # {}
    BY <1>2
  <1> HIDE DEF ended, Ends
  <1> QED
    BY <1>0, <1>4, <1>6, <1>7, <1>8

\* Of the columns no field has yet, c alone holds such cells, in every row.
Alone(map, field, kinds, header, rows, c) ==
    LET free == DOMAIN header \ {map[x] : x \in DOMAIN map} IN
    /\ field \notin DOMAIN map /\ Len(rows) \in Nat /\ Len(rows) >= 3 /\ c \in free
    /\ \A i \in 1 .. Len(rows) : CellAt(rows[i], c).kind \in kinds
    /\ \A i \in 1 .. Len(rows) : \A d \in free :
          /\ CellAt(rows[i], d).kind # "missing"
          /\ d # c => CellAt(rows[i], d).kind \notin kinds

\* A field without a column takes it.
LEMMA ScanFinds ==
  ASSUME NEW map, NEW field, NEW kinds, NEW header, NEW rows, NEW c,
         Alone(map, field, kinds, header, rows, c)
  PROVE  Scan(map, field, kinds, header, rows) = Put(map, field, c)
PROOF
  <1> DEFINE free == DOMAIN header \ {map[x] : x \in DOMAIN map}
             sample == Sample(rows)
             short == {d \in free : \E i \in sample : CellAt(rows[i], d).kind = "missing"}
             hits == {d \in free :
                        Cardinality({i \in sample : CellAt(rows[i], d).kind \in kinds}) >= 3}
  <1>0. /\ field \notin DOMAIN map /\ Len(rows) \in Nat /\ Len(rows) >= 3 /\ c \in free
        /\ \A i \in 1 .. Len(rows) : CellAt(rows[i], c).kind \in kinds
        /\ \A i \in 1 .. Len(rows) : \A d \in free :
              /\ CellAt(rows[i], d).kind # "missing"
              /\ d # c => CellAt(rows[i], d).kind \notin kinds
    BY DEF Alone
  <1>1. PICK k \in Nat : k >= 3 /\ sample = 1 .. k
    BY <1>0, SampleFacts
  <1>2. sample \subseteq 1 .. Len(rows)
    BY <1>0, SampleFacts
  <1>3. IsFiniteSet(sample) /\ Cardinality(sample) = k /\ Cardinality({}) = 0
    <2>1. Cardinality(1 .. k) = k /\ IsFiniteSet(1 .. k)
      BY <1>1, FS_Interval, 1 \in Int, k \in Int
    <2> QED
      BY <1>1, <2>1, FS_EmptySet
  <1> HIDE DEF sample
  <1>4. short = {}
    BY <1>0, <1>2
  <1>5. hits = {c}
    <2>1. {i \in sample : CellAt(rows[i], c).kind \in kinds} = sample
      BY <1>0, <1>2
    <2>2. ASSUME NEW d \in free, d # c
          PROVE  {i \in sample : CellAt(rows[i], d).kind \in kinds} = {}
      BY <1>0, <1>2, <2>2
    <2>3. 3 <= k /\ ~(0 >= 3) /\ c \in free
      BY <1>0, <1>1
    <2> HIDE DEF free
    <2> QED
      BY <1>3, <2>1, <2>2, <2>3
  <1>6. Scan(map, field, kinds, header, rows) =
          IF field \in DOMAIN map \/ hits \cup short = {} THEN map
          ELSE IF Min(hits \cup short) \in short
               THEN Put(map, "crash", Min(short)) ELSE Put(map, field, Min(hits))
    BY DEF Scan, sample
  <1>7. Min({c}) = c
    BY DEF Min
  <1> HIDE DEF hits, short
  <1>8. hits \cup short = {c} /\ {c} # {} /\ c \notin short
    BY <1>4, <1>5
  <1> QED
    BY <1>0, <1>5, <1>6, <1>7, <1>8

-----------------------------------------------------------------------------
(* The exported backup.                                                    *)

\* The cells of an exported row that the parser reads, and the words in it.
LEMMA ExportRowCells ==
  ASSUME NEW t \in Closed, NEW note, NEW row, row = ExportRow(t, note)
  PROVE  /\ row = [c \in 1 .. 15 |-> row[c]] /\ Len(row) = 15 /\ DOMAIN row = 1 .. 15
         /\ row[1] = Moment(t.at) /\ row[2] = Name(t) /\ row[3] = Type(t)
         /\ row[4] = Number(t.entry) /\ row[5] = Number(t.exit) /\ row[6] = Number(t.qty)
         /\ row[7] = Number(t.pnl) /\ row[10] = note /\ row[11] = Number(t.fees)
         /\ \A c \in 1 .. 15 : row[c].s \in {Blank.s, t.symbol, t.side, note.s}
PROOF
  <1>1. /\ row[1] = Moment(t.at) /\ row[2] = Name(t) /\ row[3] = Type(t)
        /\ row[4] = Number(t.entry) /\ row[5] = Number(t.exit) /\ row[6] = Number(t.qty)
        /\ row[7] = Number(t.pnl) /\ row[11] = Number(t.fees)
    BY DEF ExportRow
  <1>2. /\ row[8] = Blank /\ row[9] = Blank /\ row[10] = note /\ row[12] = Blank
        /\ row[13] = Blank /\ row[14] = Blank /\ row[15] = Blank
    BY DEF ExportRow
  <1>3. row = [c \in 1 .. 15 |-> row[c]] /\ DOMAIN row = 1 .. 15 /\ Len(row) = 15
    <2>1. row = [c \in 1 .. 15 |-> row[c]]
      BY DEF ExportRow
    <2>2. row \in [1 .. 15 -> {row[c] : c \in 1 .. 15}]
      BY <2>1
    <2>3. 15 \in Nat
      OBVIOUS
    <2>4. row \in Seq({row[c] : c \in 1 .. 15})
      BY <2>2, <2>3, SeqDef
    <2> QED
      BY <2>1, <2>4, LenProperties
  <1>4. \A k : Moment(k).s = Blank.s /\ Number(k).s = Blank.s
    BY DEF Moment, Number, Blank, Cell
  <1>5. Name(t).s = t.symbol /\ Type(t).s = t.side
    BY TradeCells
  <1>6. ASSUME NEW c \in 1 .. 15
        PROVE  row[c].s \in {Blank.s, t.symbol, t.side, note.s}
    <2>1. /\ row[1].s = Blank.s /\ row[4].s = Blank.s /\ row[5].s = Blank.s /\ row[6].s = Blank.s /\ row[7].s = Blank.s
          /\ row[11].s = Blank.s
      BY <1>1, <1>4, Zenon
    <2>2. row[2].s = t.symbol /\ row[3].s = t.side /\ row[10].s = note.s
      BY <1>1, <1>2, <1>5, Zenon
    <2>3. /\ row[8].s = Blank.s /\ row[9].s = Blank.s /\ row[12].s = Blank.s /\ row[13].s = Blank.s /\ row[14].s = Blank.s
          /\ row[15].s = Blank.s
      BY <1>2, <1>5, Zenon
    <2> DEFINE s == [d \in 1 .. 15 |-> row[d].s]
    <2>4. /\ s[1] = Blank.s /\ s[4] = Blank.s /\ s[5] = Blank.s /\ s[6] = Blank.s /\ s[7] = Blank.s /\ s[11] = Blank.s
          /\ s[2] = t.symbol /\ s[3] = t.side /\ s[10] = note.s
          /\ s[8] = Blank.s /\ s[9] = Blank.s /\ s[12] = Blank.s /\ s[13] = Blank.s /\ s[14] = Blank.s /\ s[15] = Blank.s
      BY <2>1, <2>2, <2>3
    <2> HIDE DEF s
    <2>5. s[c] \in {Blank.s, t.symbol, t.side, note.s}
      BY <2>4
    <2> QED
      BY <2>5 DEF s
  <1> QED
    BY <1>1, <1>2, <1>3, <1>6

\* The columns of the backup.
ExportMap == ColumnMap(Header(ExportNames))
\* The map of an exported file of which the first row reaches the second column.
LEMMA ExportMapIs ==
  ASSUME NEW rows, NEW x \in Nat, rows[1][1] = Moment(x), Len(rows[1]) \in Nat, Len(rows[1]) >= 2,
         rows[1][2].kind = "ticker"
  PROVE  SmartMap(Header(ExportNames), rows) = ExportMap
PROOF
  <1> DEFINE h == Header(ExportNames)
             first == rows[1]
             map == WithTime(ExportMap, h, first)
  <1>1. DOMAIN ExportMap = Fields /\ ExportMap["timestamp"] = 1
    BY ExportColumns DEF ExportMap
  <1>2. Len(h) = 15
    <2>1. DOMAIN ExportNames = 1 .. 15
      BY DEF ExportNames
    <2> QED
      BY <2>1, HeaderWords, 15 \in Nat
  <1>3. CellAt(first, 1) = Moment(x) /\ Moment(x).kind = "moment"
    <2>1. 1 <= Len(first)
      OBVIOUS
    <2>2. CellAt(first, 1) = Moment(x)
      BY <2>1 DEF CellAt
    <2> QED
      BY <2>2 DEF Moment, Cell
  <1> HIDE DEF h
  <1>4. CellAt(first, 1 + 1).kind = "ticker"
    BY DEF CellAt
  <1>5. map = ExportMap
    <2>1. "timestamp" \in DOMAIN ExportMap
      BY <1>1 DEF Fields
    <2>2. 1 < Len(h) /\ 1 + 1 = 2
      BY <1>2
    <2> HIDE DEF first
    <2> QED
      BY <1>1, <1>3, <1>4, <2>1, <2>2 DEF WithTime
  <1>6. {"timestamp", "pnl", "symbol"} \subseteq DOMAIN map
    BY <1>1, <1>5 DEF Fields
  <1>7. SmartMap(h, rows) = map
    <2> HIDE DEF map
    <2>1. map = WithTime(ColumnMap(h), h, rows[1])
      BY DEF map, ExportMap, h
    <2> QED
      BY <1>6, <2>1, AllFound
  <1> HIDE DEF map
  <1> QED
    BY <1>5, <1>7 DEF h

-----------------------------------------------------------------------------
(* The format detected.                                                    *)

\* The words that tell a format, and some that tell none.
LEMMA MarkWords ==
  /\ "trade_date" \in Marks /\ "tradingsymbol" \in Marks /\ "ticket" \in Marks
  /\ OwnTimes \subseteq Marks /\ OwnDates \subseteq Marks
  /\ Blank.s \notin Marks /\ "BUY" \notin Marks /\ "SELL" \notin Marks
PROOF
  <1>1. Blank.s = ""
    BY DEF Blank, Cell
  <1>2. "" \notin Marks
    BY Zenon DEF Marks, OwnTimes, OwnDates
  <1>3. "BUY" \notin Marks /\ "SELL" \notin Marks
    BY Zenon DEF Marks, OwnTimes, OwnDates
  <1>4. /\ "trade_date" \in Marks /\ "tradingsymbol" \in Marks /\ "ticket" \in Marks
        /\ OwnTimes \subseteq Marks /\ OwnDates \subseteq Marks
    BY Zenon DEF Marks
  <1> QED
    BY <1>1, <1>2, <1>3, <1>4, Zenon

\* Names that are no marks, over rows without any, are no broker's.
LEMMA UnmarkedFile ==
  ASSUME NEW n \in Nat, NEW names, DOMAIN names = 1 .. n, \A d \in 1 .. n : names[d] \notin Marks,
         NEW m \in Nat, NEW rows, rows = [i \in 1 .. m |-> rows[i]],
         \A i \in 1 .. m : \A c \in DOMAIN rows[i] : rows[i][c].s \notin Marks
  PROVE  DetectFormat(<<Header(names)>> \o rows) = "generic"
PROOF
  <1> DEFINE lines == <<Header(names)>> \o rows
  <1>1. DOMAIN Header(names) = 1 .. n /\ \A d \in 1 .. n : Header(names)[d].s = names[d]
    BY HeaderWords
  <1>2. ASSUME NEW words, words \subseteq Marks
        PROVE  ~Mentions(lines, words)
    BY <1>1, <1>2, TableMentions
  <1> HIDE DEF lines
  <1>3. /\ ~Mentions(lines, {"trade_date", "tradingsymbol"}) /\ ~Mentions(lines, {"ticket"})
        /\ ~Mentions(lines, OwnTimes)
    BY <1>2, MarkWords
  <1> QED
    BY <1>3, DetectedFrom DEF lines

\* The ticket makes a statement of a file, in the header or in a note.
LEMMA TicketFile ==
  ASSUME NEW n \in Nat, NEW names, DOMAIN names = 1 .. n,
         \A d \in 1 .. n : names[d] \notin {"trade_date", "tradingsymbol"},
         NEW m \in Nat, NEW rows, rows = [i \in 1 .. m |-> rows[i]],
         \A i \in 1 .. m : \A c \in DOMAIN rows[i] :
            rows[i][c].s \notin {"trade_date", "tradingsymbol"},
         \/ \E d \in 1 .. n : names[d] = "ticket"
         \/ \E i \in 1 .. m : \E c \in DOMAIN rows[i] : rows[i][c].s = "ticket"
  PROVE  DetectFormat(<<Header(names)>> \o rows) = "mt4"
PROOF
  <1> DEFINE lines == <<Header(names)>> \o rows
  <1>1. DOMAIN Header(names) = 1 .. n /\ \A d \in 1 .. n : Header(names)[d].s = names[d]
    BY HeaderWords
  <1>2. ~Mentions(lines, {"trade_date", "tradingsymbol"})
    BY <1>1, TableMentions
  <1>3. Mentions(lines, {"ticket"})
    BY <1>1, TableMentions
  <1> HIDE DEF lines
  <1> QED
    BY <1>2, <1>3, DetectedFrom DEF lines

\* What the cells of a row say, none of it a mark.
LEMMA PlainWords ==
  ASSUME NEW t \in Closed, NEW word, word \in {Blank.s, t.symbol, t.side}
  PROVE  word \notin Marks
PROOF BY TradeCells, MarkWords

-----------------------------------------------------------------------------
(* A backup is restored.                                                   *)

ExportRows(note) == [i \in DOMAIN closed |-> ExportRow(closed[i], note)]
\* An export is a header and a row a trade, separated by commas.
LEMMA ExportFile ==
  ASSUME NEW note
  PROVE  Export(note) = Commas(<<Header(ExportNames)>> \o ExportRows(note))
PROOF BY DEF Export, Table, Rows, ExportRows

\* The names of the export tell no format.
LEMMA ExportWords ==
  /\ DOMAIN ExportNames = 1 .. 15 /\ \A d \in 1 .. 15 : ExportNames[d] \notin Marks
  /\ \A d \in 1 .. 15 : ExportNames[d] \notin {"type", "direction"}
PROOF
  <1>1. DOMAIN ExportNames = 1 .. 15
    BY DEF ExportNames
  <1>2. /\ ExportNames[1] = "date" /\ ExportNames[2] = "symbol" /\ ExportNames[3] = "side"
        /\ ExportNames[4] = "entry_price" /\ ExportNames[5] = "exit_price"
        /\ ExportNames[6] = "quantity" /\ ExportNames[7] = "pnl" /\ ExportNames[8] = "duration"
        /\ ExportNames[9] = "setup" /\ ExportNames[10] = "notes" /\ ExportNames[11] = "fees"
        /\ ExportNames[12] = "mood" /\ ExportNames[13] = "reason"
        /\ ExportNames[14] = "rule_followed" /\ ExportNames[15] = "mistake_category"
    BY DEF ExportNames
  <1> DEFINE Names == {"date", "symbol", "side", "entry_price", "exit_price", "quantity", "pnl",
                       "duration", "setup", "notes", "fees", "mood", "reason", "rule_followed",
                       "mistake_category"}
  <1>3. \A d \in 1 .. 15 : ExportNames[d] \in Names
    BY <1>2
  <1>4. \A name \in Names : name \notin Marks
    BY Zenon DEF Marks, OwnTimes, OwnDates
  <1>5. \A name \in Names : name \notin {"type", "direction"}
    BY Zenon
  <1> HIDE DEF Names
  <1> QED
    BY <1>1, <1>3, <1>4, <1>5

\* A row of the export is read as the trade it was written from.
LEMMA ExportTradeIsRead ==
  ASSUME NEW t \in Closed, NEW note
  PROVE  GenericTrade(ExportMap, ExportRow(t, note)) = t
PROOF
  <1> DEFINE row == ExportRow(t, note)
  <1>1. /\ DOMAIN ExportMap = Fields
        /\ ExportMap["timestamp"] = 1 /\ ExportMap["symbol"] = 2 /\ ExportMap["side"] = 3
        /\ ExportMap["entry_price"] = 4 /\ ExportMap["exit_price"] = 5
        /\ ExportMap["quantity"] = 6 /\ ExportMap["pnl"] = 7 /\ ExportMap["fees"] = 11
    BY ExportColumns DEF ExportMap
  <1>2. /\ Len(row) = 15 /\ row[1] = Moment(t.at) /\ row[2] = Name(t) /\ row[3] = Type(t)
        /\ row[4] = Number(t.entry) /\ row[5] = Number(t.exit) /\ row[6] = Number(t.qty)
        /\ row[7] = Number(t.pnl) /\ row[11] = Number(t.fees)
    BY ExportRowCells
  <1> HIDE DEF row
  <1>3. /\ CellAt(row, 1) = Moment(t.at) /\ CellAt(row, 2) = Name(t) /\ CellAt(row, 3) = Type(t)
        /\ CellAt(row, 4) = Number(t.entry) /\ CellAt(row, 5) = Number(t.exit)
        /\ CellAt(row, 6) = Number(t.qty) /\ CellAt(row, 7) = Number(t.pnl)
        /\ CellAt(row, 11) = Number(t.fees)
    BY <1>2 DEF CellAt
  <1>4. /\ {"timestamp", "symbol", "side", "entry_price", "exit_price", "pnl"} \subseteq Fields
        /\ "time" \notin Fields /\ "quantity" \in Fields /\ "fees" \in Fields
    BY DEF Fields
  <1>5. GenericTrade(ExportMap, row) = t
    BY <1>1, <1>3, <1>4, TradeIsRead
  <1> QED
    BY <1>5 DEF row

\* The rows of the export, read by its columns, are the trades.
LEMMA ExportReadByColumns ==
  ASSUME closed \in Seq(Closed), closed # <<>>, NEW note
  PROVE  LET lines == <<Header(ExportNames)>> \o ExportRows(note) IN
         lines # <<>> /\ Generic(lines) = closed
PROOF
  <1> DEFINE rows == ExportRows(note)
             lines == <<Header(ExportNames)>> \o rows
  <1>1. PICK n \in Nat : n = Len(closed) /\ n >= 1 /\ DOMAIN closed = 1 .. n
    OBVIOUS
  <1>2. \A i \in 1 .. n : closed[i] \in Closed
    BY <1>1
  <1>3. rows = [i \in 1 .. n |-> rows[i]] /\ \A i \in 1 .. n : rows[i] = ExportRow(closed[i], note)
    BY <1>1 DEF ExportRows
  <1> HIDE DEF rows
  <1>4. lines # <<>> /\ Generic(lines) = GenericRows(SmartMap(Header(ExportNames), rows), rows)
    BY <1>1, <1>3, ExportWords, ReadUnderHeader, 15 \in Nat, 15 >= 2
  <1>5. SmartMap(Header(ExportNames), rows) = ExportMap
    <2>1. rows[1] = ExportRow(closed[1], note) /\ closed[1] \in Closed
      BY <1>1, <1>2, <1>3
    <2>4. /\ rows[1][1] = Moment(closed[1].at) /\ rows[1][2] = Name(closed[1])
          /\ Len(rows[1]) = 15
      BY <2>1, ExportRowCells
    <2>5. Name(closed[1]).kind = "ticker" /\ closed[1].at \in Nat
      BY <2>1, TradeCells
    <2>2. /\ rows[1][1] = Moment(closed[1].at) /\ rows[1][2].kind = "ticker" /\ Len(rows[1]) = 15
          /\ closed[1].at \in Nat
      BY <2>4, <2>5
    <2>3. Len(rows[1]) \in Nat /\ Len(rows[1]) >= 2
      BY <2>2
    <2> QED
      BY <2>2, <2>3, ExportMapIs
  <1>6. \A i \in 1 .. n : GenericTrade(ExportMap, rows[i]) = closed[i]
    BY <1>2, <1>3, ExportTradeIsRead
  <1>7. "crash" \notin DOMAIN ExportMap /\ "timestamp" \in DOMAIN ExportMap
    BY ExportColumns DEF ExportMap, Fields
  <1>8. GenericRows(ExportMap, rows) = closed
    BY <1>1, <1>3, <1>6, <1>7, RowsUnderMap
  <1> QED
    BY <1>4, <1>5, <1>8 DEF rows

\* Nothing is no trade: of rows without a trade nothing is read.
LEMMA NothingRead ==
  ASSUME NEW n \in Nat, NEW verdicts, verdicts = [i \in 1 .. n |-> verdicts[i]],
         \A i \in 1 .. n : verdicts[i] = NoTrade
  PROVE  Outcome(verdicts) = <<>>
PROOF
  <1>1. DOMAIN verdicts = 1 .. n /\ NoTrade # Crash
    BY DEF NoTrade, Crash
  <1>2. Crash \notin ToSet(verdicts)
    BY <1>1 DEF ToSet
  <1>3. {i \in DOMAIN verdicts : verdicts[i] # NoTrade} = 1 .. 0
    BY <1>1
  <1>4. Entries(verdicts, 1 .. 0) = [k \in 1 .. 0 |-> verdicts[k]]
    BY AllEntries, 0 \in Nat
  <1>5. [k \in 1 .. 0 |-> verdicts[k]] = <<>>
    OBVIOUS
  <1> QED
    BY <1>2, <1>3, <1>4, <1>5 DEF Outcome, Traded

\* A backup has no column for a statement's type.
LEMMA ExportIsNoStatement ==
  ASSUME closed \in Seq(Closed), NEW note
  PROVE  Mt4(<<Header(ExportNames)>> \o ExportRows(note)) = <<>>
PROOF
  <1> DEFINE rows == ExportRows(note)
             h == Header(ExportNames)
             lines == <<h>> \o rows
             verdicts == [i \in DOMAIN rows |-> StatementTrade(h, rows[i])]
  <1>1. PICK n \in Nat : n = Len(closed) /\ DOMAIN closed = 1 .. n
    OBVIOUS
  <1>2. /\ rows = [i \in 1 .. n |-> rows[i]]
        /\ \A i \in 1 .. n : rows[i] = ExportRow(closed[i], note) /\ closed[i] \in Closed
    BY <1>1 DEF ExportRows
  <1> HIDE DEF rows
  <1>3. lines[1] = h /\ Tail(lines) = rows
    BY <1>2, Headed
  <1>4. Len(h) = 15
    BY ExportWords, HeaderWords, 15 \in Nat
  <1>5. ~Ragged(h, rows)
    <2>1. \A i \in 1 .. n : Len(rows[i]) = 15
      BY <1>2, ExportRowCells, SMTT(60)
    <2>2. DOMAIN rows = 1 .. n
      BY <1>2
    <2> QED
      BY <1>4, <2>1, <2>2 DEF Ragged
  <1>6. ASSUME NEW i \in 1 .. n
        PROVE  StatementTrade(h, rows[i]) = NoTrade
    <2>1. StatementColumns["type"] = <<"type", "direction">>
      BY Zenon DEF StatementColumns
    <2>2. \A k \in DOMAIN StatementColumns["type"] : \A d \in DOMAIN ExportNames :
             ExportNames[d] # StatementColumns["type"][k]
      BY <2>1, ExportWords
    <2>3. Field(h, rows[i], StatementColumns["type"], Blank) = Blank
      BY <2>2, FieldLacks
    <2>4. Blank.s \notin {"BUY", "SELL"}
      BY Zenon DEF Blank, Cell
    <2> QED
      BY <2>3, <2>4 DEF StatementTrade
  <1>7. verdicts = [i \in 1 .. n |-> verdicts[i]] /\ \A i \in 1 .. n : verdicts[i] = NoTrade
    BY <1>2, <1>6
  <1>8. Mt4(lines) = Outcome(verdicts)
    <2> HIDE DEF lines, h
    <2> QED
      BY <1>3, <1>5 DEF Mt4
  <1> HIDE DEF verdicts
  <1>9. Mt4(lines) = <<>>
    BY <1>7, <1>8, NothingRead
  <1> QED
    BY <1>9 DEF rows

\* What a generic file and a statement with commas are read by.
LEMMA ParsedAs ==
  ASSUME NEW lines, lines # <<>>
  PROVE  /\ Parsed(Commas(lines), "generic", "comma") = Generic(lines)
         /\ Parsed(Commas(lines), "mt4", "comma") = Mt4(lines)
PROOF
  <1>1. Commas(lines).lines = lines /\ Commas(lines).delimiter = "comma"
    BY DEF Commas
  <1> QED
    BY <1>1 DEF Parsed

\* Also when a note makes the backup look like a statement.
LEMMA BackupIsRead ==
  ASSUME closed \in Seq(Closed), closed # <<>>, NEW note \in {Blank, Word("ticket")}
  PROVE  ParseCsv(Export(note), "auto") = closed
PROOF
  <1> DEFINE rows == ExportRows(note)
             lines == <<Header(ExportNames)>> \o rows
  <1>1. PICK n \in Nat : n = Len(closed) /\ n >= 1 /\ DOMAIN closed = 1 .. n
    OBVIOUS
  <1>2. /\ rows = [i \in 1 .. n |-> rows[i]]
        /\ \A i \in 1 .. n : rows[i] = ExportRow(closed[i], note) /\ closed[i] \in Closed
    BY <1>1 DEF ExportRows
  <1>3. lines # <<>> /\ Generic(lines) = closed
    BY ExportReadByColumns
  <1>4. Export(note) = Commas(lines)
    BY ExportFile
  <1>5. \A i \in 1 .. n : DOMAIN rows[i] = 1 .. 15
    BY <1>2, ExportRowCells, SMTT(60)
  <1>6. ASSUME NEW i \in 1 .. n, NEW c \in DOMAIN rows[i]
        PROVE  rows[i][c].s \in {Blank.s, closed[i].symbol, closed[i].side, note.s}
    <2>1. rows[i] = ExportRow(closed[i], note) /\ closed[i] \in Closed /\ c \in 1 .. 15
      BY <1>2, <1>5
    <2> QED
      BY <2>1, ExportRowCells
  <1> HIDE DEF rows
  <1>7. CASE note = Blank
    <2>1. \A i \in 1 .. n : \A c \in DOMAIN rows[i] : rows[i][c].s \notin Marks
      BY <1>2, <1>6, <1>7, PlainWords
    <2>2. DetectFormat(lines) = "generic"
      BY <1>2, <2>1, ExportWords, UnmarkedFile, 15 \in Nat
    <2>3. Parsed(Commas(lines), DetectFormat(lines), "comma") = closed
      BY <1>3, <2>2, ParsedAs
    <2> HIDE DEF lines
    <2> QED
      BY <1>3, <1>4, <2>3, FirstTry
  <1>8. CASE note = Word("ticket")
    <2>1. note.s = "ticket"
      BY <1>8, CellFacts
    <2>2. \A i \in 1 .. n : \A c \in DOMAIN rows[i] :
             rows[i][c].s \notin {"trade_date", "tradingsymbol"}
      <3> TAKE i \in 1 .. n
      <3> TAKE c \in DOMAIN rows[i]
      <3>1. rows[i][c].s \notin Marks \/ rows[i][c].s = "ticket"
        BY <1>2, <1>6, <2>1, PlainWords
      <3> QED
        BY <3>1, MarkWords
    <2>3. \A d \in 1 .. 15 : ExportNames[d] \notin {"trade_date", "tradingsymbol"}
      BY ExportWords, MarkWords
    <2>4. \E i \in 1 .. n : \E c \in DOMAIN rows[i] : rows[i][c].s = "ticket"
      <3>1. 1 \in 1 .. n /\ 10 \in 1 .. 15
        BY <1>1
      <3>2. rows[1][10] = note
        BY <1>2, <3>1, ExportRowCells
      <3> QED
        BY <1>5, <2>1, <3>1, <3>2
    <2>5. DetectFormat(lines) = "mt4"
      BY <1>2, <2>2, <2>3, <2>4, ExportWords, TicketFile, 15 \in Nat
    <2>6. Mt4(lines) = <<>>
      BY ExportIsNoStatement DEF rows
    <2>7. Parsed(Commas(lines), DetectFormat(lines), "comma") = <<>>
      BY <1>3, <2>5, <2>6, ParsedAs
    <2> HIDE DEF lines
    <2> QED
      BY <1>3, <1>4, <2>7, SecondTry
  <1> QED
    BY <1>7, <1>8

-----------------------------------------------------------------------------
(* A row that ends early.                                                  *)

\* The first n cells of a row.
LEMMA CutCells ==
  ASSUME NEW row, row = [c \in 1 .. 15 |-> row[c]], NEW n \in 1 .. 14
  PROVE  /\ Len(SubSeq(row, 1, n)) = n /\ DOMAIN SubSeq(row, 1, n) = 1 .. n
         /\ \A c \in 1 .. n : SubSeq(row, 1, n)[c] = row[c]
PROOF
  <1> DEFINE R == {row[c] : c \in 1 .. 15}
             cut == SubSeq(row, 1, n)
  <1>1. \A c \in 1 .. n : row[c] \in R
    OBVIOUS
  <1>2. n \in Int /\ 1 \in Int /\ 1 <= n /\ n - 1 + 1 = n
    OBVIOUS
  <1>3. cut \in Seq(R) /\ Len(cut) = n /\ \A c \in 1 .. n - 1 + 1 : cut[c] = row[1 + c - 1]
    <2> HIDE DEF R
    <2>1. /\ cut \in Seq(R) /\ Len(cut) = IF 1 <= n THEN n - 1 + 1 ELSE 0
          /\ \A c \in 1 .. n - 1 + 1 : cut[c] = row[1 + c - 1]
      BY <1>1, n \in Int, 1 \in Int, SubSeqProperties
    <2> QED
      BY <1>2, <2>1
  <1>4. \A c \in 1 .. n : cut[c] = row[c]
    BY <1>2, <1>3
  <1> HIDE DEF cut
  <1>5. DOMAIN cut = 1 .. n
    BY <1>3, LenProperties
  <1> QED
    BY <1>3, <1>4, <1>5 DEF cut

\* What a row of the backup holds, as it is or cut.
LEMMA BackupRow ==
  ASSUME NEW t \in Closed, NEW n \in 3 .. 14, NEW row,
         row = ExportRow(t, Blank) \/ row = SubSeq(ExportRow(t, Blank), 1, n)
  PROVE  /\ Len(row) \in 3 .. 15 /\ DOMAIN row = 1 .. Len(row) /\ row[1] = Moment(t.at)
         /\ row[2].kind = "ticker"
         /\ \A c \in DOMAIN row : row[c].s \notin Marks
PROOF
  <1>1. PICK full : full = ExportRow(t, Blank)
    OBVIOUS
  <1>2. /\ full = [c \in 1 .. 15 |-> full[c]] /\ Len(full) = 15 /\ DOMAIN full = 1 .. 15
        /\ full[1] = Moment(t.at) /\ full[2] = Name(t)
    BY <1>1, ExportRowCells
  <1>3. \A c \in 1 .. 15 : full[c].s \notin Marks
    <2>1. \A c \in 1 .. 15 : full[c].s \in {Blank.s, t.symbol, t.side, Blank.s}
      BY <1>1, ExportRowCells
    <2> QED
      BY <2>1, PlainWords
  <1>4. PICK k \in 3 .. 15 : /\ Len(row) = k /\ DOMAIN row = 1 .. k
                             /\ \A c \in 1 .. k : row[c] = full[c]
    <2>1. CASE row = full
      BY <1>2, <2>1, 15 \in 3 .. 15
    <2>2. CASE row = SubSeq(full, 1, n)
      BY <1>2, <2>2, CutCells, n \in 1 .. 14, n \in 3 .. 15
    <2> QED
      BY <1>1, <2>1, <2>2
  <1>5. row[1] = Moment(t.at) /\ row[2].kind = "ticker"
    <2>1. 1 \in 1 .. k /\ 2 \in 1 .. k
      OBVIOUS
    <2>2. Name(t).kind = "ticker"
      BY TradeCells
    <2> QED
      BY <1>2, <1>4, <2>1, <2>2
  <1>7. Len(row) \in 3 .. 15 /\ DOMAIN row = 1 .. Len(row)
    BY <1>4
  <1>8. \A c \in DOMAIN row : row[c].s \notin Marks
    <2>1. \A c \in 1 .. k : c \in 1 .. 15
      OBVIOUS
    <2>2. \A c \in 1 .. k : row[c].s \notin Marks
      BY <1>3, <1>4, <2>1, Zenon
    <2> QED
      BY <1>4, <2>2
  <1> QED
    BY <1>5, <1>7, <1>8

\* The file of which one row was cut.
ShortRows(i, n) ==
    [k \in DOMAIN closed |-> IF k = i THEN SubSeq(ExportRows(Blank)[i], 1, n)
                                      ELSE ExportRows(Blank)[k]]
\* A file cut inside row i is the file with that row shortened.
LEMMA CutFile ==
  ASSUME closed \in Seq(Closed), NEW i \in DOMAIN closed, NEW n
  PROVE  Cut(i, n) = Commas(<<Header(ExportNames)>> \o ShortRows(i, n))
PROOF
  <1> DEFINE h == Header(ExportNames)
             rows == ExportRows(Blank)
             short == ShortRows(i, n)
             lines == <<h>> \o rows
             cut == <<h>> \o short
  <1>1. PICK m \in Nat : m = Len(closed) /\ DOMAIN closed = 1 .. m
    OBVIOUS
  <1>2. rows = [k \in 1 .. m |-> rows[k]] /\ short = [k \in 1 .. m |-> short[k]]
    BY <1>1 DEF ExportRows, ShortRows
  <1>3. \A k \in 1 .. m : short[k] = IF k = i THEN SubSeq(rows[i], 1, n) ELSE rows[k]
    BY <1>1 DEF ShortRows
  <1> HIDE DEF rows, short, h
  <1>4. /\ DOMAIN lines = 1 .. m + 1 /\ lines[1] = h /\ \A k \in 1 .. m : lines[k + 1] = rows[k]
        /\ DOMAIN cut = 1 .. m + 1 /\ cut[1] = h /\ \A k \in 1 .. m : cut[k + 1] = short[k]
        /\ lines = [k \in 1 .. m + 1 |-> lines[k]] /\ cut = [k \in 1 .. m + 1 |-> cut[k]]
    <2>1. /\ DOMAIN lines = 1 .. m + 1 /\ lines[1] = h /\ \A k \in 1 .. m : lines[k + 1] = rows[k]
          /\ lines = [k \in 1 .. m + 1 |-> lines[k]]
      BY <1>2, HeadedDomain
    <2>2. /\ DOMAIN cut = 1 .. m + 1 /\ cut[1] = h /\ \A k \in 1 .. m : cut[k + 1] = short[k]
          /\ cut = [k \in 1 .. m + 1 |-> cut[k]]
      BY <1>2, HeadedDomain
    <2> HIDE DEF lines, cut
    <2> QED
      BY <2>1, <2>2
  <1> HIDE DEF lines, cut
  <1>5. \A k \in 1 .. m + 1 : cut[k] = IF k = i + 1 THEN SubSeq(lines[i + 1], 1, n) ELSE lines[k]
    <2> TAKE k \in 1 .. m + 1
    <2>1. k = 1 \/ (k - 1 \in 1 .. m /\ k = (k - 1) + 1)
      OBVIOUS
    <2>2. i \in 1 .. m /\ i + 1 # 1 /\ (k = i + 1 <=> k - 1 = i)
      BY <1>1
    <2>3. CASE k = 1
      BY <1>4, <2>2, <2>3
    <2>4. CASE k - 1 \in 1 .. m /\ k = (k - 1) + 1
      <3>1. cut[k] = short[k - 1] /\ lines[k] = rows[k - 1] /\ lines[i + 1] = rows[i]
        BY <1>4, <2>2, <2>4
      <3> QED
        BY <1>3, <2>2, <2>4, <3>1
    <2> QED
      BY <2>1, <2>3, <2>4
  <1>6. cut = [lines EXCEPT ![i + 1] = SubSeq(@, 1, n)]
    BY <1>4, <1>5
  <1>7. Export(Blank) = Commas(lines)
    BY ExportFile DEF lines, h, rows
  <1>8. Cut(i, n) = Commas([lines EXCEPT ![i + 1] = SubSeq(@, 1, n)])
    <2> DEFINE file == Commas(lines)
               new == [lines EXCEPT ![i + 1] = SubSeq(lines[i + 1], 1, n)]
    <2>1. file = [delimiter |-> "comma", sniffed |-> "comma", lines |-> lines] /\ file.lines = lines
      BY DEF Commas
    <2> HIDE DEF file
    <2>2. Cut(i, n) =
            [file EXCEPT !.lines = [file.lines EXCEPT ![i + 1] = SubSeq(file.lines[i + 1], 1, n)]]
      BY <1>7 DEF Cut, file
    <2>3. Cut(i, n) = [file EXCEPT !.lines = new]
      BY <2>1, <2>2
    <2> HIDE DEF new
    <2>4. Cut(i, n) = [delimiter |-> "comma", sniffed |-> "comma", lines |-> new]
      BY <2>1, <2>3
    <2> QED
      BY <2>4 DEF new, Commas
  <1>9. Cut(i, n) = Commas(cut)
    BY <1>6, <1>8
  <1> QED
    BY <1>9 DEF cut, h, short

\* A row of the backup that ends after its side is read as what is left of its trade.
LEMMA ShortRowIsRead ==
  ASSUME NEW t \in Closed, NEW n \in 3 .. 14, NEW row, row = SubSeq(ExportRow(t, Blank), 1, n)
  PROVE  GenericTrade(ExportMap, row) = CutTrade(t, n)
PROOF
  <1>1. PICK full : full = ExportRow(t, Blank)
    OBVIOUS
  <1>2. /\ full = [c \in 1 .. 15 |-> full[c]] /\ full[1] = Moment(t.at) /\ full[2] = Name(t)
        /\ full[3] = Type(t) /\ full[4] = Number(t.entry) /\ full[5] = Number(t.exit)
        /\ full[6] = Number(t.qty) /\ full[7] = Number(t.pnl) /\ full[11] = Number(t.fees)
    BY <1>1, ExportRowCells
  <1>3. Len(row) = n /\ \A c \in 1 .. n : row[c] = full[c]
    BY <1>1, <1>2, CutCells, n \in 1 .. 14
  <1>4. /\ CellAt(row, 1) = Moment(t.at) /\ CellAt(row, 2) = Name(t) /\ CellAt(row, 3) = Type(t)
        /\ CellAt(row, 4) = (IF n >= 4 THEN Number(t.entry) ELSE Missing)
        /\ CellAt(row, 5) = (IF n >= 5 THEN Number(t.exit) ELSE Missing)
        /\ CellAt(row, 6) = (IF n >= 6 THEN Number(t.qty) ELSE Missing)
        /\ CellAt(row, 7) = (IF n >= 7 THEN Number(t.pnl) ELSE Missing)
        /\ CellAt(row, 11) = (IF n >= 11 THEN Number(t.fees) ELSE Missing)
    <2>1. \A c \in 1 .. 15 : CellAt(row, c) = IF n >= c THEN full[c] ELSE Missing
      BY <1>3 DEF CellAt
    <2> QED
      BY <1>2, <2>1
  <1>5. /\ DOMAIN ExportMap = Fields /\ ExportMap["timestamp"] = 1 /\ ExportMap["symbol"] = 2
        /\ ExportMap["side"] = 3 /\ ExportMap["entry_price"] = 4 /\ ExportMap["exit_price"] = 5
        /\ ExportMap["quantity"] = 6 /\ ExportMap["pnl"] = 7 /\ ExportMap["fees"] = 11
    BY ExportColumns DEF ExportMap
  <1>6. /\ {"timestamp", "symbol", "side", "entry_price", "exit_price", "quantity", "pnl", "fees"}
             \subseteq Fields
        /\ "time" \notin Fields
    BY DEF Fields
  <1>7. Blank.kind = "blank" /\ Float(Missing) = 0
    BY DEF Blank, Missing, Float, Cell
  <1>8. Stamp(Moment(t.at)) = t.at /\ t.at # NoTime
    BY CellFacts, TradeCells DEF NoTime
  <1>9. "missing" \notin {Type(t).kind, Name(t).kind}
    BY TradeCells
  <1>10. /\ Float(CellAt(row, 4)) = (IF n >= 4 THEN t.entry ELSE 0)
         /\ Float(CellAt(row, 5)) = (IF n >= 5 THEN t.exit ELSE 0)
         /\ Float(CellAt(row, 6)) = (IF n >= 6 THEN t.qty ELSE 0)
         /\ Float(CellAt(row, 7)) = (IF n >= 7 THEN t.pnl ELSE 0)
         /\ Float(CellAt(row, 11)) = (IF n >= 11 THEN t.fees ELSE 0)
    BY <1>4, <1>7, CellFacts
  <1>11. GenericTrade(ExportMap, row) =
           [at |-> t.at, side |-> Direction(Type(t).s), symbol |-> Name(t).s,
            entry |-> Float(CellAt(row, 4)), exit |-> Float(CellAt(row, 5)),
            qty |-> Float(CellAt(row, 6)), pnl |-> Float(CellAt(row, 7)),
            fees |-> Float(CellAt(row, 11))]
    BY <1>4, <1>5, <1>6, <1>7, <1>8, <1>9 DEF GenericTrade
  <1>12. CutTrade(t, n) =
           [at |-> t.at, side |-> t.side, symbol |-> t.symbol,
            entry |-> IF n >= 4 THEN t.entry ELSE 0, exit |-> IF n >= 5 THEN t.exit ELSE 0,
            qty |-> IF n >= 6 THEN t.qty ELSE 0, pnl |-> IF n >= 7 THEN t.pnl ELSE 0,
            fees |-> IF n >= 11 THEN t.fees ELSE 0]
    <2>1. PICK e, x, q, p, f :
             /\ e = (IF n >= 4 THEN t.entry ELSE 0) /\ x = (IF n >= 5 THEN t.exit ELSE 0)
             /\ q = (IF n >= 6 THEN t.qty ELSE 0) /\ p = (IF n >= 7 THEN t.pnl ELSE 0)
             /\ f = (IF n >= 11 THEN t.fees ELSE 0)
      OBVIOUS
    <2>2. PICK at, symbol, side, entry, exit, qty, pnl, fees :
             t = [at |-> at, symbol |-> symbol, side |-> side, entry |-> entry, exit |-> exit,
                  qty |-> qty, pnl |-> pnl, fees |-> fees]
      BY TradeCells
    <2>3. CutTrade(t, n) =
            [t EXCEPT !.entry = e, !.exit = x, !.qty = q, !.pnl = p, !.fees = f]
      BY <2>1, <2>2 DEF CutTrade
    <2>4. CutTrade(t, n) =
            [at |-> t.at, side |-> t.side, symbol |-> t.symbol, entry |-> e, exit |-> x,
             qty |-> q, pnl |-> p, fees |-> f]
      BY <2>2, <2>3
    <2> QED
      BY <2>1, <2>4
  <1> QED
    BY <1>10, <1>11, <1>12, TradeCells

\* So is the file: the other rows are read as they were.
LEMMA CutIsRead ==
  ASSUME closed \in Seq(Closed), NEW i \in DOMAIN closed, NEW n \in 3 .. 14
  PROVE  ParseCsv(Cut(i, n), "auto") = [closed EXCEPT ![i] = CutTrade(@, n)]
PROOF
  <1> DEFINE h == Header(ExportNames)
             rows == ShortRows(i, n)
             lines == <<h>> \o rows
             verdicts == [k \in DOMAIN rows |-> GenericTrade(ExportMap, rows[k])]
             read == [closed EXCEPT ![i] = CutTrade(closed[i], n)]
  <1>1. PICK m \in Nat : m = Len(closed) /\ DOMAIN closed = 1 .. m /\ m >= 1
    OBVIOUS
  <1>2. \A k \in 1 .. m : closed[k] \in Closed
    BY <1>1
  <1>3. /\ rows = [k \in 1 .. m |-> rows[k]]
        /\ \A k \in 1 .. m : rows[k] = IF k = i THEN SubSeq(ExportRow(closed[i], Blank), 1, n)
                                                ELSE ExportRow(closed[k], Blank)
    BY <1>1 DEF ShortRows, ExportRows
  <1> HIDE DEF rows
  <1>4. ASSUME NEW k \in 1 .. m
        PROVE  /\ Len(rows[k]) \in 3 .. 15 /\ DOMAIN rows[k] = 1 .. Len(rows[k])
               /\ rows[k][1] = Moment(closed[k].at) /\ rows[k][2].kind = "ticker"
               /\ \A c \in DOMAIN rows[k] : rows[k][c].s \notin Marks
    <2>1. PICK t \in Closed : t = closed[k]
      BY <1>2
    <2>2. PICK row : row = rows[k]
      OBVIOUS
    <2>3. row = ExportRow(t, Blank) \/ row = SubSeq(ExportRow(t, Blank), 1, n)
      BY <1>3, <2>1, <2>2
    <2>4. /\ Len(row) \in 3 .. 15 /\ DOMAIN row = 1 .. Len(row) /\ row[1] = Moment(t.at)
          /\ row[2].kind = "ticker" /\ \A c \in DOMAIN row : row[c].s \notin Marks
      BY <2>3, BackupRow
    <2> QED
      BY <2>1, <2>2, <2>4
  <1>5. DetectFormat(lines) = "generic"
    BY <1>3, <1>4, ExportWords, UnmarkedFile, 15 \in Nat
  <1>6. lines # <<>> /\ Generic(lines) = GenericRows(SmartMap(h, rows), rows)
    BY <1>1, <1>3, ExportWords, ReadUnderHeader, 15 \in Nat, 15 >= 2
  <1>7. SmartMap(h, rows) = ExportMap
    <2>1. 1 \in 1 .. m /\ closed[1].at \in Nat
      BY <1>1, <1>2, TradeCells
    <2>2. Len(rows[1]) \in Nat /\ Len(rows[1]) >= 2
      BY <1>4, <2>1
    <2> QED
      BY <1>4, <2>1, <2>2, ExportMapIs
  <1>8. Generic(lines) = Outcome(verdicts)
    <2>1. "crash" \notin DOMAIN ExportMap /\ "timestamp" \in DOMAIN ExportMap
      BY ExportColumns DEF ExportMap, Fields
    <2> QED
      BY <1>6, <1>7, <2>1 DEF GenericRows
  <1>9. verdicts = [k \in 1 .. m |-> verdicts[k]]
        /\ \A k \in 1 .. m : verdicts[k] = GenericTrade(ExportMap, rows[k])
    BY <1>3
  <1> HIDE DEF verdicts
  <1>10. ASSUME NEW k \in 1 .. m
         PROVE  /\ verdicts[k] = IF k = i THEN CutTrade(closed[k], n) ELSE closed[k]
                /\ verdicts[k] # NoTrade /\ verdicts[k] # Crash
    <2>1. CASE k = i
      <3>1. verdicts[k] = CutTrade(closed[k], n)
        BY <1>2, <1>3, <1>9, <2>1, ShortRowIsRead
      <3>2. "at" \in DOMAIN CutTrade(closed[k], n)
        BY <1>2, ClosedAssumption DEF CutTrade
      <3> QED
        BY <2>1, <3>1, <3>2, TradesAreTrades
    <2>2. CASE k # i
      <3>1. verdicts[k] = closed[k]
        BY <1>2, <1>3, <1>9, <2>2, ExportTradeIsRead
      <3>2. "at" \in DOMAIN closed[k]
        BY <1>2, ClosedAssumption
      <3> QED
        BY <2>2, <3>1, <3>2, TradesAreTrades
    <2> QED
      BY <2>1, <2>2
  <1>11. verdicts = read
    BY <1>1, <1>9, <1>10
  <1>12. Generic(lines) = read
    <2>1. Outcome(verdicts) = verdicts
      BY <1>1, <1>9, <1>10, AllRead
    <2> QED
      BY <1>8, <1>11, <2>1
  <1>13. read # <<>>
    BY <1>1
  <1>14. Cut(i, n) = Commas(lines)
    BY CutFile DEF rows
  <1>15. Parsed(Commas(lines), DetectFormat(lines), "comma") = read
    BY <1>5, <1>6, <1>12, ParsedAs
  <1> HIDE DEF lines, read
  <1>16. ParseCsv(Cut(i, n), "auto") = read
    BY <1>6, <1>13, <1>14, <1>15, FirstTry
  <1> QED
    BY <1>16 DEF read

-----------------------------------------------------------------------------
(* Statements.                                                             *)

\* A table with a ticket and no other mark is taken for a statement.
LEMMA TicketTable ==
  ASSUME closed \in Seq(Closed),
         NEW n \in Nat, NEW names, DOMAIN names = 1 .. n, names[1] = "ticket", n >= 1,
         \A d \in 1 .. n : names[d] \notin {"trade_date", "tradingsymbol"},
         NEW rows, rows = [i \in DOMAIN closed |-> rows[i]],
         \A i \in DOMAIN closed : \A c \in DOMAIN rows[i] : rows[i][c].s \notin Marks
  PROVE  DetectFormat(<<Header(names)>> \o rows) = "mt4"
PROOF
  <1>1. PICK m \in Nat : DOMAIN closed = 1 .. m
    OBVIOUS
  <1>2. rows = [i \in 1 .. m |-> rows[i]]
    BY <1>1
  <1>3. \A i \in 1 .. m : \A c \in DOMAIN rows[i] :
           rows[i][c].s \notin {"trade_date", "tradingsymbol"}
    BY <1>1, MarkWords
  <1>4. \E d \in 1 .. n : names[d] = "ticket"
    BY 1 \in 1 .. n
  <1> QED
    BY <1>2, <1>3, <1>4, TicketFile, SMTT(60)

\* A file the statement's parser reads every row of.
LEMMA StatementIsRead ==
  ASSUME closed \in Seq(Closed), closed # <<>>,
         NEW lines, lines # <<>>, DetectFormat(lines) = "mt4", NEW h, lines[1] = h,
         NEW rows, Tail(lines) = rows, DOMAIN rows = DOMAIN closed, ~Ragged(h, rows),
         \A i \in DOMAIN closed : StatementTrade(h, rows[i]) = closed[i]
  PROVE  ParseCsv(Commas(lines), "auto") = closed
PROOF
  <1> DEFINE verdicts == [i \in DOMAIN rows |-> StatementTrade(h, rows[i])]
  <1>1. Mt4(lines) = Outcome(verdicts)
    BY DEF Mt4
  <1>2. verdicts = [i \in DOMAIN closed |-> verdicts[i]]
        /\ \A i \in DOMAIN closed : verdicts[i] = closed[i]
    OBVIOUS
  <1> HIDE DEF verdicts
  <1>3. Mt4(lines) = closed
    BY <1>1, <1>2, RowsAreRead
  <1>4. Parsed(Commas(lines), DetectFormat(lines), "comma") = closed
    BY <1>3, ParsedAs
  <1> QED
    BY <1>4, FirstTry

\* Every column of a statement is first looked for under one name.
LEMMA ColumnLists ==
  ASSUME NEW x \in {"type", "date", "clock", "moment", "symbol", "size", "open", "close",
                    "commission", "swap", "profit"}
  PROVE  LET list == StatementColumns[x] IN
         1 \in DOMAIN list /\ \A i \in DOMAIN list : i \in Nat /\ i >= 1
PROOF
  <1>1. \E a, b, c : StatementColumns[x] \in {<<a>>, <<a, b>>, <<a, b, c>>}
    <2>1. StatementColumns["type"] = <<"type", "direction">>
      BY Zenon DEF StatementColumns
    <2>2. StatementColumns["date"] = <<"open date", "opened">>
      BY Zenon DEF StatementColumns
    <2>3. StatementColumns["clock"] = <<"open time">>
      BY Zenon DEF StatementColumns
    <2>4. StatementColumns["moment"] = <<"open time", "opentime">>
      BY Zenon DEF StatementColumns
    <2>5. StatementColumns["symbol"] = <<"symbol", "item", "instrument">>
      BY Zenon DEF StatementColumns
    <2>6. StatementColumns["size"] = <<"size", "volume">>
      BY Zenon DEF StatementColumns
    <2>7. StatementColumns["open"] = <<"open price", "openprice", "open">>
      BY Zenon DEF StatementColumns
    <2>8. StatementColumns["close"] = <<"close price", "closeprice", "close">>
      BY Zenon DEF StatementColumns
    <2>9. StatementColumns["commission"] = <<"commission", "comm">>
      BY Zenon DEF StatementColumns
    <2>10. StatementColumns["swap"] = <<"swap">> /\ StatementColumns["profit"] = <<"profit">>
      BY Zenon DEF StatementColumns
    <2>11. CASE x \in {"type", "date", "clock", "moment"}
      BY <2>1, <2>2, <2>3, <2>4, <2>11, Zenon
    <2>12. CASE x \in {"symbol", "size"}
      BY <2>5, <2>6, <2>12, Zenon
    <2>13. CASE x \in {"open", "close"}
      BY <2>7, <2>8, <2>13, Zenon
    <2>14. CASE x \in {"commission", "swap", "profit"}
      BY <2>9, <2>10, <2>14, Zenon
    <2> QED
      BY <2>11, <2>12, <2>13, <2>14, Zenon
  <1>2. \A a, b, c : \A list \in {<<a>>, <<a, b>>, <<a, b, c>>} :
           1 \in DOMAIN list /\ \A i \in DOMAIN list : i \in Nat /\ i >= 1
    OBVIOUS
  <1> QED
    BY <1>1, <1>2, Zenon

\* The names of a statement, those with a blank in them unspelt.
LEMMA StatementWords ==
  \E a, b, c, d :
     /\ StatementNames = <<"ticket", a, b, "type", "size", "symbol", c, d, "commission", "swap",
                           "profit">>
     /\ a # b /\ a # c /\ a # d /\ b # c /\ b # d /\ c # d
     /\ {a, b, c, d} \cap {"ticket", "type", "size", "symbol", "commission", "swap", "profit",
                           "trade_date", "tradingsymbol"} = {}
     /\ StatementColumns["type"][1] = "type" /\ StatementColumns["moment"][1] = a
     /\ StatementColumns["symbol"][1] = "symbol" /\ StatementColumns["size"][1] = "size"
     /\ StatementColumns["open"][1] = c /\ StatementColumns["close"][1] = d
     /\ StatementColumns["commission"][1] = "commission" /\ StatementColumns["swap"][1] = "swap"
     /\ StatementColumns["profit"][1] = "profit"
     /\ OwnDates \cap {"ticket", a, b, "type", "size", "symbol", c, d, "commission", "swap",
                       "profit"} = {}
PROOF
  <1> DEFINE a == "open time"
             b == "close time"
             c == "open price"
             d == "close price"
  <1>1. StatementNames = <<"ticket", a, b, "type", "size", "symbol", c, d, "commission", "swap",
                           "profit">>
    BY Zenon DEF StatementNames
  <1>2. a # b /\ a # c /\ a # d /\ b # c /\ b # d /\ c # d
    BY Zenon
  <1>3. {a, b, c, d} \cap {"ticket", "type", "size", "symbol", "commission", "swap", "profit",
                           "trade_date", "tradingsymbol"} = {}
    BY Zenon
  <1>4. /\ StatementColumns["type"][1] = "type" /\ StatementColumns["moment"][1] = a
        /\ StatementColumns["symbol"][1] = "symbol" /\ StatementColumns["size"][1] = "size"
        /\ StatementColumns["open"][1] = c
    BY Zenon DEF StatementColumns
  <1>5. /\ StatementColumns["close"][1] = d
        /\ StatementColumns["commission"][1] = "commission" /\ StatementColumns["swap"][1] = "swap"
        /\ StatementColumns["profit"][1] = "profit"
    BY Zenon DEF StatementColumns
  <1>6. OwnDates \cap {"ticket", a, b, "type", "size", "symbol", c, d, "commission", "swap",
                       "profit"} = {}
    BY Zenon DEF OwnDates
  <1> HIDE DEF a, b, c, d
  <1> WITNESS a, b, c, d
  <1> QED
    BY <1>1, <1>2, <1>3, <1>4, <1>5, <1>6

\* The columns of a MetaTrader statement.
LEMMA StatementFields ==
  ASSUME NEW row, NEW default
  PROVE  LET Get(x) == Field(Header(StatementNames), row, StatementColumns[x], default) IN
         /\ Get("type") = row[4] /\ Get("moment") = row[2] /\ Get("symbol") = row[6]
         /\ Get("size") = row[5] /\ Get("open") = row[7] /\ Get("close") = row[8]
         /\ Get("commission") = row[9] /\ Get("swap") = row[10] /\ Get("profit") = row[11]
PROOF
  <1> DEFINE names == StatementNames
             Get == [x \in {"type", "moment", "symbol", "size", "open", "close", "commission",
                            "swap", "profit"} |->
                       Field(Header(names), row, StatementColumns[x], default)]
  <1>1. PICK a, b, c, d :
          /\ names = <<"ticket", a, b, "type", "size", "symbol", c, d, "commission", "swap",
                       "profit">>
          /\ a # b /\ a # c /\ a # d /\ b # c /\ b # d /\ c # d
          /\ {a, b, c, d} \cap {"ticket", "type", "size", "symbol", "commission", "swap",
                                "profit", "trade_date", "tradingsymbol"} = {}
          /\ StatementColumns["type"][1] = "type" /\ StatementColumns["moment"][1] = a
          /\ StatementColumns["symbol"][1] = "symbol" /\ StatementColumns["size"][1] = "size"
          /\ StatementColumns["open"][1] = c /\ StatementColumns["close"][1] = d
          /\ StatementColumns["commission"][1] = "commission" /\ StatementColumns["swap"][1] = "swap"
          /\ StatementColumns["profit"][1] = "profit"
    BY StatementWords
  <1> HIDE DEF names
  <1>2. /\ DOMAIN names = 1 .. 11
        /\ names[1] = "ticket" /\ names[2] = a /\ names[3] = b /\ names[4] = "type"
        /\ names[5] = "size" /\ names[6] = "symbol" /\ names[7] = c /\ names[8] = d
        /\ names[9] = "commission" /\ names[10] = "swap" /\ names[11] = "profit"
    BY <1>1
  <1>3. /\ a \notin {"ticket", "type", "size", "symbol", "commission", "swap", "profit"}
        /\ b \notin {"ticket", "type", "size", "symbol", "commission", "swap", "profit"}
        /\ c \notin {"ticket", "type", "size", "symbol", "commission", "swap", "profit"}
        /\ d \notin {"ticket", "type", "size", "symbol", "commission", "swap", "profit"}
    BY <1>1
  <1>4. ASSUME NEW x \in {"type", "date", "clock", "moment", "symbol", "size", "open", "close",
                          "commission", "swap", "profit"},
               NEW k \in 1 .. 11, StatementColumns[x][1] = names[k],
               \A e \in 1 .. 11 : names[e] = names[k] => e = k
        PROVE  Field(Header(names), row, StatementColumns[x], default) = row[k]
    <2> DEFINE list == StatementColumns[x]
    <2>1. 1 \in DOMAIN list /\ \A i \in DOMAIN list : i \in Nat /\ i >= 1
      BY ColumnLists
    <2> HIDE DEF list
    <2>2. k \in DOMAIN names /\ list[1] = names[k]
          /\ \A e \in DOMAIN names : names[e] = names[k] => e = k
      BY <1>2, <1>4 DEF list
    <2>3. Field(Header(names), row, list, default) = row[k]
      BY <2>1, <2>2, FieldIs
    <2> QED
      BY <2>3 DEF list
  <1>5. \A k \in {2, 4, 5, 6, 7, 8, 9, 10, 11} : \A e \in 1 .. 11 : names[e] = names[k] => e = k
    <2>1. /\ \A e \in 1 .. 11 : names[e] = names[2] => e = 2
          /\ \A e \in 1 .. 11 : names[e] = names[7] => e = 7
          /\ \A e \in 1 .. 11 : names[e] = names[8] => e = 8
      BY <1>1, <1>2, <1>3
    <2>2. /\ \A e \in 1 .. 11 : names[e] = names[4] => e = 4
          /\ \A e \in 1 .. 11 : names[e] = names[5] => e = 5
          /\ \A e \in 1 .. 11 : names[e] = names[6] => e = 6
      BY <1>2, <1>3
    <2>3. /\ \A e \in 1 .. 11 : names[e] = names[9] => e = 9
          /\ \A e \in 1 .. 11 : names[e] = names[10] => e = 10
          /\ \A e \in 1 .. 11 : names[e] = names[11] => e = 11
      BY <1>2, <1>3
    <2> QED
      BY <2>1, <2>2, <2>3
  <1>6. /\ Get["type"] = row[4] /\ Get["moment"] = row[2] /\ Get["symbol"] = row[6]
        /\ Get["size"] = row[5] /\ Get["open"] = row[7] /\ Get["close"] = row[8]
        /\ Get["commission"] = row[9] /\ Get["swap"] = row[10] /\ Get["profit"] = row[11]
    BY <1>1, <1>2, <1>4, <1>5
  <1> QED
    BY <1>6 DEF names

\* The cells of a row of a statement.
LEMMA StatementRowCells ==
  ASSUME NEW t \in Closed
  PROVE  LET row == StatementRow(t) IN
         /\ Len(row) = 11 /\ DOMAIN row = 1 .. 11
         /\ row[1] = Number(1) /\ row[2] = Moment(t.at) /\ row[3] = Moment(t.at + 1)
         /\ row[4] = Type(t) /\ row[5] = Number(t.qty) /\ row[6] = Name(t)
         /\ row[7] = Number(t.entry) /\ row[8] = Number(t.exit) /\ row[9] = Number(-t.fees)
         /\ row[10] = Number(0) /\ row[11] = Number(t.pnl + t.fees)
         /\ \A c \in 1 .. 11 : row[c].s \notin Marks
PROOF
  <1> DEFINE row == StatementRow(t)
  <1>1. /\ row[1] = Number(1) /\ row[2] = Moment(t.at) /\ row[3] = Moment(t.at + 1)
        /\ row[4] = Type(t) /\ row[5] = Number(t.qty) /\ row[6] = Name(t)
        /\ row[7] = Number(t.entry) /\ row[8] = Number(t.exit) /\ row[9] = Number(-t.fees)
        /\ row[10] = Number(0) /\ row[11] = Number(t.pnl + t.fees)
    BY DEF StatementRow
  <1>2. DOMAIN row = 1 .. 11 /\ Len(row) = 11
    BY DEF StatementRow
  <1>3. \A k : Moment(k).s = Blank.s /\ Number(k).s = Blank.s
    BY DEF Moment, Number, Blank, Cell
  <1>4. Name(t).s = t.symbol /\ Type(t).s = t.side
    BY TradeCells
  <1> DEFINE s == [d \in 1 .. 11 |-> row[d].s]
  <1>5. /\ s[1] = Blank.s /\ s[2] = Blank.s /\ s[3] = Blank.s /\ s[4] = t.side /\ s[5] = Blank.s
        /\ s[6] = t.symbol /\ s[7] = Blank.s /\ s[8] = Blank.s /\ s[9] = Blank.s
        /\ s[10] = Blank.s /\ s[11] = Blank.s
    <2> HIDE DEF row
    <2> QED
      BY <1>1, <1>3, <1>4
  <1>6. \A c \in 1 .. 11 : s[c] = row[c].s
    OBVIOUS
  <1> HIDE DEF s
  <1>7. \A c \in 1 .. 11 : s[c] \in {Blank.s, t.symbol, t.side}
    BY <1>5
  <1>8. \A c \in 1 .. 11 : row[c].s \notin Marks
    <2> HIDE DEF row
    <2> QED
      BY <1>6, <1>7, PlainWords
  <1> QED
    BY <1>1, <1>2, <1>8

\* The profit of a statement is before the commission: net of it, it is the trade's.
LEMMA StatementTradeIsRead ==
  ASSUME NEW t \in Closed
  PROVE  StatementTrade(Header(StatementNames), StatementRow(t)) = t
PROOF
  <1> DEFINE h == Header(StatementNames)
             row == StatementRow(t)
             Get == [x \in DOMAIN StatementColumns |-> Field(h, row, StatementColumns[x], Blank)]
             symbol == Field(h, row, StatementColumns["symbol"], Ticker("UNKNOWN", 0))
             size == Field(h, row, StatementColumns["size"], Number(1))
  <1>1. \A name \in OwnDates : Word(name) \notin ToSet(h)
    <2>1. PICK a, b, c, d :
             /\ StatementNames = <<"ticket", a, b, "type", "size", "symbol", c, d, "commission",
                                   "swap", "profit">>
             /\ OwnDates \cap {"ticket", a, b, "type", "size", "symbol", c, d, "commission",
                               "swap", "profit"} = {}
      BY StatementWords
    <2>2. \A k \in DOMAIN StatementNames : StatementNames[k] \notin OwnDates
      BY <2>1
    <2>3. \A x, y : Word(x) = Word(y) => x = y
      BY DEF Word, Cell
    <2>4. DOMAIN h = DOMAIN StatementNames /\ \A k \in DOMAIN h : h[k] = Word(StatementNames[k])
      BY DEF Header
    <2> HIDE DEF h
    <2> QED
      BY <2>2, <2>3, <2>4 DEF ToSet
  <1>2. /\ Get["type"] = Type(t) /\ Get["moment"] = Moment(t.at)
        /\ Get["open"] = Number(t.entry) /\ Get["close"] = Number(t.exit)
        /\ Get["commission"] = Number(-t.fees) /\ Get["swap"] = Number(0)
        /\ Get["profit"] = Number(t.pnl + t.fees)
    <2>1. {"type", "moment", "open", "close", "commission", "swap", "profit"}
             \subseteq DOMAIN StatementColumns
      BY Zenon DEF StatementColumns
    <2> QED
      BY <2>1, StatementFields, StatementRowCells
  <1>3. symbol = Name(t) /\ size = Number(t.qty)
    BY StatementFields, StatementRowCells
  <1>4. /\ Type(t).s = t.side /\ Name(t).s = t.symbol /\ t.side \in {"BUY", "SELL"}
        /\ t.at \in Nat /\ t.fees \in Nat /\ t.pnl \in Int
    BY TradeCells
  <1>5. /\ Stamp(Moment(t.at)) = t.at /\ t.at # NoTime
        /\ Float(Number(t.entry)) = t.entry /\ Float(Number(t.exit)) = t.exit
        /\ Float(Number(-t.fees)) = -t.fees /\ Float(Number(0)) = 0
        /\ Float(Number(t.pnl + t.fees)) = t.pnl + t.fees /\ Float(Number(t.qty)) = t.qty
    BY <1>4, CellFacts DEF NoTime
  <1>6. t.pnl + t.fees + (-t.fees) + 0 = t.pnl /\ Abs(-t.fees) + Abs(0) = t.fees
    BY <1>4 DEF Abs
  <1>7. StatementTrade(h, row) =
          [at |-> t.at, side |-> t.side, symbol |-> t.symbol, entry |-> t.entry, exit |-> t.exit,
           qty |-> t.qty, pnl |-> t.pnl, fees |-> t.fees]
    <2> DEFINE cost == <<Float(Get["commission"]), Float(Get["swap"])>>
               ts == Stamp(Get["moment"])
    <2>1. ts = t.at /\ cost[1] = -t.fees /\ cost[2] = 0
      BY <1>2, <1>5
    <2>2. Get["type"].s = t.side /\ symbol.s = t.symbol /\ Float(size) = t.qty
          /\ Float(Get["profit"]) = t.pnl + t.fees
          /\ Float(Get["open"]) = t.entry /\ Float(Get["close"]) = t.exit
      BY <1>2, <1>3, <1>4, <1>5
    <2>3. StatementTrade(h, row) =
            IF Get["type"].s \notin {"BUY", "SELL"} \/ ts = NoTime THEN NoTrade
            ELSE [at |-> ts, side |-> Get["type"].s, symbol |-> symbol.s,
                  entry |-> Float(Get["open"]), exit |-> Float(Get["close"]),
                  qty |-> Float(size),
                  pnl |-> Float(Get["profit"]) + cost[1] + cost[2],
                  fees |-> Abs(cost[1]) + Abs(cost[2])]
      <3>1. \A x \in {"type", "date", "clock", "moment", "open", "close", "commission", "swap",
                      "profit"} : Get[x] = Field(h, row, StatementColumns[x], Blank)
        <4>1. {"type", "date", "clock", "moment", "open", "close", "commission", "swap", "profit"}
                 \subseteq DOMAIN StatementColumns
          BY Zenon DEF StatementColumns
        <4> QED
          BY <4>1
      <3> HIDE DEF h, row, Get
      <3> QED
        BY <1>1, <3>1 DEF StatementTrade
    <2> HIDE DEF Get, symbol, size, ts, cost, h, row
    <2> QED
      BY <1>4, <1>5, <1>6, <2>1, <2>2, <2>3
  <1> QED
    BY <1>7, TradeCells

StatementRows == [i \in DOMAIN closed |-> StatementRow(closed[i])]
\* A MetaTrader statement is read as the trades it lists.
LEMMA StatementRestored ==
  ASSUME closed \in Seq(Closed), closed # <<>>
  PROVE  ParseCsv(Statement, "auto") = closed
PROOF
  <1> DEFINE rows == StatementRows
             names == StatementNames
  <1>1. DOMAIN names = 1 .. 11 /\ names[1] = "ticket"
        /\ \A d \in 1 .. 11 : names[d] \notin {"trade_date", "tradingsymbol"}
    <2>1. PICK a, b, c, d :
             /\ names = <<"ticket", a, b, "type", "size", "symbol", c, d, "commission", "swap",
                          "profit">>
             /\ {a, b, c, d} \cap {"ticket", "type", "size", "symbol", "commission", "swap",
                                   "profit", "trade_date", "tradingsymbol"} = {}
      BY StatementWords
    <2> HIDE DEF names
    <2>2. /\ DOMAIN names = 1 .. 11
          /\ names[1] = "ticket" /\ names[2] = a /\ names[3] = b /\ names[4] = "type"
          /\ names[5] = "size" /\ names[6] = "symbol" /\ names[7] = c /\ names[8] = d
          /\ names[9] = "commission" /\ names[10] = "swap" /\ names[11] = "profit"
      BY <2>1
    <2>3. \A word \in {a, b, c, d} : word \notin {"trade_date", "tradingsymbol"}
      BY <2>1
    <2> QED
      BY <2>2, <2>3
  <1>2. Statement = Commas(<<Header(names)>> \o rows)
    BY DEF Statement, Table, Rows, StatementRows
  <1>3. rows = [i \in DOMAIN closed |-> rows[i]]
        /\ \A i \in DOMAIN closed : rows[i] = StatementRow(closed[i]) /\ closed[i] \in Closed
    BY DEF StatementRows
  <1>4. \A i \in DOMAIN closed :
           /\ Len(rows[i]) = 11 /\ StatementTrade(Header(names), rows[i]) = closed[i]
           /\ \A c \in DOMAIN rows[i] : rows[i][c].s \notin Marks
    <2> TAKE i \in DOMAIN closed
    <2>1. PICK t \in Closed : t = closed[i] /\ rows[i] = StatementRow(t)
      BY <1>3
    <2>2. /\ Len(rows[i]) = 11 /\ DOMAIN rows[i] = 1 .. 11
          /\ \A c \in 1 .. 11 : rows[i][c].s \notin Marks
      BY <2>1, StatementRowCells
    <2>3. StatementTrade(Header(names), rows[i]) = closed[i]
      BY <2>1, StatementTradeIsRead
    <2> QED
      BY <2>2, <2>3
  <1> HIDE DEF rows, names
  <1>5. DetectFormat(<<Header(names)>> \o rows) = "mt4"
    BY <1>1, <1>3, <1>4, TicketTable, 11 \in Nat, 11 >= 1
  <1> QED
    <2> DEFINE h == Header(names)
               lines == <<h>> \o rows
    <2>1. PICK m \in Nat : DOMAIN closed = 1 .. m
      OBVIOUS
    <2>2. rows = [i \in 1 .. m |-> rows[i]] /\ DOMAIN rows = DOMAIN closed
      BY <1>3, <2>1
    <2>3. lines[1] = h /\ Tail(lines) = rows /\ lines # <<>>
      BY <2>1, <2>2, Headed
    <2>4. ~Ragged(h, rows)
      <3>1. Len(h) = 11
        BY <1>1, HeaderWords, 11 \in Nat
      <3> HIDE DEF h
      <3> QED
        BY <1>4, <2>2, <3>1 DEF Ragged
    <2>5. DetectFormat(lines) = "mt4"
      BY <1>5
    <2>6. \A i \in DOMAIN closed : StatementTrade(h, rows[i]) = closed[i]
      BY <1>4
    <2>7. Statement = Commas(lines)
      BY <1>2
    <2> HIDE DEF lines, h
    <2>8. ParseCsv(Commas(lines), "auto") = closed
      BY <2>2, <2>3, <2>4, <2>5, <2>6, StatementIsRead
    <2> QED
      BY <2>7, <2>8

-----------------------------------------------------------------------------
(* Date and time in columns of their own.                                  *)

\* No cell of a trade tells a format.
LEMMA PlainCells ==
  ASSUME NEW t \in Closed
  PROVE  /\ Name(t).s \notin Marks /\ Type(t).s \notin Marks /\ DayCell(t).s \notin Marks
         /\ HourCell(t).s \notin Marks /\ Number(t.entry).s \notin Marks
         /\ Number(t.exit).s \notin Marks /\ Number(t.pnl).s \notin Marks
         /\ Number(1).s \notin Marks /\ Moment(t.at).s \notin Marks
PROOF
  <1>1. \A k : Moment(k).s = Blank.s /\ Number(k).s = Blank.s
    BY DEF Moment, Number, Blank, Cell
  <1> QED
    BY <1>1, TradeCells, MarkWords

\* A table that is no broker's, of which every row is read as its trade.
LEMMA TableIsRead ==
  ASSUME closed \in Seq(Closed), closed # <<>>,
         NEW lines, lines # <<>>, DetectFormat(lines) = "generic", NEW map, NEW rows,
         Generic(lines) = GenericRows(map, rows), DOMAIN rows = DOMAIN closed,
         "crash" \notin DOMAIN map, "timestamp" \in DOMAIN map,
         \A i \in DOMAIN closed : GenericTrade(map, rows[i]) = closed[i]
  PROVE  ParseCsv(Commas(lines), "auto") = closed
PROOF
  <1>1. Generic(lines) = closed
    BY RowsUnderMap
  <1>2. Parsed(Commas(lines), DetectFormat(lines), "comma") = closed
    BY <1>1, ParsedAs
  <1> QED
    BY <1>2, FirstTry

\* Names with a date of its own are no broker's, ticket or trade date apart.
LEMMA DatedTable ==
  ASSUME NEW n \in Nat, NEW names, DOMAIN names = 1 .. n,
         \A d \in 1 .. n : names[d] \notin {"trade_date", "tradingsymbol", "ticket"},
         \E d \in 1 .. n : names[d] \in OwnDates,
         NEW m \in Nat, NEW rows, rows = [i \in 1 .. m |-> rows[i]],
         \A i \in 1 .. m : \A c \in DOMAIN rows[i] : rows[i][c].s \notin Marks
  PROVE  DetectFormat(<<Header(names)>> \o rows) = "generic"
PROOF
  <1> DEFINE lines == <<Header(names)>> \o rows
  <1>1. DOMAIN Header(names) = 1 .. n /\ \A d \in 1 .. n : Header(names)[d].s = names[d]
    BY HeaderWords
  <1>2. ASSUME NEW words, words \subseteq Marks, \A d \in 1 .. n : names[d] \notin words
        PROVE  ~Mentions(lines, words)
    <2>1. Mentions(lines, words) <=>
            \/ \E c \in DOMAIN Header(names) : Header(names)[c].s \in words
            \/ \E i \in 1 .. m : \E c \in DOMAIN rows[i] : rows[i][c].s \in words
      BY TableMentions
    <2> QED
      BY <1>1, <1>2, <2>1
  <1>3. Mentions(lines, OwnDates)
    BY <1>1, TableMentions
  <1> HIDE DEF lines
  <1>4. /\ ~Mentions(lines, {"trade_date", "tradingsymbol"}) /\ ~Mentions(lines, {"ticket"})
    BY <1>2, MarkWords
  <1> QED
    BY <1>3, <1>4, DetectedFrom DEF lines

\* A file with a date column is not taken for a statement by its names.
LEMMA SplitWords ==
  /\ DOMAIN SplitNames = 1 .. 7
  /\ \A d \in 1 .. 7 : SplitNames[d] \notin {"trade_date", "tradingsymbol", "ticket"}
  /\ \E d \in 1 .. 7 : SplitNames[d] \in OwnDates
PROOF
  <1>1. PICK a, b : /\ SplitNames = <<"symbol", "side", a, b, "entry", "exit", "profit">>
                    /\ {a, b} \cap {"trade_date", "tradingsymbol", "ticket"} = {}
                    /\ a \in OwnDates
    <2> DEFINE a == "open date"
               b == "open time"
    <2>1. SplitNames = <<"symbol", "side", a, b, "entry", "exit", "profit">>
      BY Zenon DEF SplitNames
    <2>2. {a, b} \cap {"trade_date", "tradingsymbol", "ticket"} = {} /\ a \in OwnDates
      BY Zenon DEF OwnDates
    <2> HIDE DEF a, b
    <2> WITNESS a, b
    <2> QED
      BY <2>1, <2>2
  <1>2. /\ SplitNames[1] = "symbol" /\ SplitNames[2] = "side" /\ SplitNames[3] = a
        /\ SplitNames[4] = b /\ SplitNames[5] = "entry" /\ SplitNames[6] = "exit"
        /\ SplitNames[7] = "profit" /\ DOMAIN SplitNames = 1 .. 7
    BY <1>1
  <1>3. \A word \in {a, b} : word \notin {"trade_date", "tradingsymbol", "ticket"}
    BY <1>1
  <1> QED
    BY <1>1, <1>2, <1>3

\* The names of the second file with a date and a time tell no format.
LEMMA TimesWords ==
  DOMAIN TimesNames = 1 .. 7 /\ \A d \in 1 .. 7 : TimesNames[d] \notin Marks
PROOF
  <1>1. /\ DOMAIN TimesNames = 1 .. 7
        /\ TimesNames[1] = "session" /\ TimesNames[2] = "time" /\ TimesNames[3] = "symbol"
        /\ TimesNames[4] = "side" /\ TimesNames[5] = "entry" /\ TimesNames[6] = "exit"
        /\ TimesNames[7] = "pnl"
    BY DEF TimesNames
  <1> DEFINE Names == {"session", "time", "symbol", "side", "entry", "exit", "pnl"}
  <1>2. \A d \in 1 .. 7 : TimesNames[d] \in Names
    BY <1>1
  <1>3. \A name \in Names : name \notin Marks
    BY Zenon DEF Marks, OwnTimes, OwnDates
  <1> HIDE DEF Names
  <1> QED
    BY <1>1, <1>2, <1>3

\* The cells of a row with the date and the time apart.
LEMMA SplitRowCells ==
  ASSUME NEW t \in Closed, NEW row, row = SplitRow(t)
  PROVE  /\ Len(row) = 7 /\ DOMAIN row = 1 .. 7
         /\ row[1] = Name(t) /\ row[2] = Type(t) /\ row[3] = DayCell(t) /\ row[4] = HourCell(t)
         /\ row[5] = Number(t.entry) /\ row[6] = Number(t.exit) /\ row[7] = Number(t.pnl)
         /\ \A c \in DOMAIN row : row[c].s \notin Marks
PROOF
  <1>1. /\ Len(row) = 7 /\ DOMAIN row = 1 .. 7
        /\ row[1] = Name(t) /\ row[2] = Type(t) /\ row[3] = DayCell(t) /\ row[4] = HourCell(t)
        /\ row[5] = Number(t.entry) /\ row[6] = Number(t.exit) /\ row[7] = Number(t.pnl)
    BY DEF SplitRow
  <1>2. PICK word : word = [c \in 1 .. 7 |-> row[c].s]
    OBVIOUS
  <1>3. /\ word[1] = Name(t).s /\ word[2] = Type(t).s /\ word[3] = DayCell(t).s
        /\ word[4] = HourCell(t).s /\ word[5] = Number(t.entry).s /\ word[6] = Number(t.exit).s
        /\ word[7] = Number(t.pnl).s
    BY <1>1, <1>2
  <1>4. \A c \in 1 .. 7 : word[c] \notin Marks
    BY <1>3, PlainCells
  <1> QED
    BY <1>1, <1>2, <1>4

\* The cells of a row that starts with the date and the time.
LEMMA TimesRowCells ==
  ASSUME NEW t \in Closed, NEW row, row = TimesRow(t)
  PROVE  /\ Len(row) = 7 /\ DOMAIN row = 1 .. 7
         /\ row[1] = DayCell(t) /\ row[2] = HourCell(t) /\ row[3] = Name(t) /\ row[4] = Type(t)
         /\ row[5] = Number(t.entry) /\ row[6] = Number(t.exit) /\ row[7] = Number(t.pnl)
         /\ \A c \in DOMAIN row : row[c].s \notin Marks
PROOF
  <1>1. /\ Len(row) = 7 /\ DOMAIN row = 1 .. 7
        /\ row[1] = DayCell(t) /\ row[2] = HourCell(t) /\ row[3] = Name(t) /\ row[4] = Type(t)
        /\ row[5] = Number(t.entry) /\ row[6] = Number(t.exit) /\ row[7] = Number(t.pnl)
    BY DEF TimesRow
  <1>2. PICK word : word = [c \in 1 .. 7 |-> row[c].s]
    OBVIOUS
  <1>3. /\ word[1] = DayCell(t).s /\ word[2] = HourCell(t).s /\ word[3] = Name(t).s
        /\ word[4] = Type(t).s /\ word[5] = Number(t.entry).s /\ word[6] = Number(t.exit).s
        /\ word[7] = Number(t.pnl).s
    BY <1>1, <1>2
  <1>4. \A c \in 1 .. 7 : word[c] \notin Marks
    BY <1>3, PlainCells
  <1> QED
    BY <1>1, <1>2, <1>4

TimedFields == {"timestamp", "symbol", "side", "entry_price", "exit_price", "pnl", "time"}

\* The column after the date's is its time.
LEMMA SplitMapIs ==
  ASSUME NEW t \in Closed, NEW rows, rows[1] = SplitRow(t)
  PROVE  LET map == SmartMap(Header(SplitNames), rows) IN
         /\ DOMAIN map = TimedFields
         /\ map["timestamp"] = 3 /\ map["time"] = 4 /\ map["symbol"] = 1 /\ map["side"] = 2
         /\ map["entry_price"] = 5 /\ map["exit_price"] = 6 /\ map["pnl"] = 7
PROOF
  <1> DEFINE h == Header(SplitNames)
             named == ColumnMap(h)
             first == rows[1]
             map == Put(named, "time", 4)
  <1>1. /\ DOMAIN named = {"timestamp", "symbol", "side", "entry_price", "exit_price", "pnl"}
        /\ named["timestamp"] = 3 /\ named["symbol"] = 1 /\ named["side"] = 2
        /\ named["entry_price"] = 5 /\ named["exit_price"] = 6 /\ named["pnl"] = 7
    BY SplitColumns
  <1>2. Len(h) = 7
    BY SplitWords, HeaderWords, 7 \in Nat
  <1>3. Len(first) = 7 /\ first[3] = DayCell(t) /\ first[4] = HourCell(t)
    BY SplitRowCells
  <1>4. CellAt(first, 3) = DayCell(t) /\ CellAt(first, 3 + 1) = HourCell(t)
    <2> HIDE DEF first
    <2> QED
      BY <1>3 DEF CellAt
  <1>5. /\ DayCell(t).kind = "date" /\ HourCell(t).kind = "clock"
        /\ Stamp(DayCell(t)) # NoTime /\ Stamp(DayCell(t)) % 24 = 0
    BY TradeCells, StampOfDay
  <1> HIDE DEF h, first, named
  <1>6. WithTime(named, h, first) = map
    <2>1. "timestamp" \in DOMAIN named /\ named.timestamp = 3 /\ 3 < Len(h) /\ 3 + 1 = 4
      BY <1>1, <1>2
    <2> QED
      BY <1>4, <1>5, <2>1 DEF WithTime
  <1>7. /\ DOMAIN map = TimedFields
        /\ map["timestamp"] = 3 /\ map["time"] = 4 /\ map["symbol"] = 1 /\ map["side"] = 2
        /\ map["entry_price"] = 5 /\ map["exit_price"] = 6 /\ map["pnl"] = 7
    BY <1>1 DEF Put, TimedFields
  <1> HIDE DEF map
  <1>8. SmartMap(h, rows) = map
    <2>1. {"timestamp", "pnl", "symbol"} \subseteq DOMAIN map
      BY <1>7 DEF TimedFields
    <2>2. map = WithTime(ColumnMap(h), h, rows[1])
      BY <1>6 DEF named, first
    <2> QED
      BY <2>1, <2>2, AllFound
  <1> QED
    BY <1>7, <1>8 DEF h

\* The column before a time's is its date.
LEMMA TimesMapIs ==
  ASSUME NEW t \in Closed, NEW rows, rows[1] = TimesRow(t)
  PROVE  LET map == SmartMap(Header(TimesNames), rows) IN
         /\ DOMAIN map = TimedFields
         /\ map["timestamp"] = 1 /\ map["time"] = 2 /\ map["symbol"] = 3 /\ map["side"] = 4
         /\ map["entry_price"] = 5 /\ map["exit_price"] = 6 /\ map["pnl"] = 7
PROOF
  <1> DEFINE h == Header(TimesNames)
             named == ColumnMap(h)
             first == rows[1]
             map == Put(Put(named, "timestamp", 1), "time", 2)
  <1>1. /\ DOMAIN named = {"timestamp", "symbol", "side", "entry_price", "exit_price", "pnl"}
        /\ named["timestamp"] = 2 /\ named["symbol"] = 3 /\ named["side"] = 4
        /\ named["entry_price"] = 5 /\ named["exit_price"] = 6 /\ named["pnl"] = 7
    BY TimesColumns
  <1>3. Len(first) = 7 /\ first[1] = DayCell(t) /\ first[2] = HourCell(t)
    BY TimesRowCells
  <1>4. CellAt(first, 2) = HourCell(t) /\ CellAt(first, 2 - 1) = DayCell(t)
    <2> HIDE DEF first
    <2> QED
      BY <1>3 DEF CellAt
  <1>5. HourCell(t).kind = "clock" /\ Stamp(DayCell(t)) # NoTime
    BY TradeCells, StampOfDay
  <1> HIDE DEF h, first, named
  <1>6. WithTime(named, h, first) = map
    <2>1. "timestamp" \in DOMAIN named /\ named.timestamp = 2 /\ 2 > 1 /\ 2 - 1 = 1
      BY <1>1
    <2> QED
      BY <1>4, <1>5, <2>1 DEF WithTime
  <1>7. /\ DOMAIN map = TimedFields
        /\ map["timestamp"] = 1 /\ map["time"] = 2 /\ map["symbol"] = 3 /\ map["side"] = 4
        /\ map["entry_price"] = 5 /\ map["exit_price"] = 6 /\ map["pnl"] = 7
    BY <1>1 DEF Put, TimedFields
  <1> HIDE DEF map
  <1>8. SmartMap(h, rows) = map
    <2>1. {"timestamp", "pnl", "symbol"} \subseteq DOMAIN map
      BY <1>7 DEF TimedFields
    <2>2. map = WithTime(ColumnMap(h), h, rows[1])
      BY <1>6 DEF named, first
    <2> QED
      BY <2>1, <2>2, AllFound
  <1> QED
    BY <1>7, <1>8 DEF h

\* With its time column such a row is read as its trade.
LEMMA SplitTradeIsRead ==
  ASSUME NEW t \in Closed, Plain(t), NEW map, DOMAIN map = TimedFields,
         map["timestamp"] = 3, map["time"] = 4, map["symbol"] = 1, map["side"] = 2,
         map["entry_price"] = 5, map["exit_price"] = 6, map["pnl"] = 7,
         NEW row, row = SplitRow(t)
  PROVE  GenericTrade(map, row) = t
PROOF
  <1>1. /\ Len(row) = 7
        /\ row[1] = Name(t) /\ row[2] = Type(t) /\ row[3] = DayCell(t) /\ row[4] = HourCell(t)
        /\ row[5] = Number(t.entry) /\ row[6] = Number(t.exit) /\ row[7] = Number(t.pnl)
    BY SplitRowCells
  <1>2. /\ CellAt(row, 1) = Name(t) /\ CellAt(row, 2) = Type(t) /\ CellAt(row, 3) = DayCell(t)
        /\ CellAt(row, 4) = HourCell(t) /\ CellAt(row, 5) = Number(t.entry)
        /\ CellAt(row, 6) = Number(t.exit) /\ CellAt(row, 7) = Number(t.pnl)
    BY <1>1 DEF CellAt
  <1>3. /\ {"timestamp", "symbol", "side", "entry_price", "exit_price", "pnl"} \subseteq DOMAIN map
        /\ "time" \in DOMAIN map /\ "quantity" \notin DOMAIN map /\ "fees" \notin DOMAIN map
    BY DEF TimedFields
  <1>4. t.qty = 1 /\ t.fees = 0
    BY DEF Plain
  <1> QED
    BY <1>2, <1>3, <1>4, TradeIsRead

\* So is a row that starts with them.
LEMMA TimesTradeIsRead ==
  ASSUME NEW t \in Closed, Plain(t), NEW map, DOMAIN map = TimedFields,
         map["timestamp"] = 1, map["time"] = 2, map["symbol"] = 3, map["side"] = 4,
         map["entry_price"] = 5, map["exit_price"] = 6, map["pnl"] = 7,
         NEW row, row = TimesRow(t)
  PROVE  GenericTrade(map, row) = t
PROOF
  <1>1. /\ Len(row) = 7
        /\ row[1] = DayCell(t) /\ row[2] = HourCell(t) /\ row[3] = Name(t) /\ row[4] = Type(t)
        /\ row[5] = Number(t.entry) /\ row[6] = Number(t.exit) /\ row[7] = Number(t.pnl)
    BY TimesRowCells
  <1>2. /\ CellAt(row, 3) = Name(t) /\ CellAt(row, 4) = Type(t) /\ CellAt(row, 1) = DayCell(t)
        /\ CellAt(row, 2) = HourCell(t) /\ CellAt(row, 5) = Number(t.entry)
        /\ CellAt(row, 6) = Number(t.exit) /\ CellAt(row, 7) = Number(t.pnl)
    BY <1>1 DEF CellAt
  <1>3. /\ {"timestamp", "symbol", "side", "entry_price", "exit_price", "pnl"} \subseteq DOMAIN map
        /\ "time" \in DOMAIN map /\ "quantity" \notin DOMAIN map /\ "fees" \notin DOMAIN map
    BY DEF TimedFields
  <1>4. t.qty = 1 /\ t.fees = 0
    BY DEF Plain
  <1> QED
    BY <1>2, <1>3, <1>4, TradeIsRead

SplitRows == [i \in DOMAIN closed |-> SplitRow(closed[i])]
TimesRows == [i \in DOMAIN closed |-> TimesRow(closed[i])]

\* A file with a date column and a time column is read as its trades.
LEMMA SplitRestored ==
  ASSUME closed \in Seq(Closed), closed # <<>>, All(Plain)
  PROVE  ParseCsv(Table(SplitNames, SplitRow), "auto") = closed
PROOF
  <1> DEFINE rows == SplitRows
             h == Header(SplitNames)
             lines == <<h>> \o rows
             map == SmartMap(h, rows)
  <1>1. PICK m \in Nat : DOMAIN closed = 1 .. m /\ m >= 1 /\ 1 \in 1 .. m
    OBVIOUS
  <1>2. \A i \in 1 .. m : closed[i] \in Closed /\ Plain(closed[i])
    BY <1>1 DEF All
  <1>3. rows = [i \in 1 .. m |-> rows[i]] /\ \A i \in 1 .. m : rows[i] = SplitRow(closed[i])
    BY <1>1 DEF SplitRows
  <1>4. Table(SplitNames, SplitRow) = Commas(lines)
    BY DEF Table, Rows, SplitRows
  <1> HIDE DEF rows
  <1>5. DetectFormat(lines) = "generic"
    <2>1. \A i \in 1 .. m : \A c \in DOMAIN rows[i] : rows[i][c].s \notin Marks
      BY <1>2, <1>3, SplitRowCells
    <2> QED
      BY <1>3, <2>1, SplitWords, DatedTable, 7 \in Nat
  <1>6. lines # <<>> /\ Generic(lines) = GenericRows(map, rows)
    BY <1>1, <1>3, SplitWords, ReadUnderHeader, 7 \in Nat, 7 >= 2
  <1>7. /\ DOMAIN map = TimedFields
        /\ map["timestamp"] = 3 /\ map["time"] = 4 /\ map["symbol"] = 1 /\ map["side"] = 2
        /\ map["entry_price"] = 5 /\ map["exit_price"] = 6 /\ map["pnl"] = 7
    BY <1>1, <1>2, <1>3, SplitMapIs
  <1> HIDE DEF map, h, lines
  <1>8. \A i \in DOMAIN closed : GenericTrade(map, rows[i]) = closed[i]
    BY <1>1, <1>2, <1>3, <1>7, SplitTradeIsRead
  <1>9. "crash" \notin DOMAIN map /\ "timestamp" \in DOMAIN map
    BY <1>7 DEF TimedFields
  <1>10. DOMAIN rows = DOMAIN closed
    BY <1>1, <1>3
  <1> QED
    BY <1>4, <1>5, <1>6, <1>8, <1>9, <1>10, TableIsRead

\* So is one with the columns Date and Time in front.
LEMMA TimesRestored ==
  ASSUME closed \in Seq(Closed), closed # <<>>, All(Plain)
  PROVE  ParseCsv(Table(TimesNames, TimesRow), "auto") = closed
PROOF
  <1> DEFINE rows == TimesRows
             h == Header(TimesNames)
             lines == <<h>> \o rows
             map == SmartMap(h, rows)
  <1>1. PICK m \in Nat : DOMAIN closed = 1 .. m /\ m >= 1 /\ 1 \in 1 .. m
    OBVIOUS
  <1>2. \A i \in 1 .. m : closed[i] \in Closed /\ Plain(closed[i])
    BY <1>1 DEF All
  <1>3. rows = [i \in 1 .. m |-> rows[i]] /\ \A i \in 1 .. m : rows[i] = TimesRow(closed[i])
    BY <1>1 DEF TimesRows
  <1>4. Table(TimesNames, TimesRow) = Commas(lines)
    BY DEF Table, Rows, TimesRows
  <1> HIDE DEF rows
  <1>5. DetectFormat(lines) = "generic"
    <2>1. \A i \in 1 .. m : \A c \in DOMAIN rows[i] : rows[i][c].s \notin Marks
      BY <1>2, <1>3, TimesRowCells
    <2> QED
      BY <1>3, <2>1, TimesWords, UnmarkedFile, 7 \in Nat
  <1>6. lines # <<>> /\ Generic(lines) = GenericRows(map, rows)
    BY <1>1, <1>3, TimesWords, ReadUnderHeader, 7 \in Nat, 7 >= 2
  <1>7. /\ DOMAIN map = TimedFields
        /\ map["timestamp"] = 1 /\ map["time"] = 2 /\ map["symbol"] = 3 /\ map["side"] = 4
        /\ map["entry_price"] = 5 /\ map["exit_price"] = 6 /\ map["pnl"] = 7
    BY <1>1, <1>2, <1>3, TimesMapIs
  <1> HIDE DEF map, h, lines
  <1>8. \A i \in DOMAIN closed : GenericTrade(map, rows[i]) = closed[i]
    BY <1>1, <1>2, <1>3, <1>7, TimesTradeIsRead
  <1>9. "crash" \notin DOMAIN map /\ "timestamp" \in DOMAIN map
    BY <1>7 DEF TimedFields
  <1>10. DOMAIN rows = DOMAIN closed
    BY <1>1, <1>3
  <1> QED
    BY <1>4, <1>5, <1>6, <1>8, <1>9, <1>10, TableIsRead

-----------------------------------------------------------------------------
(* A statement with dates that parse with a time only.                     *)

\* The names of a statement with dates apart, written with variables for those with blanks.
LEMMA DottedWords ==
  \E a, b, c, d :
     /\ DottedNames = <<"ticket", "symbol", "type", a, b, c, d, "profit">>
     /\ a # b /\ a # c /\ a # d /\ b # c /\ b # d /\ c # d /\ a \in OwnDates
     /\ {a, b, c, d} \cap {"ticket", "type", "symbol", "profit", "trade_date", "tradingsymbol",
                           "size", "volume", "commission", "comm", "swap"} = {}
     /\ StatementColumns["date"][1] = a /\ StatementColumns["clock"][1] = b
     /\ StatementColumns["open"][1] = c /\ StatementColumns["close"][1] = d
     /\ StatementColumns["type"][1] = "type" /\ StatementColumns["symbol"][1] = "symbol"
     /\ StatementColumns["profit"][1] = "profit"
PROOF
  <1> DEFINE a == "open date"
             b == "open time"
             c == "open price"
             d == "close price"
  <1>1. DottedNames = <<"ticket", "symbol", "type", a, b, c, d, "profit">>
    BY Zenon DEF DottedNames
  <1>2. a # b /\ a # c /\ a # d /\ b # c /\ b # d /\ c # d
    BY Zenon
  <1>3. a \in OwnDates
    BY Zenon DEF OwnDates
  <1>4. {a, b, c, d} \cap {"ticket", "type", "symbol", "profit", "trade_date", "tradingsymbol",
                           "size", "volume", "commission", "comm", "swap"} = {}
    BY Zenon
  <1>5. /\ StatementColumns["date"][1] = a /\ StatementColumns["clock"][1] = b
        /\ StatementColumns["open"][1] = c /\ StatementColumns["close"][1] = d
    BY Zenon DEF StatementColumns
  <1>6. /\ StatementColumns["type"][1] = "type" /\ StatementColumns["symbol"][1] = "symbol"
        /\ StatementColumns["profit"][1] = "profit"
    BY Zenon DEF StatementColumns
  <1> HIDE DEF a, b, c, d
  <1> WITNESS a, b, c, d
  <1> QED
    BY <1>1, <1>2, <1>3, <1>4, <1>5, <1>6

\* Its columns, and the defaults of those it lacks.
LEMMA DottedFields ==
  ASSUME NEW row
  PROVE  LET Get(x, default) == Field(Header(DottedNames), row, StatementColumns[x], default) IN
         /\ \A default : /\ Get("type", default) = row[3] /\ Get("date", default) = row[4]
                         /\ Get("clock", default) = row[5] /\ Get("symbol", default) = row[2]
                         /\ Get("open", default) = row[6] /\ Get("close", default) = row[7]
                         /\ Get("profit", default) = row[8]
         /\ \A default : /\ Get("size", default) = default
                         /\ Get("commission", default) = default
                         /\ Get("swap", default) = default
         /\ \E name \in OwnDates : Word(name) \in ToSet(Header(DottedNames))
         /\ DOMAIN DottedNames = 1 .. 8 /\ DottedNames[1] = "ticket"
         /\ \A e \in 1 .. 8 : DottedNames[e] \notin {"trade_date", "tradingsymbol"}
PROOF
  <1> DEFINE names == DottedNames
             Get(x, default) == Field(Header(names), row, StatementColumns[x], default)
  <1>1. PICK a, b, c, d :
          /\ names = <<"ticket", "symbol", "type", a, b, c, d, "profit">>
          /\ a # b /\ a # c /\ a # d /\ b # c /\ b # d /\ c # d /\ a \in OwnDates
          /\ {a, b, c, d} \cap {"ticket", "type", "symbol", "profit", "trade_date",
                                "tradingsymbol", "size", "volume", "commission", "comm", "swap"} = {}
          /\ StatementColumns["date"][1] = a /\ StatementColumns["clock"][1] = b
          /\ StatementColumns["open"][1] = c /\ StatementColumns["close"][1] = d
          /\ StatementColumns["type"][1] = "type" /\ StatementColumns["symbol"][1] = "symbol"
          /\ StatementColumns["profit"][1] = "profit"
    BY DottedWords
  <1> HIDE DEF names
  <1>2. /\ DOMAIN names = 1 .. 8
        /\ names[1] = "ticket" /\ names[2] = "symbol" /\ names[3] = "type" /\ names[4] = a
        /\ names[5] = b /\ names[6] = c /\ names[7] = d /\ names[8] = "profit"
    BY <1>1
  <1>3. \A word \in {a, b, c, d} :
           word \notin {"ticket", "type", "symbol", "profit", "trade_date", "tradingsymbol",
                        "size", "volume", "commission", "comm", "swap"}
    BY <1>1
  <1>4. ASSUME NEW x \in {"type", "date", "clock", "moment", "symbol", "size", "open", "close",
                          "commission", "swap", "profit"},
               NEW k \in 1 .. 8, StatementColumns[x][1] = names[k],
               \A e \in 1 .. 8 : names[e] = names[k] => e = k, NEW default
        PROVE  Field(Header(names), row, StatementColumns[x], default) = row[k]
    <2> DEFINE list == StatementColumns[x]
    <2>1. 1 \in DOMAIN list /\ \A i \in DOMAIN list : i \in Nat /\ i >= 1
      BY ColumnLists
    <2> HIDE DEF list
    <2>2. k \in DOMAIN names /\ list[1] = names[k]
          /\ \A e \in DOMAIN names : names[e] = names[k] => e = k
      BY <1>2, <1>4 DEF list
    <2>3. Field(Header(names), row, list, default) = row[k]
      BY <2>1, <2>2, FieldIs
    <2> QED
      BY <2>3 DEF list
  <1>5. \A k \in 2 .. 8 : \A e \in 1 .. 8 : names[e] = names[k] => e = k
    <2>1. /\ \A e \in 1 .. 8 : names[e] = names[2] => e = 2
          /\ \A e \in 1 .. 8 : names[e] = names[3] => e = 3
          /\ \A e \in 1 .. 8 : names[e] = names[8] => e = 8
      BY <1>2, <1>3
    <2>2. /\ \A e \in 1 .. 8 : names[e] = names[4] => e = 4
          /\ \A e \in 1 .. 8 : names[e] = names[5] => e = 5
      BY <1>1, <1>2, <1>3
    <2>3. /\ \A e \in 1 .. 8 : names[e] = names[6] => e = 6
          /\ \A e \in 1 .. 8 : names[e] = names[7] => e = 7
      BY <1>1, <1>2, <1>3
    <2> QED
      BY <2>1, <2>2, <2>3
  <1>6. \A default :
          /\ Field(Header(names), row, StatementColumns["type"], default) = row[3]
          /\ Field(Header(names), row, StatementColumns["date"], default) = row[4]
          /\ Field(Header(names), row, StatementColumns["clock"], default) = row[5]
          /\ Field(Header(names), row, StatementColumns["symbol"], default) = row[2]
          /\ Field(Header(names), row, StatementColumns["open"], default) = row[6]
          /\ Field(Header(names), row, StatementColumns["close"], default) = row[7]
          /\ Field(Header(names), row, StatementColumns["profit"], default) = row[8]
    <2> TAKE default
    <2>0. /\ StatementColumns["date"][1] = names[4] /\ StatementColumns["clock"][1] = names[5]
          /\ StatementColumns["open"][1] = names[6] /\ StatementColumns["close"][1] = names[7]
          /\ StatementColumns["type"][1] = names[3] /\ StatementColumns["symbol"][1] = names[2]
          /\ StatementColumns["profit"][1] = names[8]
      BY <1>1, <1>2
    <2>1. Field(Header(names), row, StatementColumns["type"], default) = row[3]
      BY <1>4, <1>5, <2>0, 3 \in 1 .. 8, 3 \in 2 .. 8
    <2>2. Field(Header(names), row, StatementColumns["date"], default) = row[4]
      BY <1>4, <1>5, <2>0, 4 \in 1 .. 8, 4 \in 2 .. 8
    <2>3. Field(Header(names), row, StatementColumns["clock"], default) = row[5]
      BY <1>4, <1>5, <2>0, 5 \in 1 .. 8, 5 \in 2 .. 8
    <2>4. Field(Header(names), row, StatementColumns["symbol"], default) = row[2]
      BY <1>4, <1>5, <2>0, 2 \in 1 .. 8, 2 \in 2 .. 8
    <2>5. Field(Header(names), row, StatementColumns["open"], default) = row[6]
      BY <1>4, <1>5, <2>0, 6 \in 1 .. 8, 6 \in 2 .. 8
    <2>6. Field(Header(names), row, StatementColumns["close"], default) = row[7]
      BY <1>4, <1>5, <2>0, 7 \in 1 .. 8, 7 \in 2 .. 8
    <2>7. Field(Header(names), row, StatementColumns["profit"], default) = row[8]
      BY <1>4, <1>5, <2>0, 8 \in 1 .. 8, 8 \in 2 .. 8
    <2> QED
      BY <2>1, <2>2, <2>3, <2>4, <2>5, <2>6, <2>7
  <1>7. ASSUME NEW x \in {"size", "commission", "swap"}, NEW default
        PROVE  Field(Header(names), row, StatementColumns[x], default) = default
    <2> DEFINE list == StatementColumns[x]
    <2>1. \A i \in DOMAIN list : list[i] \in {"size", "volume", "commission", "comm", "swap"}
      <3>1. /\ StatementColumns["size"] = <<"size", "volume">>
            /\ StatementColumns["commission"] = <<"commission", "comm">>
        BY Zenon DEF StatementColumns
      <3>2. StatementColumns["swap"] = <<"swap">>
        BY Zenon DEF StatementColumns
      <3> QED
        BY <3>1, <3>2
    <2> HIDE DEF list
    <2>2. \A e \in 1 .. 8 : names[e] \notin {"size", "volume", "commission", "comm", "swap"}
      BY <1>2, <1>3
    <2>3. \A i \in DOMAIN list : \A e \in DOMAIN names : names[e] # list[i]
      BY <1>2, <2>1, <2>2
    <2>4. Field(Header(names), row, list, default) = default
      BY <2>3, FieldLacks
    <2> QED
      BY <2>4 DEF list
  <1>8. \E name \in OwnDates : Word(name) \in ToSet(Header(names))
    <2>1. DOMAIN Header(names) = 1 .. 8 /\ Header(names)[4] = Word(a)
      BY <1>2, HeaderWords, 8 \in Nat, 4 \in 1 .. 8
    <2> QED
      BY <1>1, <2>1 DEF ToSet
  <1>9. \A e \in 1 .. 8 : names[e] \notin {"trade_date", "tradingsymbol"}
    BY <1>2, <1>3
  <1>10. \A default :
          /\ Field(Header(names), row, StatementColumns["size"], default) = default
          /\ Field(Header(names), row, StatementColumns["commission"], default) = default
          /\ Field(Header(names), row, StatementColumns["swap"], default) = default
    BY <1>7
  <1> QED
    BY <1>2, <1>6, <1>8, <1>9, <1>10 DEF names

\* The cells of its rows.
LEMMA DottedRowCells ==
  ASSUME NEW t \in Closed, NEW row, row = DottedRow(t)
  PROVE  /\ Len(row) = 8 /\ DOMAIN row = 1 .. 8
         /\ row[2] = Name(t) /\ row[3] = Type(t) /\ row[4] = Dotted(t.at \div 24)
         /\ row[5] = HourCell(t) /\ row[6] = Number(t.entry) /\ row[7] = Number(t.exit)
         /\ row[8] = Number(t.pnl) /\ \A c \in DOMAIN row : row[c].s \notin Marks
PROOF
  <1>1. /\ Len(row) = 8 /\ DOMAIN row = 1 .. 8 /\ row[1] = Number(1)
        /\ row[2] = Name(t) /\ row[3] = Type(t) /\ row[4] = Dotted(t.at \div 24)
        /\ row[5] = HourCell(t) /\ row[6] = Number(t.entry) /\ row[7] = Number(t.exit)
        /\ row[8] = Number(t.pnl)
    BY DEF DottedRow
  <1>2. PICK word : word = [c \in 1 .. 8 |-> row[c].s]
    OBVIOUS
  <1>3. /\ word[1] = Number(1).s /\ word[2] = Name(t).s /\ word[3] = Type(t).s
        /\ word[4] = Dotted(t.at \div 24).s
        /\ word[5] = HourCell(t).s /\ word[6] = Number(t.entry).s /\ word[7] = Number(t.exit).s
        /\ word[8] = Number(t.pnl).s
    BY <1>1, <1>2
  <1>4. Dotted(t.at \div 24).s = Blank.s
    BY DEF Dotted, Blank, Cell
  <1>5. \A c \in 1 .. 8 : word[c] \notin Marks
    BY <1>3, <1>4, PlainCells, MarkWords
  <1> QED
    BY <1>1, <1>2, <1>5

\* A row of it is read as its trade.
LEMMA DottedTradeIsRead ==
  ASSUME NEW t \in Closed, Plain(t)
  PROVE  StatementTrade(Header(DottedNames), DottedRow(t)) = t
PROOF
  <1> DEFINE h == Header(DottedNames)
             row == DottedRow(t)
             Get == [x \in DOMAIN StatementColumns |-> Field(h, row, StatementColumns[x], Blank)]
             symbol == Field(h, row, StatementColumns["symbol"], Ticker("UNKNOWN", 0))
             size == Field(h, row, StatementColumns["size"], Number(1))
             cost == <<Float(Get["commission"]), Float(Get["swap"])>>
             ts == Stamped(Get["date"], Get["clock"])
  <1>1. /\ row[2] = Name(t) /\ row[3] = Type(t) /\ row[4] = Dotted(t.at \div 24)
        /\ row[5] = HourCell(t) /\ row[6] = Number(t.entry) /\ row[7] = Number(t.exit)
        /\ row[8] = Number(t.pnl)
    BY DottedRowCells
  <1>2. \A x \in {"type", "date", "clock", "moment", "open", "close", "commission", "swap",
                  "profit"} : Get[x] = Field(h, row, StatementColumns[x], Blank)
    <2>1. {"type", "date", "clock", "moment", "open", "close", "commission", "swap", "profit"}
             \subseteq DOMAIN StatementColumns
      BY Zenon DEF StatementColumns
    <2> QED
      BY <2>1
  <1>3. /\ Get["type"] = Type(t) /\ Get["date"] = Dotted(t.at \div 24)
        /\ Get["clock"] = HourCell(t)
        /\ Get["open"] = Number(t.entry) /\ Get["close"] = Number(t.exit)
        /\ Get["profit"] = Number(t.pnl) /\ Get["commission"] = Blank /\ Get["swap"] = Blank
        /\ symbol = Name(t) /\ size = Number(1)
    <2> HIDE DEF Get
    <2> QED
      BY <1>1, <1>2, DottedFields
  <1>4. \E name \in OwnDates : Word(name) \in ToSet(h)
    BY DottedFields
  <1>5. /\ Type(t).s = t.side /\ Name(t).s = t.symbol /\ t.side \in {"BUY", "SELL"}
        /\ t.at \in Nat /\ t.pnl \in Int /\ t.at # NoTime /\ t.qty = 1 /\ t.fees = 0
    BY TradeCells DEF Plain, NoTime
  <1>6. /\ Float(Number(t.entry)) = t.entry /\ Float(Number(t.exit)) = t.exit
        /\ Float(Number(t.pnl)) = t.pnl /\ Float(Number(1)) = 1 /\ Float(Blank) = 0
    <2>1. Float(Blank) = 0
      BY DEF Float, Blank, Cell
    <2> QED
      BY <2>1, CellFacts
  <1>7. Stamped(Dotted(t.at \div 24), HourCell(t)) = t.at
    <2>1. /\ Dotted(t.at \div 24).kind = "dotted" /\ Dotted(t.at \div 24).n = 24 * (t.at \div 24)
          /\ Blank.kind = "blank"
      BY DEF Dotted, Blank, Cell
    <2>2. HourCell(t) # Blank /\ Dotted(t.at \div 24) # Blank
      BY <2>1, StampOfDay
    <2>3. Stamped(Dotted(t.at \div 24), HourCell(t)) = 24 * (t.at \div 24) + (t.at % 24)
      BY <2>1, <2>2, TradeCells DEF Stamped
    <2> QED
      BY <1>5, <2>3, HoursOfDay
  <1>8. /\ ts = t.at /\ cost[1] = 0 /\ cost[2] = 0 /\ Get["type"].s = t.side
        /\ symbol.s = t.symbol /\ Float(size) = 1 /\ Float(Get["profit"]) = t.pnl
        /\ Float(Get["open"]) = t.entry /\ Float(Get["close"]) = t.exit
    <2> HIDE DEF Get, symbol, size
    <2> QED
      BY <1>3, <1>5, <1>6, <1>7
  <1>9. t.pnl + 0 + 0 = t.pnl /\ Abs(0) + Abs(0) = 0
    BY <1>5 DEF Abs
  <1>10. StatementTrade(h, row) =
            IF Get["type"].s \notin {"BUY", "SELL"} \/ ts = NoTime THEN NoTrade
            ELSE [at |-> ts, side |-> Get["type"].s, symbol |-> symbol.s,
                  entry |-> Float(Get["open"]), exit |-> Float(Get["close"]),
                  qty |-> Float(size),
                  pnl |-> Float(Get["profit"]) + cost[1] + cost[2],
                  fees |-> Abs(cost[1]) + Abs(cost[2])]
    <2> HIDE DEF h, row, Get
    <2> QED
      BY <1>2, <1>4 DEF StatementTrade
  <1>11. StatementTrade(h, row) =
          [at |-> t.at, side |-> t.side, symbol |-> t.symbol, entry |-> t.entry, exit |-> t.exit,
           qty |-> t.qty, pnl |-> t.pnl, fees |-> t.fees]
    <2> HIDE DEF Get, symbol, size, ts, cost, h, row
    <2> QED
      BY <1>5, <1>8, <1>9, <1>10
  <1> QED
    BY <1>11, TradeCells

DottedRows == [i \in DOMAIN closed |-> DottedRow(closed[i])]
\* A statement with dates and times apart is read as its trades.
LEMMA DottedRestored ==
  ASSUME closed \in Seq(Closed), closed # <<>>, All(Plain)
  PROVE  ParseCsv(Table(DottedNames, DottedRow), "auto") = closed
PROOF
  <1> DEFINE rows == DottedRows
             h == Header(DottedNames)
             lines == <<h>> \o rows
  <1>1. PICK m \in Nat : DOMAIN closed = 1 .. m /\ m >= 1 /\ 1 \in 1 .. m
    OBVIOUS
  <1>2. \A i \in 1 .. m : closed[i] \in Closed /\ Plain(closed[i])
    BY <1>1 DEF All
  <1>3. rows = [i \in 1 .. m |-> rows[i]] /\ \A i \in 1 .. m : rows[i] = DottedRow(closed[i])
    BY <1>1 DEF DottedRows
  <1>4. Table(DottedNames, DottedRow) = Commas(lines)
    BY DEF Table, Rows, DottedRows
  <1> HIDE DEF rows
  <1>5. /\ DOMAIN DottedNames = 1 .. 8 /\ DottedNames[1] = "ticket"
        /\ \A e \in 1 .. 8 : DottedNames[e] \notin {"trade_date", "tradingsymbol"}
    BY DottedFields
  <1>6. \A i \in 1 .. m : Len(rows[i]) = 8 /\ \A c \in DOMAIN rows[i] : rows[i][c].s \notin Marks
    BY <1>2, <1>3, DottedRowCells
  <1>7. DetectFormat(lines) = "mt4"
    <2>1. rows = [i \in DOMAIN closed |-> rows[i]]
          /\ \A i \in DOMAIN closed : \A c \in DOMAIN rows[i] : rows[i][c].s \notin Marks
      BY <1>1, <1>3, <1>6
    <2> QED
      BY <1>5, <2>1, TicketTable, 8 \in Nat, 8 >= 1
  <1>8. lines[1] = h /\ Tail(lines) = rows /\ lines # <<>>
    BY <1>3, Headed
  <1>9. DOMAIN rows = DOMAIN closed
    BY <1>1, <1>3
  <1>10. ~Ragged(h, rows)
    <2>1. Len(h) = 8
      BY <1>5, HeaderWords, 8 \in Nat
    <2> HIDE DEF h
    <2> QED
      BY <1>1, <1>6, <1>9, <2>1 DEF Ragged
  <1>11. \A i \in DOMAIN closed : StatementTrade(h, rows[i]) = closed[i]
    BY <1>1, <1>2, <1>3, DottedTradeIsRead
  <1> HIDE DEF lines, h
  <1>12. ParseCsv(Commas(lines), "auto") = closed
    BY <1>7, <1>8, <1>9, <1>10, <1>11, StatementIsRead
  <1> QED
    BY <1>4, <1>12

-----------------------------------------------------------------------------
(* Columns no name is known of.                                            *)

\* Names nobody listed tell no format.
LEMMA StrangeWords ==
  DOMAIN StrangeNames = 1 .. 6 /\ \A d \in 1 .. 6 : StrangeNames[d] \notin Marks
PROOF
  <1>1. PICK a : StrangeNames = <<"side", "entry", "exit", a, "what", "result">> /\ a \notin Marks
    <2> DEFINE a == "opened at"
    <2>1. StrangeNames = <<"side", "entry", "exit", a, "what", "result">>
      BY Zenon DEF StrangeNames
    <2>2. a \notin Marks
      BY Zenon DEF Marks, OwnTimes, OwnDates
    <2> HIDE DEF a
    <2> WITNESS a
    <2> QED
      BY <2>1, <2>2
  <1>2. \A word \in {"side", "entry", "exit", "what", "result"} : word \notin Marks
    BY Zenon DEF Marks, OwnTimes, OwnDates
  <1>3. /\ DOMAIN StrangeNames = 1 .. 6
        /\ StrangeNames[1] = "side" /\ StrangeNames[2] = "entry" /\ StrangeNames[3] = "exit"
        /\ StrangeNames[4] = a /\ StrangeNames[5] = "what" /\ StrangeNames[6] = "result"
    BY <1>1
  <1> QED
    BY <1>1, <1>2, <1>3

\* The cells of a row under such names.
LEMMA StrangeRowCells ==
  ASSUME NEW t \in Closed, NEW row, row = StrangeRow(t)
  PROVE  /\ Len(row) = 6 /\ DOMAIN row = 1 .. 6
         /\ CellAt(row, 1) = Type(t) /\ CellAt(row, 2) = Number(t.entry)
         /\ CellAt(row, 3) = Number(t.exit) /\ CellAt(row, 4) = Moment(t.at)
         /\ CellAt(row, 5) = Name(t) /\ CellAt(row, 6) = Number(t.pnl)
         /\ \A c \in DOMAIN row : row[c].s \notin Marks
PROOF
  <1>1. /\ Len(row) = 6 /\ DOMAIN row = 1 .. 6
        /\ row[1] = Type(t) /\ row[2] = Number(t.entry) /\ row[3] = Number(t.exit)
        /\ row[4] = Moment(t.at) /\ row[5] = Name(t) /\ row[6] = Number(t.pnl)
    BY DEF StrangeRow
  <1>2. PICK word : word = [c \in 1 .. 6 |-> row[c].s]
    OBVIOUS
  <1>3. /\ word[1] = Type(t).s /\ word[2] = Number(t.entry).s /\ word[3] = Number(t.exit).s
        /\ word[4] = Moment(t.at).s /\ word[5] = Name(t).s /\ word[6] = Number(t.pnl).s
    BY <1>1, <1>2
  <1>4. \A c \in 1 .. 6 : word[c] \notin Marks
    BY <1>3, PlainCells
  <1>5. /\ CellAt(row, 1) = Type(t) /\ CellAt(row, 2) = Number(t.entry)
        /\ CellAt(row, 3) = Number(t.exit) /\ CellAt(row, 4) = Moment(t.at)
        /\ CellAt(row, 5) = Name(t) /\ CellAt(row, 6) = Number(t.pnl)
    BY <1>1 DEF CellAt
  <1> QED
    BY <1>1, <1>2, <1>4, <1>5

\* Each search has one column left to find: the dates, then the numbers, then the words.
StrangeMap == Put(Put(Put(ColumnMap(Header(StrangeNames)), "timestamp", 4), "pnl", 6), "symbol", 5)
\* Three rows are enough to find the time, the profit and the symbol by their contents.
LEMMA StrangeMapIs ==
  ASSUME NEW m \in Nat, m >= 3, NEW rows, Len(rows) = m,
         \A i \in 1 .. m : \E t \in Closed : rows[i] = StrangeRow(t)
  PROVE  SmartMap(Header(StrangeNames), rows) = StrangeMap
PROOF
  <1> DEFINE h == Header(StrangeNames)
             named == ColumnMap(h)
             dated == Put(named, "timestamp", 4)
             paid == Put(dated, "pnl", 6)
  <1>1. /\ DOMAIN named = {"side", "entry_price", "exit_price"}
        /\ named["side"] = 1 /\ named["entry_price"] = 2 /\ named["exit_price"] = 3
    BY StrangeColumns
  <1>2. DOMAIN h = 1 .. 6
    BY StrangeWords, HeaderWords, 6 \in Nat
  <1>3. ASSUME NEW i \in 1 .. m
        PROVE  /\ CellAt(rows[i], 1).kind = "ticker" /\ CellAt(rows[i], 2).kind = "number"
               /\ CellAt(rows[i], 3).kind = "number" /\ CellAt(rows[i], 4).kind = "moment"
               /\ CellAt(rows[i], 5).kind = "ticker" /\ CellAt(rows[i], 6).kind = "number"
    <2>1. PICK t \in Closed : rows[i] = StrangeRow(t)
      OBVIOUS
    <2>2. /\ CellAt(rows[i], 1) = Type(t) /\ CellAt(rows[i], 2) = Number(t.entry)
          /\ CellAt(rows[i], 3) = Number(t.exit) /\ CellAt(rows[i], 4) = Moment(t.at)
          /\ CellAt(rows[i], 5) = Name(t) /\ CellAt(rows[i], 6) = Number(t.pnl)
      BY <2>1, StrangeRowCells
    <2>3. \A k : Moment(k).kind = "moment" /\ Number(k).kind = "number"
      BY DEF Moment, Number, Cell
    <2>4. Name(t).kind = "ticker" /\ Type(t).kind = "ticker"
      BY TradeCells
    <2> QED
      BY <2>2, <2>3, <2>4
  <1> HIDE DEF named, h
  <1>4. WithTime(named, h, rows[1]) = named
    BY <1>1 DEF WithTime
  <1>5. ScanDate(named, h, rows) = dated
    <2>1. \A i \in 1 .. m : \A d \in 1 .. 6 : d < 4 =>
             CellAt(rows[i], d).kind \notin {"missing", "date", "moment"}
      <3> TAKE i \in 1 .. m
      <3>1. CellAt(rows[i], 1).kind = "ticker" /\ CellAt(rows[i], 2).kind = "number"
            /\ CellAt(rows[i], 3).kind = "number"
        BY <1>3
      <3>2. \A d \in 1 .. 6 : d < 4 => d = 1 \/ d = 2 \/ d = 3
        OBVIOUS
      <3> QED
        BY <3>1, <3>2
    <2>2. "timestamp" \notin DOMAIN named /\ Len(rows) \in Nat /\ Len(rows) >= 3
      BY <1>1
    <2>3. \A i \in 1 .. Len(rows) :
             /\ CellAt(rows[i], 4).kind = "moment"
             /\ \A d \in 1 .. 6 : d < 4 => CellAt(rows[i], d).kind \notin {"missing", "date", "moment"}
      BY <1>3, <2>1
    <2>4. Dated(named, h, rows, 4, 6)
      BY <1>2, <2>2, <2>3 DEF Dated
    <2> QED
      BY <2>4, DateFound
  <1>6. /\ DOMAIN dated = {"side", "entry_price", "exit_price", "timestamp"}
        /\ dated["side"] = 1 /\ dated["entry_price"] = 2 /\ dated["exit_price"] = 3
        /\ dated["timestamp"] = 4
    BY <1>1 DEF Put
  <1> HIDE DEF dated
  <1>7. Scan(dated, "pnl", {"number", "money"}, h, rows) = paid
    <2>1. DOMAIN h \ {dated[x] : x \in DOMAIN dated} = {5, 6}
      BY <1>2, <1>6
    <2>2. Alone(dated, "pnl", {"number", "money"}, h, rows, 6)
      BY <1>3, <1>6, <2>1 DEF Alone
    <2> QED
      BY <2>2, ScanFinds
  <1>8. /\ DOMAIN paid = {"side", "entry_price", "exit_price", "timestamp", "pnl"}
        /\ paid["side"] = 1 /\ paid["entry_price"] = 2 /\ paid["exit_price"] = 3
        /\ paid["timestamp"] = 4 /\ paid["pnl"] = 6
    BY <1>6 DEF Put
  <1> HIDE DEF paid
  <1>9. Scan(paid, "symbol", {"word", "ticker"}, h, rows) = Put(paid, "symbol", 5)
    <2>1. DOMAIN h \ {paid[x] : x \in DOMAIN paid} = {5}
      BY <1>2, <1>8
    <2>2. Alone(paid, "symbol", {"word", "ticker"}, h, rows, 5)
      BY <1>3, <1>8, <2>1 DEF Alone
    <2> QED
      BY <2>2, ScanFinds
  <1>10. SmartMap(h, rows) = Put(paid, "symbol", 5)
    BY <1>4, <1>5, <1>7, <1>9 DEF SmartMap, named
  <1> QED
    BY <1>10 DEF StrangeMap, paid, dated, named, h

\* The map found that way.
LEMMA StrangeMapFields ==
  /\ DOMAIN StrangeMap = {"side", "entry_price", "exit_price", "timestamp", "pnl", "symbol"}
  /\ StrangeMap["side"] = 1 /\ StrangeMap["entry_price"] = 2 /\ StrangeMap["exit_price"] = 3
  /\ StrangeMap["timestamp"] = 4 /\ StrangeMap["pnl"] = 6 /\ StrangeMap["symbol"] = 5
PROOF
  <1> DEFINE named == ColumnMap(Header(StrangeNames))
  <1>1. /\ DOMAIN named = {"side", "entry_price", "exit_price"}
        /\ named["side"] = 1 /\ named["entry_price"] = 2 /\ named["exit_price"] = 3
    BY StrangeColumns
  <1>2. StrangeMap = Put(Put(Put(named, "timestamp", 4), "pnl", 6), "symbol", 5)
    BY DEF StrangeMap
  <1> HIDE DEF named
  <1> QED
    BY <1>1, <1>2 DEF Put

\* Under that map a row is read as its trade.
LEMMA StrangeTradeIsRead ==
  ASSUME NEW t \in Closed, Plain(t)
  PROVE  GenericTrade(StrangeMap, StrangeRow(t)) = t
PROOF
  <1>1. PICK row : row = StrangeRow(t)
    OBVIOUS
  <1>2. /\ CellAt(row, 1) = Type(t) /\ CellAt(row, 2) = Number(t.entry)
        /\ CellAt(row, 3) = Number(t.exit) /\ CellAt(row, 4) = Moment(t.at)
        /\ CellAt(row, 5) = Name(t) /\ CellAt(row, 6) = Number(t.pnl)
    BY <1>1, StrangeRowCells
  <1>3. /\ {"timestamp", "symbol", "side", "entry_price", "exit_price", "pnl"}
              \subseteq DOMAIN StrangeMap
        /\ "time" \notin DOMAIN StrangeMap /\ "quantity" \notin DOMAIN StrangeMap
        /\ "fees" \notin DOMAIN StrangeMap
    BY StrangeMapFields
  <1>4. t.qty = 1 /\ t.fees = 0
    BY DEF Plain
  <1>5. GenericTrade(StrangeMap, row) = t
    BY <1>2, <1>3, <1>4, StrangeMapFields, TradeIsRead
  <1> QED
    BY <1>1, <1>5

StrangeRows == [i \in DOMAIN closed |-> StrangeRow(closed[i])]
\* A file of three rows or more under names nobody listed is read as its trades.
LEMMA StrangeRestored ==
  ASSUME closed \in Seq(Closed), All(Plain), Len(closed) >= 3
  PROVE  ParseCsv(Table(StrangeNames, StrangeRow), "auto") = closed
PROOF
  <1> DEFINE rows == StrangeRows
             h == Header(StrangeNames)
             lines == <<h>> \o rows
  <1>1. PICK m \in Nat : DOMAIN closed = 1 .. m /\ m >= 3
    OBVIOUS
  <1>2. \A i \in 1 .. m : closed[i] \in Closed /\ Plain(closed[i])
    BY <1>1 DEF All
  <1>3. rows = [i \in 1 .. m |-> rows[i]] /\ \A i \in 1 .. m : rows[i] = StrangeRow(closed[i])
    BY <1>1 DEF StrangeRows
  <1>4. Table(StrangeNames, StrangeRow) = Commas(lines)
    BY DEF Table, Rows, StrangeRows
  <1>5. Len(rows) = m
    <2> HIDE DEF rows
    <2>1. rows \in Seq({rows[i] : i \in 1 .. m}) /\ DOMAIN rows = 1 .. m
      BY <1>3, SeqDef
    <2> QED
      BY <2>1, LenProperties
  <1> HIDE DEF rows
  <1>6. DetectFormat(lines) = "generic"
    <2>1. \A i \in 1 .. m : \A c \in DOMAIN rows[i] : rows[i][c].s \notin Marks
      BY <1>2, <1>3, StrangeRowCells
    <2> QED
      BY <1>3, <2>1, StrangeWords, UnmarkedFile, 6 \in Nat
  <1>7. lines # <<>> /\ Generic(lines) = GenericRows(SmartMap(h, rows), rows)
    BY <1>1, <1>3, StrangeWords, ReadUnderHeader, 6 \in Nat, 6 >= 2, m >= 1
  <1>8. SmartMap(h, rows) = StrangeMap
    BY <1>1, <1>2, <1>3, <1>5, StrangeMapIs
  <1>9. \A i \in DOMAIN closed : GenericTrade(StrangeMap, rows[i]) = closed[i]
    BY <1>1, <1>2, <1>3, StrangeTradeIsRead
  <1>10. "crash" \notin DOMAIN StrangeMap /\ "timestamp" \in DOMAIN StrangeMap
    BY StrangeMapFields
  <1>11. DOMAIN rows = DOMAIN closed /\ closed # <<>>
    BY <1>1, <1>3
  <1> HIDE DEF lines
  <1> QED
    BY <1>4, <1>6, <1>7, <1>8, <1>9, <1>10, <1>11, TableIsRead

-----------------------------------------------------------------------------
(* Files without a header.                                                 *)

\* A name is one of one field only.
Owner(name) ==
    IF name \in {"date", "timestamp", "trade_date", "open_date", "close_date", "open_time",
                 "close_time", "time"} THEN "timestamp"
    ELSE IF name \in {"symbol", "ticker", "tradingsymbol"} THEN "symbol"
    ELSE IF name \in {"side", "type", "trade_type"} THEN "side"
    ELSE IF name \in {"entry_price", "entry", "open_price", "price"} THEN "entry_price"
    ELSE IF name \in {"exit_price", "exit", "close_price"} THEN "exit_price"
    ELSE IF name \in {"quantity", "size", "volume"} THEN "quantity"
    ELSE IF name \in {"pnl", "profit", "amount"} THEN "pnl"
    ELSE IF name \in {"fees", "commission"} THEN "fees" ELSE "none"
\* An alias belongs to one field.
LEMMA Owners == \A x \in Fields : \A i \in DOMAIN Aliases[x] : Owner(Aliases[x][i]) = x
PROOF
  <1>1. \A i \in DOMAIN Aliases["timestamp"] : Owner(Aliases["timestamp"][i]) = "timestamp"
    BY DEF Owner, Aliases
  <1>2. \A i \in DOMAIN Aliases["symbol"] : Owner(Aliases["symbol"][i]) = "symbol"
    BY DEF Owner, Aliases
  <1>3. \A i \in DOMAIN Aliases["side"] : Owner(Aliases["side"][i]) = "side"
    BY DEF Owner, Aliases
  <1>4. \A i \in DOMAIN Aliases["entry_price"] : Owner(Aliases["entry_price"][i]) = "entry_price"
    BY DEF Owner, Aliases
  <1>5. \A i \in DOMAIN Aliases["exit_price"] : Owner(Aliases["exit_price"][i]) = "exit_price"
    BY DEF Owner, Aliases
  <1>6. \A i \in DOMAIN Aliases["quantity"] : Owner(Aliases["quantity"][i]) = "quantity"
    BY DEF Owner, Aliases
  <1>7. \A i \in DOMAIN Aliases["pnl"] : Owner(Aliases["pnl"][i]) = "pnl"
    BY DEF Owner, Aliases
  <1>8. \A i \in DOMAIN Aliases["fees"] : Owner(Aliases["fees"][i]) = "fees"
    BY DEF Owner, Aliases
  <1> QED
    BY <1>1, <1>2, <1>3, <1>4, <1>5, <1>6, <1>7, <1>8 DEF Fields

\* The other words of a row of data are nobody's names.
LEMMA NoOwners ==
  ASSUME NEW word, word \in {Blank.s, Money(0).s, "BUY", "SELL"}
  PROVE  Normal(word) = word /\ Owner(word) = "none"
PROOF
  <1>1. Blank.s = "" /\ Money(0).s = "$"
    BY Zenon DEF Blank, Money, Cell
  <1>2. Normal("") = "" /\ Normal("$") = "$"
    BY Zenon DEF Normal
  <1>3. Normal("BUY") = "BUY" /\ Normal("SELL") = "SELL"
    BY Zenon DEF Normal
  <1>4. Owner("") = "none" /\ Owner("$") = "none"
    BY Zenon DEF Owner
  <1>5. Owner("BUY") = "none" /\ Owner("SELL") = "none"
    BY Zenon DEF Owner
  <1> QED
    BY <1>1, <1>2, <1>3, <1>4, <1>5, Zenon

\* A row of data that starts with a ticker is no header.
LEMMA DataIsData ==
  ASSUME NEW t \in Closed, NEW row, Len(row) \in Nat, Len(row) >= 3, DOMAIN row = 1 .. Len(row),
         row[1] = Name(t),
         \A c \in DOMAIN row : row[c].s \in {Blank.s, Money(0).s, t.side, t.symbol}
  PROVE  LooksLikeData(row)
PROOF
  <1> DEFINE map == ColumnMap(row)
             x == Owner(Normal(t.symbol))
  <1>1. row[1].kind = "ticker" /\ t.side \in {"BUY", "SELL"}
    BY TradeCells
  <1>2. ASSUME NEW y \in DOMAIN map
        PROVE  y = x
    <2>1. PICK i \in DOMAIN Aliases[y], c \in DOMAIN row :
             y \in DOMAIN Aliases /\ Normal(row[c].s) = Aliases[y][i]
      BY DEF ColumnMap
    <2>2. y \in Fields
      BY <2>1, AliasLists
    <2>3. Owner(Normal(row[c].s)) = y
      BY <2>1, <2>2, Owners
    <2>4. y # "none"
      BY <2>2 DEF Fields
    <2>5. row[c].s = t.symbol \/ row[c].s \in {Blank.s, Money(0).s, "BUY", "SELL"}
      BY <1>1
    <2> QED
      BY <2>3, <2>4, <2>5, NoOwners
  <1> HIDE DEF map, x
  <1>3. DOMAIN map \in SUBSET {x}
    BY <1>2
  <1>4. Cardinality(DOMAIN map) <= 1
    <2>1. IsFiniteSet({x}) /\ Cardinality({x}) = 1
      BY FS_Singleton
    <2> QED
      BY <1>3, <2>1, FS_Subset
  <1> QED
    BY <1>1, <1>4 DEF LooksLikeData, map

\* Lines of data, of which every row is read as its trade.
LEMMA LooseIsRead ==
  ASSUME closed \in Seq(Closed), closed # <<>>,
         NEW rows, rows = [i \in DOMAIN closed |-> rows[i]],
         \A i \in DOMAIN closed : \A c \in DOMAIN rows[i] : rows[i][c].s \notin Marks,
         LooksLikeData(rows[1]), Len(rows[1]) >= 2, Len(rows[1]) \in Nat,
         \A i \in DOMAIN closed : LooseTrade(rows[i]) = closed[i]
  PROVE  ParseCsv(Commas(rows), "auto") = closed
PROOF
  <1> DEFINE verdicts == [i \in DOMAIN rows |-> LooseTrade(rows[i])]
  <1>1. PICK m \in Nat : DOMAIN closed = 1 .. m /\ m >= 1
    OBVIOUS
  <1>2. DOMAIN rows = DOMAIN closed /\ rows # <<>>
    BY <1>1
  <1>3. DetectFormat(rows) = "generic"
    <2>1. ASSUME NEW words, words \subseteq Marks
          PROVE  ~Mentions(rows, words)
      BY <1>2, <2>1 DEF Mentions
    <2>2. /\ ~Mentions(rows, {"trade_date", "tradingsymbol"}) /\ ~Mentions(rows, {"ticket"})
          /\ ~Mentions(rows, OwnTimes)
      BY <2>1, MarkWords
    <2> QED
      BY <2>2, DetectedFrom
  <1>4. Generic(rows) = Outcome(verdicts)
    <2>1. ~(Len(rows[1]) < 2)
      OBVIOUS
    <2>2. Headerless(rows) = Outcome(verdicts)
      BY <2>1 DEF Headerless
    <2> QED
      BY <2>2 DEF Generic
  <1>5. verdicts = [i \in DOMAIN closed |-> verdicts[i]]
        /\ \A i \in DOMAIN closed : verdicts[i] = closed[i]
    BY <1>2
  <1> HIDE DEF verdicts
  <1>6. Generic(rows) = closed
    BY <1>4, <1>5, RowsAreRead
  <1>7. Parsed(Commas(rows), DetectFormat(rows), "comma") = closed
    BY <1>2, <1>3, <1>6, ParsedAs
  <1> QED
    BY <1>2, <1>7, FirstTry

\* What the kinds of cells say of dates and numbers.
LEMMA CellKinds ==
  ASSUME NEW t \in Closed
  PROVE  /\ Stamp(Name(t)) = NoTime /\ Stamp(Type(t)) = NoTime /\ Stamp(HourCell(t)) = NoTime
         /\ \A n : Stamp(Number(n)) = NoTime /\ Stamp(Money(n)) = NoTime
         /\ \A n : Number(n).kind = "number" /\ Money(n).kind = "money" /\ Moment(n).kind = "moment"
         /\ \A n : Number(n).s = Blank.s /\ Money(n).s = Money(0).s /\ Moment(n).s = Blank.s
         /\ Blank.s \notin Sides /\ Money(0).s \notin Sides /\ Money(0).s \notin Marks
PROOF
  <1>1. \A n : Stamp(Number(n)) = NoTime /\ Stamp(Money(n)) = NoTime
    BY Zenon DEF Stamp, Number, Money, Cell
  <1>2. \A n : Number(n).kind = "number" /\ Money(n).kind = "money" /\ Moment(n).kind = "moment"
    BY Zenon DEF Number, Money, Moment, Cell
  <1>3. \A n : Number(n).s = Blank.s /\ Money(n).s = Money(0).s /\ Moment(n).s = Blank.s
    BY Zenon DEF Number, Money, Moment, Blank, Cell
  <1>4. Blank.s \notin Sides /\ Money(0).s \notin Sides
    BY Zenon DEF Blank, Money, Cell, Sides
  <1>5. Money(0).s \notin Marks
    BY Zenon DEF Money, Cell, Marks, OwnTimes, OwnDates
  <1>6. Stamp(Name(t)) = NoTime /\ Stamp(Type(t)) = NoTime /\ Stamp(HourCell(t)) = NoTime
    BY TradeCells DEF Stamp
  <1> QED
    BY <1>1, <1>2, <1>3, <1>4, <1>5, <1>6, Zenon

\* The cells of a row with a dollar sign.
LEMMA MoneyRowCells ==
  ASSUME NEW t \in Closed, NEW row, row = MoneyRow(t)
  PROVE  /\ Len(row) = 6 /\ DOMAIN row = 1 .. 6
         /\ row[1] = Name(t) /\ row[2] = Type(t) /\ row[3] = Moment(t.at)
         /\ row[4] = Number(t.entry) /\ row[5] = Number(t.exit) /\ row[6] = Money(t.pnl)
         /\ row[1].s = t.symbol /\ row[2].s = t.side /\ row[3].s = Blank.s /\ row[4].s = Blank.s
         /\ row[5].s = Blank.s /\ row[6].s = Money(0).s
PROOF
  <1>1. /\ Len(row) = 6 /\ DOMAIN row = 1 .. 6
        /\ row[1] = Name(t) /\ row[2] = Type(t) /\ row[3] = Moment(t.at)
        /\ row[4] = Number(t.entry) /\ row[5] = Number(t.exit) /\ row[6] = Money(t.pnl)
    BY DEF MoneyRow
  <1>2. /\ Name(t).s = t.symbol /\ Type(t).s = t.side /\ Moment(t.at).s = Blank.s
        /\ Number(t.entry).s = Blank.s /\ Number(t.exit).s = Blank.s
        /\ Money(t.pnl).s = Money(0).s
    BY TradeCells, CellKinds
  <1> QED
    BY <1>1, <1>2

\* The cells of a row without a profit.
LEMMA BareRowCells ==
  ASSUME NEW t \in Closed, NEW row, row = BareRow(t)
  PROVE  /\ Len(row) = 8 /\ DOMAIN row = 1 .. 8
         /\ row[1] = Name(t) /\ row[2] = Type(t) /\ row[3] = DayCell(t) /\ row[4] = HourCell(t)
         /\ row[5] = Number(t.entry) /\ row[6] = DayCell(t) /\ row[7] = HourCell(t)
         /\ row[8] = Number(t.exit)
         /\ row[1].s = t.symbol /\ row[2].s = t.side /\ row[3].s = Blank.s /\ row[4].s = Blank.s
         /\ row[5].s = Blank.s /\ row[6].s = Blank.s /\ row[7].s = Blank.s /\ row[8].s = Blank.s
PROOF
  <1>1. /\ Len(row) = 8 /\ DOMAIN row = 1 .. 8
        /\ row[1] = Name(t) /\ row[2] = Type(t) /\ row[3] = DayCell(t) /\ row[4] = HourCell(t)
        /\ row[5] = Number(t.entry) /\ row[6] = DayCell(t) /\ row[7] = HourCell(t)
        /\ row[8] = Number(t.exit)
    BY DEF BareRow
  <1>2. /\ Name(t).s = t.symbol /\ Type(t).s = t.side /\ DayCell(t).s = Blank.s
        /\ HourCell(t).s = Blank.s /\ Number(t.entry).s = Blank.s /\ Number(t.exit).s = Blank.s
    BY TradeCells, CellKinds
  <1> QED
    BY <1>1, <1>2

\* A single timestamp, and the profit marked as money.
LEMMA MoneyTradeIsRead ==
  ASSUME NEW t \in Closed, Plain(t), NEW row, row = MoneyRow(t)
  PROVE  LooseTrade(row) = t
PROOF
  <1> DEFINE others == DOMAIN row \ (Pairs(row) \cup {i + 1 : i \in Pairs(row)})
             sided == {i \in others : row[i].s \in Sides}
             spare == {i \in others \ {Min(sided)} : Stamp(row[i]) = NoTime /\ row[i].kind # "clock"}
  <1>1. /\ Len(row) = 6 /\ DOMAIN row = 1 .. 6
        /\ row[1] = Name(t) /\ row[2] = Type(t) /\ row[3] = Moment(t.at)
        /\ row[4] = Number(t.entry) /\ row[5] = Number(t.exit) /\ row[6] = Money(t.pnl)
        /\ row[1].s = t.symbol /\ row[2].s = t.side /\ row[3].s = Blank.s /\ row[4].s = Blank.s
        /\ row[5].s = Blank.s /\ row[6].s = Money(0).s
    BY MoneyRowCells
  <1>2. /\ row[1].kind = "ticker" /\ row[2].kind = "ticker" /\ row[3].kind = "moment"
        /\ row[4].kind = "number" /\ row[5].kind = "number" /\ row[6].kind = "money"
        /\ row[1].n = 0 /\ row[2].n = 0
    BY <1>1, TradeCells, CellKinds
  <1>3. /\ Stamp(row[1]) = NoTime /\ Stamp(row[2]) = NoTime /\ Stamp(row[3]) = t.at
        /\ Stamp(row[4]) = NoTime /\ Stamp(row[5]) = NoTime /\ Stamp(row[6]) = NoTime
        /\ t.at # NoTime
    BY <1>1, TradeCells, CellKinds, CellFacts DEF NoTime
  <1>4. /\ t.symbol \notin Sides /\ t.side \in Sides /\ Blank.s \notin Sides
        /\ Money(0).s \notin Sides
    BY TradeCells, CellKinds DEF Sides
  <1>5. Pairs(row) = {}
    BY <1>1, <1>2 DEF Pairs
  <1>6. others = 1 .. 6
    BY <1>1, <1>5
  <1>7. sided = {2}
    <2> HIDE DEF others
    <2> QED
      BY <1>1, <1>4, <1>6
  <1>8. Min({2}) = 2
    BY MinIs, 2 \in Int
  <1>9. spare = {1, 4, 5, 6}
    <2> HIDE DEF others, sided
    <2> QED
      BY <1>2, <1>3, <1>6, <1>7, <1>8
  <1>10. ScanRow(row) = t.at
    <2> DEFINE alone == {i \in DOMAIN row : Stamp(row[i]) # NoTime}
    <2>1. alone = {3}
      BY <1>1, <1>3
    <2>2. Min({3}) = 3
      BY MinIs, 3 \in Int
    <2>3. ScanRow(row) = Stamp(row[Min(alone)])
      BY <2>1 DEF ScanRow
    <2> HIDE DEF alone
    <2> QED
      BY <1>3, <2>1, <2>2, <2>3
  <1>11. LooseTrade(row) = FromCells(row, t.at, t.side, {1, 4, 5, 6})
    <2>1. Direction(row[Min(sided)].s) = t.side
      <3> HIDE DEF sided
      <3> QED
        BY <1>1, <1>7, <1>8, TradeCells
    <2>2. LooseTrade(row) = FromCells(row, t.at, Direction(row[Min(sided)].s), spare)
      <3>1. ~(Len(row) < 2) /\ sided # {}
        BY <1>1, <1>7
      <3> QED
        BY <1>3, <1>5, <1>10, <3>1 DEF LooseTrade
    <2> HIDE DEF sided, spare
    <2> QED
      BY <1>9, <2>1, <2>2
  <1>12. FromCells(row, t.at, t.side, {1, 4, 5, 6}) = t
    <2> DEFINE cells == {1, 4, 5, 6}
               tokens == {i \in cells : row[i].kind \in {"word", "ticker", "money"}
                                        /\ row[i].s \notin Sides}
               digits == {i \in cells : row[i].kind \in {"number", "money", "dotted"}
                                        \/ row[i].n # 0}
               marked == {i \in DOMAIN row : row[i].kind = "money"}
    <2>1. tokens = {1, 6}
      BY <1>1, <1>2, <1>4
    <2>2. digits = 4 .. 6
      BY <1>2
    <2>3. marked = {6}
      BY <1>1, <1>2
    <2>4. Min({1, 6}) = 1
      BY MinIs, 1 \in Int, 6 \in Int
    <2>5. Min(4 .. 6) = 4 /\ Min(4 .. 6 \ {4}) = 5
      BY MinIs
    <2>6. Max({6}) = 6
      BY DEF Max
    <2>7. Cardinality(4 .. 6) = 3
      <3>1. PICK a \in Int, b \in Int : a = 4 /\ b = 6
        OBVIOUS
      <3>2. Cardinality(a .. b) = IF a > b THEN 0 ELSE b - a + 1
        BY FS_Interval
      <3> QED
        BY <3>1, <3>2
    <2>8. /\ Float(row[4]) = t.entry /\ Float(row[5]) = t.exit /\ Float(row[6]) = t.pnl
          /\ row[1].s = t.symbol
      BY <1>1, CellFacts
    <2> DEFINE entry == IF digits = {} THEN 0 ELSE Float(row[Min(digits)])
               exit == IF Cardinality(digits) < 2 THEN 0
                       ELSE Float(row[Min(digits \ {Min(digits)})])
    <2>9. FromCells(row, t.at, t.side, cells) =
            [at |-> t.at, side |-> t.side,
             symbol |-> IF tokens = {} THEN "UNKNOWN" ELSE row[Min(tokens)].s,
             entry |-> entry, exit |-> exit, qty |-> 1, fees |-> 0,
             pnl |-> IF marked # {} THEN Float(row[Max(marked)])
                     ELSE IF entry > 0 /\ exit > 0
                          THEN IF t.side = "BUY" THEN exit - entry ELSE entry - exit
                     ELSE IF Cardinality(digits) = 1 THEN entry ELSE 0]
      <3> HIDE DEF cells
      <3> QED
        BY DEF FromCells
    <2> HIDE DEF cells, tokens, digits, marked
    <2>10. entry = t.entry /\ exit = t.exit
      BY <2>2, <2>5, <2>7, <2>8
    <2>11. t.qty = 1 /\ t.fees = 0
      BY DEF Plain
    <2> HIDE DEF entry, exit
    <2>12. FromCells(row, t.at, t.side, cells) =
             [at |-> t.at, side |-> t.side, symbol |-> t.symbol, entry |-> t.entry,
              exit |-> t.exit, qty |-> t.qty, pnl |-> t.pnl, fees |-> t.fees]
      BY <2>1, <2>3, <2>4, <2>6, <2>8, <2>9, <2>10, <2>11
    <2> QED
      BY <2>12, TradeCells DEF cells
  <1> QED
    BY <1>11, <1>12

\* Two pairs of adjacent cells: the first is when the trade was opened.
LEMMA BareTradeIsRead ==
  ASSUME NEW t \in Closed, Plain(t), Priced(t), NEW row, row = BareRow(t)
  PROVE  LooseTrade(row) = t
PROOF
  <1> DEFINE others == DOMAIN row \ (Pairs(row) \cup {i + 1 : i \in Pairs(row)})
             sided == {i \in others : row[i].s \in Sides}
             spare == {i \in others \ {Min(sided)} : Stamp(row[i]) = NoTime /\ row[i].kind # "clock"}
  <1>1. /\ Len(row) = 8 /\ DOMAIN row = 1 .. 8
        /\ row[1] = Name(t) /\ row[2] = Type(t) /\ row[3] = DayCell(t) /\ row[4] = HourCell(t)
        /\ row[5] = Number(t.entry) /\ row[6] = DayCell(t) /\ row[7] = HourCell(t)
        /\ row[8] = Number(t.exit)
        /\ row[1].s = t.symbol /\ row[2].s = t.side /\ row[3].s = Blank.s /\ row[4].s = Blank.s
        /\ row[5].s = Blank.s /\ row[6].s = Blank.s /\ row[7].s = Blank.s /\ row[8].s = Blank.s
    BY BareRowCells
  <1>2. /\ row[1].kind = "ticker" /\ row[2].kind = "ticker" /\ row[3].kind = "date"
        /\ row[4].kind = "clock" /\ row[5].kind = "number" /\ row[6].kind = "date"
        /\ row[7].kind = "clock" /\ row[8].kind = "number" /\ row[1].n = 0 /\ row[2].n = 0
    BY <1>1, TradeCells, CellKinds
  <1>3. /\ Stamp(row[1]) = NoTime /\ Stamp(row[2]) = NoTime /\ Stamp(row[3]) # NoTime
        /\ Stamp(row[4]) = NoTime /\ Stamp(row[5]) = NoTime /\ Stamp(row[6]) # NoTime
        /\ Stamp(row[7]) = NoTime /\ Stamp(row[8]) = NoTime
        /\ Stamped(row[3], row[4]) = t.at /\ Stamped(row[6], row[7]) = t.at /\ t.at # NoTime
    BY <1>1, TradeCells, CellKinds, StampOfDay DEF NoTime
  <1>4. t.symbol \notin Sides /\ t.side \in Sides /\ Blank.s \notin Sides
    BY TradeCells, CellKinds DEF Sides
  <1>5. Pairs(row) = {3, 6}
    <2>1. \A i \in 1 .. 7 : Stamp(row[i]) # NoTime <=> i \in {3, 6}
      BY <1>3
    <2>2. row[3 + 1].kind = "clock" /\ row[6 + 1].kind = "clock"
          /\ Stamped(row[3], row[3 + 1]) # NoTime /\ Stamped(row[6], row[6 + 1]) # NoTime
      BY <1>2, <1>3
    <2>3. Len(row) - 1 = 7
      BY <1>1
    <2>4. \A i \in Pairs(row) : i \in {3, 6}
      BY <2>1, <2>3 DEF Pairs
    <2>5. 3 \in Pairs(row)
      BY <1>3, <2>2, <2>3, 3 \in 1 .. 7 DEF Pairs
    <2>6. 6 \in Pairs(row)
      BY <1>3, <2>2, <2>3, 6 \in 1 .. 7 DEF Pairs
    <2> QED
      BY <2>4, <2>5, <2>6
  <1>6. others = {1, 2, 5, 8}
    BY <1>1, <1>5
  <1>7. sided = {2}
    <2> HIDE DEF others
    <2> QED
      BY <1>1, <1>4, <1>6
  <1>8. Min({2}) = 2 /\ Min({3, 6}) = 3
    <2>1. Min({2}) = 2
      BY MinIs, 2 \in Int
    <2>2. Min({3, 6}) = 3
      BY MinIs, 3 \in Int, 6 \in Int
    <2> QED
      BY <2>1, <2>2
  <1>9. spare = {1, 5, 8}
    <2> HIDE DEF others, sided
    <2> QED
      BY <1>2, <1>3, <1>6, <1>7, <1>8
  <1>10. LooseTrade(row) = FromCells(row, t.at, t.side, {1, 5, 8})
    <2>1. Direction(row[Min(sided)].s) = t.side
      <3> HIDE DEF sided
      <3> QED
        BY <1>1, <1>7, <1>8, TradeCells
    <2>2. Stamped(row[Min(Pairs(row))], row[Min(Pairs(row)) + 1]) = t.at
      BY <1>3, <1>5, <1>8
    <2>3. LooseTrade(row) = FromCells(row, t.at, Direction(row[Min(sided)].s), spare)
      <3>1. ~(Len(row) < 2) /\ sided # {} /\ Pairs(row) # {}
        BY <1>1, <1>5, <1>7
      <3> QED
        BY <1>3, <2>2, <3>1 DEF LooseTrade
    <2> HIDE DEF sided, spare
    <2> QED
      BY <1>9, <2>1, <2>3
  <1>11. FromCells(row, t.at, t.side, {1, 5, 8}) = t
    <2> DEFINE cells == {1, 5, 8}
               tokens == {i \in cells : row[i].kind \in {"word", "ticker", "money"}
                                        /\ row[i].s \notin Sides}
               digits == {i \in cells : row[i].kind \in {"number", "money", "dotted"}
                                        \/ row[i].n # 0}
               marked == {i \in DOMAIN row : row[i].kind = "money"}
    <2>1. tokens = {1}
      BY <1>1, <1>2, <1>4
    <2>2. digits = {5, 8}
      BY <1>2
    <2>3. marked = {}
      BY <1>1, <1>2
    <2>4. Min({1}) = 1 /\ Min({5, 8}) = 5 /\ Min({8}) = 8
      <3>1. Min({1}) = 1
        BY MinIs, 1 \in Int
      <3>2. Min({5, 8}) = 5
        BY MinIs, 5 \in Int, 8 \in Int
      <3>3. Min({8}) = 8
        BY MinIs, 8 \in Int
      <3> QED
        BY <3>1, <3>2, <3>3
    <2>5. {5, 8} \ {5} = {8}
      OBVIOUS
    <2>6. Cardinality({5, 8}) = 2
      <3>1. IsFiniteSet({5}) /\ Cardinality({5}) = 1
        BY FS_Singleton
      <3>2. Cardinality({5} \cup {8}) = 1 + 1
        BY <3>1, 8 \notin {5}, FS_AddElement
      <3>3. {5} \cup {8} = {5, 8}
        OBVIOUS
      <3> QED
        BY <3>2, <3>3
    <2>7. Float(row[5]) = t.entry /\ Float(row[8]) = t.exit /\ row[1].s = t.symbol
      BY <1>1, CellFacts
    <2> DEFINE entry == IF digits = {} THEN 0 ELSE Float(row[Min(digits)])
               exit == IF Cardinality(digits) < 2 THEN 0
                       ELSE Float(row[Min(digits \ {Min(digits)})])
    <2>8. FromCells(row, t.at, t.side, cells) =
            [at |-> t.at, side |-> t.side,
             symbol |-> IF tokens = {} THEN "UNKNOWN" ELSE row[Min(tokens)].s,
             entry |-> entry, exit |-> exit, qty |-> 1, fees |-> 0,
             pnl |-> IF marked # {} THEN Float(row[Max(marked)])
                     ELSE IF entry > 0 /\ exit > 0
                          THEN IF t.side = "BUY" THEN exit - entry ELSE entry - exit
                     ELSE IF Cardinality(digits) = 1 THEN entry ELSE 0]
      <3> HIDE DEF cells
      <3> QED
        BY DEF FromCells
    <2> HIDE DEF cells, tokens, digits, marked
    <2>9. entry = t.entry /\ exit = t.exit
      BY <2>2, <2>4, <2>5, <2>6, <2>7
    <2>10. /\ t.qty = 1 /\ t.fees = 0 /\ t.entry > 0 /\ t.exit > 0
           /\ t.pnl = IF t.side = "BUY" THEN t.exit - t.entry ELSE t.entry - t.exit
      BY DEF Plain, Priced
    <2> HIDE DEF entry, exit
    <2>11. FromCells(row, t.at, t.side, cells) =
             [at |-> t.at, side |-> t.side, symbol |-> t.symbol, entry |-> t.entry,
              exit |-> t.exit, qty |-> t.qty, pnl |-> t.pnl, fees |-> t.fees]
      BY <2>1, <2>3, <2>4, <2>7, <2>8, <2>9, <2>10
    <2> QED
      BY <2>11, TradeCells DEF cells
  <1> QED
    BY <1>10, <1>11

MoneyRows == [i \in DOMAIN closed |-> MoneyRow(closed[i])]
BareRows == [i \in DOMAIN closed |-> BareRow(closed[i])]

\* A file without a header and with dollar signs is read as its trades.
LEMMA MoneyRestored ==
  ASSUME closed \in Seq(Closed), closed # <<>>, All(Plain)
  PROVE  ParseCsv(Commas(Rows(MoneyRow)), "auto") = closed
PROOF
  <1> DEFINE rows == MoneyRows
  <1>1. PICK m \in Nat : DOMAIN closed = 1 .. m /\ 1 \in 1 .. m
    OBVIOUS
  <1>2. \A i \in 1 .. m : closed[i] \in Closed /\ Plain(closed[i])
    BY <1>1 DEF All
  <1>3. rows = [i \in DOMAIN closed |-> rows[i]] /\ \A i \in 1 .. m : rows[i] = MoneyRow(closed[i])
    BY <1>1 DEF MoneyRows
  <1>4. Rows(MoneyRow) = rows
    BY DEF Rows, MoneyRows
  <1> HIDE DEF rows
  <1>5. ASSUME NEW i \in 1 .. m
        PROVE  /\ Len(rows[i]) = 6 /\ DOMAIN rows[i] = 1 .. 6 /\ rows[i][1] = Name(closed[i])
               /\ \A c \in DOMAIN rows[i] :
                     rows[i][c].s \in {Blank.s, Money(0).s, closed[i].side, closed[i].symbol}
    <2>1. PICK t, row : t \in Closed /\ t = closed[i] /\ row = rows[i] /\ row = MoneyRow(t)
      BY <1>2, <1>3
    <2>2. /\ Len(row) = 6 /\ DOMAIN row = 1 .. 6 /\ row[1] = Name(t)
          /\ row[1].s = t.symbol /\ row[2].s = t.side /\ row[3].s = Blank.s /\ row[4].s = Blank.s
          /\ row[5].s = Blank.s /\ row[6].s = Money(0).s
      BY <2>1, MoneyRowCells
    <2>3. \A c \in 1 .. 6 : row[c].s \in {Blank.s, Money(0).s, t.side, t.symbol}
      BY <2>2
    <2> QED
      BY <2>1, <2>2, <2>3
  <1>6. \A i \in DOMAIN closed : \A c \in DOMAIN rows[i] : rows[i][c].s \notin Marks
    BY <1>1, <1>2, <1>5, PlainWords, CellKinds
  <1>7. LooksLikeData(rows[1]) /\ Len(rows[1]) >= 2 /\ Len(rows[1]) \in Nat
    <2>1. PICK t, row : t \in Closed /\ t = closed[1] /\ row = rows[1]
      BY <1>1, <1>2
    <2>2. /\ Len(row) = 6 /\ DOMAIN row = 1 .. 6 /\ row[1] = Name(t)
          /\ \A c \in DOMAIN row : row[c].s \in {Blank.s, Money(0).s, t.side, t.symbol}
      BY <1>1, <1>5, <2>1
    <2>3. Len(row) \in Nat /\ Len(row) >= 3 /\ Len(row) >= 2 /\ DOMAIN row = 1 .. Len(row)
      BY <2>2
    <2> QED
      BY <2>1, <2>2, <2>3, DataIsData
  <1>8. \A i \in DOMAIN closed : LooseTrade(rows[i]) = closed[i]
    BY <1>1, <1>2, <1>3, MoneyTradeIsRead
  <1> QED
    BY <1>3, <1>4, <1>6, <1>7, <1>8, LooseIsRead

\* So is one without a profit, when the prices give it.
LEMMA BareRestored ==
  ASSUME closed \in Seq(Closed), closed # <<>>, All(Plain), All(Priced)
  PROVE  ParseCsv(Commas(Rows(BareRow)), "auto") = closed
PROOF
  <1> DEFINE rows == BareRows
  <1>1. PICK m \in Nat : DOMAIN closed = 1 .. m /\ 1 \in 1 .. m
    OBVIOUS
  <1>2. \A i \in 1 .. m : closed[i] \in Closed /\ Plain(closed[i]) /\ Priced(closed[i])
    BY <1>1 DEF All
  <1>3. rows = [i \in DOMAIN closed |-> rows[i]] /\ \A i \in 1 .. m : rows[i] = BareRow(closed[i])
    BY <1>1 DEF BareRows
  <1>4. Rows(BareRow) = rows
    BY DEF Rows, BareRows
  <1> HIDE DEF rows
  <1>5. ASSUME NEW i \in 1 .. m
        PROVE  /\ Len(rows[i]) = 8 /\ DOMAIN rows[i] = 1 .. 8 /\ rows[i][1] = Name(closed[i])
               /\ \A c \in DOMAIN rows[i] :
                     rows[i][c].s \in {Blank.s, Money(0).s, closed[i].side, closed[i].symbol}
    <2>1. PICK t, row : t \in Closed /\ t = closed[i] /\ row = rows[i] /\ row = BareRow(t)
      BY <1>2, <1>3
    <2>2. /\ Len(row) = 8 /\ DOMAIN row = 1 .. 8 /\ row[1] = Name(t)
          /\ row[1].s = t.symbol /\ row[2].s = t.side /\ row[3].s = Blank.s /\ row[4].s = Blank.s
          /\ row[5].s = Blank.s /\ row[6].s = Blank.s /\ row[7].s = Blank.s /\ row[8].s = Blank.s
      BY <2>1, BareRowCells
    <2>3. \A c \in 1 .. 8 : row[c].s \in {Blank.s, Money(0).s, t.side, t.symbol}
      BY <2>2
    <2> QED
      BY <2>1, <2>2, <2>3
  <1>6. \A i \in DOMAIN closed : \A c \in DOMAIN rows[i] : rows[i][c].s \notin Marks
    BY <1>1, <1>2, <1>5, PlainWords, CellKinds
  <1>7. LooksLikeData(rows[1]) /\ Len(rows[1]) >= 2 /\ Len(rows[1]) \in Nat
    <2>1. PICK t, row : t \in Closed /\ t = closed[1] /\ row = rows[1]
      BY <1>1, <1>2
    <2>2. /\ Len(row) = 8 /\ DOMAIN row = 1 .. 8 /\ row[1] = Name(t)
          /\ \A c \in DOMAIN row : row[c].s \in {Blank.s, Money(0).s, t.side, t.symbol}
      BY <1>1, <1>5, <2>1
    <2>3. Len(row) \in Nat /\ Len(row) >= 3 /\ Len(row) >= 2 /\ DOMAIN row = 1 .. Len(row)
      BY <2>2
    <2> QED
      BY <2>1, <2>2, <2>3, DataIsData
  <1>8. \A i \in DOMAIN closed : LooseTrade(rows[i]) = closed[i]
    BY <1>1, <1>2, <1>3, BareTradeIsRead
  <1> QED
    BY <1>3, <1>4, <1>6, <1>7, <1>8, LooseIsRead

-----------------------------------------------------------------------------
(* The theorem.                                                            *)

\* Every kind of file is read as the trades it was written from.
LEMMA FilesAreRead ==
  ASSUME closed \in Seq(Closed), closed # <<>>, NEW file \in Files
  PROVE  ParseCsv(file, "auto") = closed
PROOF
  <1>1. CASE file \in {Export(Blank), Export(Word("ticket"))}
    BY <1>1, BackupIsRead
  <1>2. CASE file = Statement
    BY <1>2, StatementRestored
  <1>3. CASE /\ All(Plain)
             /\ file \in {Table(SplitNames, SplitRow), Table(TimesNames, TimesRow)}
    BY <1>3, SplitRestored, TimesRestored
  <1>4. CASE /\ All(Plain)
             /\ file \in {Table(DottedNames, DottedRow), Commas(Rows(MoneyRow))}
    BY <1>4, DottedRestored, MoneyRestored
  <1>5. CASE All(Plain) /\ Len(closed) >= 3 /\ file = Table(StrangeNames, StrangeRow)
    BY <1>5, StrangeRestored
  <1>6. CASE All(Plain) /\ All(Priced) /\ file = Commas(Rows(BareRow))
    BY <1>6, BareRestored
  <1> QED
    BY <1>1, <1>2, <1>3, <1>4, <1>5, <1>6 DEF Files

\* The lists of trades that a file is written from.
LEMMA FileStarts == FileInit => closed \in Seq(Closed)
PROOF BY DEF FileInit

LEMMA FileSteps == closed \in Seq(Closed) /\ [FileNext]_closed => (closed \in Seq(Closed))'
PROOF BY DEF FileNext, CloseTrade

LEMMA ClosedLists == FileSpec => [](closed \in Seq(Closed))
PROOF BY FileStarts, FileSteps, PTL DEF FileSpec

\* Whatever kind of file the trades come in, the same trades are read from it, an
\* exported backup among them; and a row of the backup that ends after its side costs
\* no other row its trade and its own only the numbers it lacks (csv_parser.py:35,
\* trades.py:165): of any trades, in any number.
THEOREM FormatsAreOne == FileSpec => []FormatsAgree
PROOF
  <1>1. ASSUME closed \in Seq(Closed)
        PROVE  FormatsAgree
    <2>1. ASSUME closed # <<>>, NEW file \in Files
          PROVE  ParseCsv(file, "auto") = closed
      BY <1>1, <2>1, FilesAreRead
    <2>2. ASSUME NEW i \in DOMAIN closed, NEW n \in 3 .. 14
          PROVE  ParseCsv(Cut(i, n), "auto") = [closed EXCEPT ![i] = CutTrade(@, n)]
      BY <1>1, CutIsRead
    <2>3. Len(ExportNames) - 1 = 14
      BY DEF ExportNames
    <2> QED
      BY <2>1, <2>2, <2>3 DEF FormatsAgree
  <1> QED
    BY <1>1, ClosedLists, PTL

-----------------------------------------------------------------------------
(* The engines side by side.                                               *)

\* Each engine's invariant while it is the one that runs.
Sound ==
    /\ engine \in {"orders", "rules", "account", "reports", "files"}
    /\ engine = "orders"  => IInv
    /\ engine = "rules"   => LoopInv
    /\ engine = "account" => PropTypeOK
    /\ engine = "reports" => ReportTypeOK
    /\ engine = "files"   => (closed \in Seq(Closed))

\* Type correctness of every engine: orders and their queues, the counters of a rule's
\* loop, a prop account and its trades in the order of days, a history in the order of
\* time with a mistake wherever there is a verdict, and the trades of a file
\* (broker_sync.py:80, rule_checker.py:58, compliance_service.py:83, trade_service.py:133).
THEOREM EnginesAreTyped == EnginesSpec => []WellTyped
PROOF
  <1>1. EnginesInit => Sound
    <2> QED
      BY FileStarts, InitEstablishes, LoopStarts, PropStarts, ReportStarts DEF EnginesInit, Sound
  <1>2. Sound /\ [EnginesNext]_<<engine, vars, loopVars, propVars, reportVars, closed>> => Sound'
    <2> SUFFICES ASSUME Sound, [EnginesNext]_<<engine, vars, loopVars, propVars, reportVars, closed>>
                 PROVE  Sound'
      OBVIOUS
    <2>1. engine' = engine
      BY DEF EnginesNext
    <2>2. ASSUME engine = "orders" PROVE IInv'
      <3>1. [Next]_vars
        BY <2>2 DEF EnginesNext
      <3> QED
        BY <2>2, <3>1, MatchingSteps DEF Sound
    <2>3. ASSUME engine = "rules" PROVE LoopInv'
      <3>1. [LoopNext]_loopVars
        BY <2>3 DEF EnginesNext
      <3> QED
        BY <2>3, <3>1, RuleLoopSteps DEF Sound
    <2>4. ASSUME engine = "account" PROVE PropTypeOK'
      <3>1. [PropNext]_propVars
        BY <2>4 DEF EnginesNext
      <3> QED
        BY <2>4, <3>1, PropSteps DEF Sound
    <2>5. ASSUME engine = "reports" PROVE ReportTypeOK'
      <3>1. [ReportNext]_reportVars
        BY <2>5 DEF EnginesNext
      <3> QED
        BY <2>5, <3>1, ReportSteps DEF Sound
    <2>6. ASSUME engine = "files" PROVE (closed \in Seq(Closed))'
      <3>1. [FileNext]_closed
        BY <2>6 DEF EnginesNext
      <3> QED
        BY <2>6, <3>1, FileSteps DEF Sound
    <2> QED
      BY <2>1, <2>2, <2>3, <2>4, <2>5, <2>6 DEF Sound
  <1>3. Sound => WellTyped
    BY DEF Sound, WellTyped, IInv, LoopInv
  <1> QED
    BY <1>1, <1>2, <1>3, PTL DEF EnginesSpec
=============================================================================
