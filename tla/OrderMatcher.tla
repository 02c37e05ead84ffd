---------------------------- MODULE OrderMatcher ----------------------------
(***************************************************************************)
(* OrderMatcher.match_orders: the completed orders of a broker, symbol by  *)
(* symbol and in timestamp order, paired first in, first out into round    *)
(* trips.  Orders are numbered as the broker lists them.                   *)
(*                                                                         *)
(* A quantity is a natural number; a completed order filled at least one.  *)
(* Prices, profit, duration and fees follow from the pair of orders and    *)
(* the quantity of a trade, and are left out.                              *)
(***************************************************************************)
EXTENDS Naturals, Sequences, FiniteSets, FiniteSetsExt

CONSTANTS
    Orders,      \* positions in the broker's list
    Symbols,
    Times,       \* timestamps
    Quantities

ASSUME OrdersAssumption == Orders \subseteq Nat /\ IsFiniteSet(Orders)
ASSUME ValuesAssumption == Times \subseteq Nat /\ Quantities \subseteq Nat \ {0}

VARIABLES
    book,        \* the orders: symbol, side, quantity and time of each
    left,        \* RawOrder.quantity, which the matching counts down
    rest,        \* orders the loop has not reached
    buys, sells, \* queues of the symbol being matched
    trades       \* reconstructed trades

vars == <<book, left, rest, buys, sells, trades>>

Order == [symbol : Symbols, side : {"BUY", "SELL"}, qty : Quantities, time : Times]

Init ==
    /\ book \in [Orders -> Order]
    /\ left = [o \in Orders |-> book[o].qty]
    /\ rest = Orders
    /\ buys = <<>> /\ sells = <<>>
    /\ trades = {}

-----------------------------------------------------------------------------
FirstListed(s) == Min({o \in Orders : book[o].symbol = s})

\* (mutant of Precedes) the orders of a symbol are not sorted.
PrecedesAsListed(o, p) ==
    \/ FirstListed(book[o].symbol) < FirstListed(book[p].symbol)
    \/ book[o].symbol = book[p].symbol /\ o < p

\* The stable sort by timestamp.
Earlier(o, p) ==
    \/ book[o].time < book[p].time
    \/ book[o].time = book[p].time /\ o < p

\* Symbols in order of first appearance, the orders of each by timestamp.
Precedes(o, p) ==
    \/ FirstListed(book[o].symbol) < FirstListed(book[p].symbol)
    \/ book[o].symbol = book[p].symbol /\ Earlier(o, p)

Matching == buys # <<>> /\ sells # <<>>

\* The queues are local to _match_symbol_orders: those of the last symbol are
\* forgotten with what it left open.
Queue(q, symbol) == IF q # <<>> /\ book[Head(q)].symbol = symbol THEN q ELSE <<>>

\* The next order joins the queue of its side.
Enqueue(o) ==
    LET symbol == book[o].symbol IN
    /\ ~Matching
    /\ o \in rest /\ \A p \in rest \ {o} : Precedes(o, p)
    /\ rest' = rest \ {o}
    /\ IF book[o].side = "BUY"
       THEN buys' = Append(Queue(buys, symbol), o) /\ sells' = Queue(sells, symbol)
       ELSE sells' = Append(Queue(sells, symbol), o) /\ buys' = Queue(buys, symbol)
    /\ UNCHANGED <<book, left, trades>>

\* (mutant of Match) only one of the two orders is counted down.
MatchOneSide ==
    LET buy == Head(buys) sell == Head(sells) qty == Min({left[buy], left[sell]}) IN
    /\ Matching
    /\ trades' = trades \cup {[buy |-> buy, sell |-> sell, qty |-> qty,
                  side |-> IF book[buy].time <= book[sell].time THEN "BUY" ELSE "SELL"]}
    /\ left' = [left EXCEPT ![buy] = @ - qty]
    /\ buys'  = IF left'[buy] = 0 THEN Tail(buys) ELSE buys
    /\ sells' = IF left[sell] = qty THEN Tail(sells) ELSE sells
    /\ UNCHANGED <<book, rest>>

\* One round of the inner loop: the heads of the queues are matched.
Match ==
    LET buy == Head(buys) sell == Head(sells) qty == Min({left[buy], left[sell]}) IN
    /\ Matching
    /\ trades' = trades \cup {[buy |-> buy, sell |-> sell, qty |-> qty,
                  side |-> IF book[buy].time <= book[sell].time THEN "BUY" ELSE "SELL"]}
    /\ left' = [left EXCEPT ![buy] = @ - qty, ![sell] = @ - qty]
    /\ buys'  = IF left'[buy] = 0 THEN Tail(buys) ELSE buys
    /\ sells' = IF left'[sell] = 0 THEN Tail(sells) ELSE sells
    /\ UNCHANGED <<book, rest>>

Next == Match \/ \E o \in Orders : Enqueue(o)

Spec == Init /\ [][Next]_vars

-----------------------------------------------------------------------------
(* Properties.                                                             *)

Trade == [buy : Orders, sell : Orders, qty : Nat, side : {"BUY", "SELL"}]

TypeOK ==
    /\ book \in [Orders -> Order]
    /\ left \in [Orders -> Nat]
    /\ rest \in SUBSET Orders
    /\ buys \in Seq(Orders \ rest) /\ sells \in Seq(Orders \ rest)
    /\ trades \in SUBSET Trade
    /\ \A t \in trades : t.qty > 0

\* The trades an order is part of.
Using(o)  == {t \in trades : o \in {t.buy, t.sell}}

\* What is left of an order is what its trades did not use: no quantity is
\* matched twice or lost, also across partial fills.
Conserved ==
    \A o \in Orders :
        book[o].qty = left[o] + SumFunctionOnSet([t \in trades |-> t.qty], Using(o))

\* First in, first out, unit by unit: the n-th unit bought of a symbol is matched
\* with the n-th unit sold, in the order of their timestamps.  A verdict on two
\* orders depends on earlier ones only, so a longer list only adds trades.
Ahead(o) ==
    SumFunctionOnSet([p \in Orders |-> book[p].qty],
        {p \in Orders : /\ book[p].symbol = book[o].symbol /\ book[p].side = book[o].side
                        /\ Earlier(p, o)})
Overlap(b, s) ==
    LET from == Max({Ahead(b), Ahead(s)})
        to   == Min({Ahead(b) + book[b].qty, Ahead(s) + book[s].qty}) IN
    IF from < to THEN to - from ELSE 0
Reached(side) == {o \in Orders \ rest : book[o].side = side}
FifoAgrees ==
    ~Matching =>
        {<<t.buy, t.sell, t.qty>> : t \in trades} =
            {<<p[1], p[2], Overlap(p[1], p[2])>> : p \in
                {p \in Reached("BUY") \X Reached("SELL") :
                    book[p[1]].symbol = book[p[2]].symbol /\ Overlap(p[1], p[2]) > 0}}
=============================================================================
