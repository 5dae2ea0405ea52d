---------------------------- MODULE OrderPlanning ----------------------------
(***************************************************************************)
(* The pure order arithmetic of the trading day:                           *)
(*   - the orders that move an inventory to a target (_build_order_deltas, *)
(*     build_execution_plan),                                              *)
(*   - the two-step submission of large orders (split_large_orders),       *)
(*   - the quantities sold at the close (_build_close_order_plan),         *)
(*   - the test that lets a risk-stopped day still reduce its exposure     *)
(*     (_is_reduction_only).                                               *)
(* Inventories and targets are signed share counts per ticker; an order    *)
(* carries an unsigned quantity and a side, as OrderRequest does.          *)
(***************************************************************************)
EXTENDS Integers, Sequences, Functions, Lists

CONSTANTS
    Tickers,         \* the rows of the decision frame, in order
    SplitTicker,     \* the one ticker whose large orders are split
    SplitThreshold,  \* from this quantity on
    Lot              \* ticker -> smallest tradable quantity

TickerSet == {Tickers[i] : i \in DOMAIN Tickers}

ASSUME PlanningAssumption ==
    /\ Tickers \in Seq(TickerSet)
    /\ \A i, k \in DOMAIN Tickers : Tickers[i] = Tickers[k] => i = k
    /\ SplitThreshold \in Nat
    /\ Lot \in [TickerSet -> Nat \ {0}]

Abs(n) == IF n < 0 THEN -n ELSE n
Least(m, n) == IF m < n THEN m ELSE n
Greatest(m, n) == IF m > n THEN m ELSE n

-----------------------------------------------------------------------------
(***************************************************************************)
(* Orders                                                                  *)
(***************************************************************************)
Order(t, side, qty) == [ticker |-> t, side |-> side, qty |-> qty]

SideOf(n) == IF n > 0 THEN "BUY" ELSE "SELL"

\* The change an order makes to the inventory of its ticker once filled.
Signed(o) == IF o.side = "BUY" THEN o.qty ELSE -o.qty

\* Orders that trade nothing are left out.
Tradable(orders) == Entries(orders, {i \in DOMAIN orders : orders[i].qty > 0})

\* One order per row with something to trade, in row order.
OrdersFor(change) ==
    Tradable([i \in DOMAIN Tickers |->
                 Order(Tickers[i], SideOf(change[Tickers[i]]),
                       Abs(change[Tickers[i]]))])

\* What the orders of a list ask for of one ticker and side.
QtyIn(orders, t, side) ==
    SumFunction([i \in DOMAIN orders |->
                    IF orders[i].ticker = t /\ orders[i].side = side
                    THEN orders[i].qty ELSE 0])

-----------------------------------------------------------------------------
(***************************************************************************)
(* From an inventory to a target                                           *)
(***************************************************************************)
Delta(target, current, t) == target[t] - current[t]

\* Shares of the existing position that the change repays.
CloseQty(target, current, t) ==
    IF Delta(target, current, t) * current[t] < 0
    THEN Least(Abs(Delta(target, current, t)), Abs(current[t]))
    ELSE 0

NewQty(target, current, t) ==
    Abs(Delta(target, current, t)) - CloseQty(target, current, t)

\* A quantity in the direction of the change.
Directed(delta, qty) == IF delta > 0 THEN qty ELSE -qty

CloseOrders(target, current) ==
    OrdersFor([t \in TickerSet |-> Directed(Delta(target, current, t),
                                            CloseQty(target, current, t))])

NewOrders(target, current) ==
    OrdersFor([t \in TickerSet |-> Directed(Delta(target, current, t),
                                            NewQty(target, current, t))])

Intent == [ticker : TickerSet, side : {"BUY", "SELL"}, qty : Nat \ {0},
           purpose : {"close", "new"}]

\* A plan is the list of its intents: close_orders, then new_orders.
Intents(orders, purpose) ==
    [i \in DOMAIN orders |->
        [ticker |-> orders[i].ticker, side |-> orders[i].side,
         qty |-> orders[i].qty, purpose |-> purpose]]

DecisionPlan(target, current) ==
    Intents(CloseOrders(target, current), "close")
        \o Intents(NewOrders(target, current), "new")

-----------------------------------------------------------------------------
(***************************************************************************)
(* Splitting large orders                                                  *)
(***************************************************************************)
\* Mutant: halves instead of lots.
HalfOf(o) == o.qty \div 2

FirstHalf(o) == ((o.qty \div 2) \div Lot[o.ticker]) * Lot[o.ticker]

\* A large order is sent in two parts unless its first half is below one lot.
IsSplit(o) ==
    /\ o.ticker = SplitTicker
    /\ o.qty >= SplitThreshold
    /\ FirstHalf(o) > 0
    /\ o.qty - FirstHalf(o) > 0

Immediate(orders) ==
    [i \in DOMAIN orders |->
        IF IsSplit(orders[i])
        THEN [orders[i] EXCEPT !.qty = FirstHalf(orders[i])]
        ELSE orders[i]]

Delayed(orders) ==
    LET large == Entries(orders, {i \in DOMAIN orders : IsSplit(orders[i])})
    IN  [i \in DOMAIN large |->
            [large[i] EXCEPT !.qty = @ - FirstHalf(large[i])]]

-----------------------------------------------------------------------------
(***************************************************************************)
(* The close of the day.  The share alpha of a position that is held       *)
(* overnight is given in hundredths; half a lot rounds up.                 *)
(***************************************************************************)
HoldTarget(qty, alpha, lot) ==
    Least(qty, ((2 * qty * alpha + 100 * lot) \div (200 * lot)) * lot)

CloseQuantity(qty, alpha, lot) ==
    Greatest(0, Least(((qty - HoldTarget(qty, alpha, lot)) \div lot) * lot,
                      qty))

\* One order per broker position (ticker, side, qty), in the broker's order.
DayCloseOrders(positions, alphaLong, alphaShort) ==
    LET Alpha(p) == IF p.side = "BUY" THEN alphaLong ELSE alphaShort
        Close(p) == Order(p.ticker, IF p.side = "BUY" THEN "SELL" ELSE "BUY",
                          CloseQuantity(p.qty, Alpha(p), Lot[p.ticker]))
    IN  Tradable([i \in DOMAIN positions |-> Close(positions[i])])

-----------------------------------------------------------------------------
(***************************************************************************)
(* Reduction-only targets                                                  *)
(***************************************************************************)
\* Mutant: only the signs are compared.
SameSigns(target, current) ==
    \A t \in TickerSet : target[t] # 0 => target[t] * current[t] > 0

IsReductionOnly(target, current) ==
    \A t \in TickerSet :
        target[t] # 0 => /\ current[t] # 0
                         /\ target[t] * current[t] > 0
                         /\ Abs(target[t]) <= Abs(current[t])
=============================================================================
