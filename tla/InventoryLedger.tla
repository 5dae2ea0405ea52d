---------------------------- MODULE InventoryLedger ----------------------------
(***************************************************************************)
(* The FIFO ledger of one ticker: a fill first closes the oldest lots of   *)
(* the other side and realizes their profit, and what is left of it opens  *)
(* a lot.  Tickers do not affect each other.  Fees are given per share.    *)
(***************************************************************************)
EXTENDS Integers, Sequences, Functions, Lists

CONSTANTS
    Quantities,  \* quantities of a fill
    Prices,      \* prices of a fill, and marks
    Fees,        \* fees of a fill, per share
    MaxFills     \* bound on the number of fills

VARIABLES
    lots,      \* the open lots, oldest first
    realized,  \* total_realized_pnl
    fills,     \* fills applied so far (history)
    position,  \* their net quantity (history)
    cash       \* what they have paid and received, fees included (history)

vars == <<lots, realized, fills, position, cash>>

Init ==
    /\ lots = <<>>
    /\ realized = 0
    /\ fills = 0 /\ position = 0 /\ cash = 0

Sign(side) == IF side = "BUY" THEN 1 ELSE -1
Sum(f, n) == SumFunctionOnSet(f, 1 .. n)
Lesser(a, b) == IF a < b THEN a ELSE b

-----------------------------------------------------------------------------
\* The loop goes on while the first lot is of the other side.
Opposite(fill) ==
    LET same == {i \in DOMAIN lots : lots[i].side = fill.side}
    IN  IF same = {} THEN Len(lots) ELSE (CHOOSE i \in same : \A j \in same : i <= j) - 1

\* What the fill closes of each lot, oldest first.
Matched(fill) ==
    LET quantity == [i \in DOMAIN lots |-> lots[i].quantity]
        Left(i) == fill.quantity - Sum(quantity, i - 1)
    IN  [i \in DOMAIN lots |->
            IF i <= Opposite(fill) /\ Left(i) > 0
            THEN Lesser(Left(i), lots[i].quantity) ELSE 0]

\* Mutant: the entry fee is forgotten when a lot is closed.
ProfitWithoutEntryFee(fill, matched) ==
    [i \in DOMAIN lots |->
        matched[i] * (Sign(lots[i].side) * (fill.price - lots[i].price) - fill.fee)]

\* The profit of each matched segment, with its share of both fees.
Profit(fill, matched) ==
    [i \in DOMAIN lots |->
        matched[i] * (Sign(lots[i].side) * (fill.price - lots[i].price)
                          - lots[i].fee - fill.fee)]

\* Closed lots disappear, partly closed ones keep their entry.
Reduced(matched) ==
    Entries([i \in DOMAIN lots |-> [lots[i] EXCEPT !.quantity = @ - matched[i]]],
            {i \in DOMAIN lots : lots[i].quantity > matched[i]})

\* What is left of the fill after its matches.
Opened(fill, matched) ==
    LET left == fill.quantity - Sum(matched, Len(lots))
    IN  IF left > 0 THEN <<[fill EXCEPT !.quantity = left]>> ELSE <<>>

ApplyFill(fill) ==
    LET matched == Matched(fill)
    IN  /\ lots' = Reduced(matched) \o Opened(fill, matched)
        /\ realized' = realized + Sum(Profit(fill, matched), Len(lots))
        /\ position' = position + Sign(fill.side) * fill.quantity
        /\ cash' = cash - fill.quantity * (Sign(fill.side) * fill.price + fill.fee)
        /\ fills' = fills + 1

Next ==
    /\ fills < MaxFills
    /\ \E side \in {"BUY", "SELL"}, q \in Quantities, p \in Prices, f \in Fees :
          ApplyFill([side |-> side, quantity |-> q, price |-> p, fee |-> f])

Spec == Init /\ [][Next]_vars

-----------------------------------------------------------------------------
\* mark_to_market at one price.
Unrealized(mark) ==
    Sum([i \in DOMAIN lots |->
            lots[i].quantity * (Sign(lots[i].side) * (mark - lots[i].price)
                                    - lots[i].fee)], Len(lots))

LotsAreThePosition ==
    /\ \A i, j \in DOMAIN lots : lots[i].side = lots[j].side
    /\ Sum([i \in DOMAIN lots |-> Sign(lots[i].side) * lots[i].quantity],
           Len(lots)) = position

\* After any sequence of fills, partial closes and reversals, the open lots are
\* of one side and amount to the net of the fills, and realized and unrealized
\* profit together are what liquidating at the mark would leave: no fee is
\* counted twice or lost when lots are closed in part.
ProfitIsEquity ==
    /\ LotsAreThePosition
    /\ \A mark \in Prices : realized + Unrealized(mark) = cash + position * mark
=============================================================================
