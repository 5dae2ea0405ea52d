----------------------------- MODULE MCQuantities -----------------------------
(***************************************************************************)
(* Quantities on a small instance: "1629" trades in lots of two and is     *)
(* split from four shares on (10 and 100 in production), the other trades  *)
(* in single shares.                                                       *)
(***************************************************************************)
EXTENDS Quantities, TLC
CONSTANTS t1629, other

MCTickers == <<other, t1629>>
MCLot == (other :> 1 @@ t1629 :> 2)
MCAlphas == {0, 25, 50, 100}

MCTargets == [TickerSet -> {-6, 0, 6}]
MCInventories == [TickerSet -> {-6, -2, 0, 6}]
\* Lots of two tickers, and two lots of one ticker, bought or sold, in both
\* orders: the first is split, the second, both or none.
MCBrokerLots ==
    {<<Order(t1629, "BUY", q), Order(other, "SELL", 2)>> : q \in 1 .. 7}
        \cup {<<Order(t1629, "BUY", q), Order(t1629, side, r), Order(other, "SELL", 2)>> :
                 side \in {"BUY", "SELL"}, q \in {2, 5, 8}, r \in {2, 4, 5}}

MCWeights == -2 .. 2
=============================================================================
