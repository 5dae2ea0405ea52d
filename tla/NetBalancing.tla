----------------------------- MODULE NetBalancing -----------------------------
(***************************************************************************)
(* allocate_capital: each side of the target weights is given whole lots   *)
(* within its budget, and a greedy loop then moves one lot at a time until *)
(* the difference of the two sides is within the net limit, adding a lot   *)
(* to the smaller side when its budget allows it, and taking one from the  *)
(* larger side otherwise.                                                  *)
(*                                                                         *)
(* Money is in whole units, weights in units of the weight that one        *)
(* Scale of budget stands for; the code's floats, with a tolerance of a    *)
(* billionth, are integers here.                                           *)
(***************************************************************************)
EXTENDS Integers, Functions

CONSTANTS
    Size,       \* number of tickers
    Weights,    \* target weights, negative to sell
    LotPrices,  \* prices of a lot; 0 is a price that could not be fetched
    Scale,      \* capital times side leverage, for a weight of 1
    NetLimits,  \* values of max_net_exposure times capital
    MaxSteps    \* iterations of the greedy loop (500)

VARIABLES
    weight,     \* of each ticker
    lotPrice,   \* of each ticker
    netLimit,
    lots,       \* lots allocated to each ticker
    remaining,  \* what the loop believes is left of each side's budget
    steps,      \* iterations of the loop
    balancing   \* the loop has not ended

vars == <<weight, lotPrice, netLimit, lots, remaining, steps, balancing>>

Indices == 1 .. Size
Sides == {"BUY", "SELL"}

Magnitude(n) == IF n < 0 THEN -n ELSE n

On(side) == {i \in Indices : IF side = "BUY" THEN weight[i] > 0 ELSE weight[i] < 0}

Value == [i \in Indices |-> lots[i] * lotPrice[i]]
Total(side) == SumFunctionOnSet(Value, On(side))

\* The gross budget times the side's share of the weights.
Share == [i \in Indices |-> Magnitude(weight[i])]
Budget(side) == Scale * SumFunctionOnSet(Share, On(side))

Net == Total("BUY") - Total("SELL")

\* Whole lots within the ticker's share of its side's budget.
InitialLots(i) ==
    IF weight[i] = 0 \/ lotPrice[i] = 0
    THEN 0
    ELSE (Scale * Magnitude(weight[i])) \div lotPrice[i]

Init ==
    /\ weight \in [Indices -> Weights]
    /\ lotPrice \in [Indices -> LotPrices]
    /\ netLimit \in NetLimits
    /\ lots = [i \in Indices |-> InitialLots(i)]
    /\ remaining = [side \in Sides |-> Budget(side) - Total(side)]
    /\ steps = 0
    /\ balancing = TRUE

-----------------------------------------------------------------------------
Larger == IF Net > 0 THEN "BUY" ELSE "SELL"
Smaller == IF Net > 0 THEN "SELL" ELSE "BUY"

Priced(side) == {i \in On(side) : lotPrice[i] > 0}
CanAdd == {i \in Priced(Smaller) : lotPrice[i] <= remaining[Smaller]}

CanRemove == {i \in Priced(Larger) : lots[i] > 0}

NetAfter(i) == Magnitude(Magnitude(Net) - lotPrice[i])

\* The candidate that leaves the smallest net, the first among equals.
Best(candidates) ==
    CHOOSE i \in candidates : \A j \in candidates :
        NetAfter(i) < NetAfter(j) \/ (NetAfter(i) = NetAfter(j) /\ i <= j)

OverLimit == Magnitude(Net) > netLimit
Candidates == CanAdd \cup CanRemove
Goes == balancing /\ OverLimit /\ steps < MaxSteps

\* One lot is added to the smaller side.
AddLot ==
    /\ Goes /\ CanAdd # {}
    /\ LET i == Best(CanAdd)
       IN  /\ lots' = [lots EXCEPT ![i] = @ + 1]
           /\ remaining' = [remaining EXCEPT ![Smaller] = @ - lotPrice[i]]
    /\ steps' = steps + 1
    /\ UNCHANGED <<weight, lotPrice, netLimit, balancing>>

\* Mutant: the smaller side shrinks further.
RemoveFromSmaller ==
    /\ Goes /\ CanAdd = {}
    /\ \E i \in Priced(Smaller) :
          /\ lots[i] > 0
          /\ lots' = [lots EXCEPT ![i] = @ - 1]
          /\ remaining' = [remaining EXCEPT ![Smaller] = @ + lotPrice[i]]
    /\ steps' = steps + 1
    /\ UNCHANGED <<weight, lotPrice, netLimit, balancing>>

\* No lot of the smaller side fits: one of the larger side goes.
RemoveLot ==
    /\ Goes /\ CanAdd = {} /\ CanRemove # {}
    /\ LET i == Best(CanRemove)
       IN  /\ lots' = [lots EXCEPT ![i] = @ - 1]
           /\ remaining' = [remaining EXCEPT ![Larger] = @ + lotPrice[i]]
    /\ steps' = steps + 1
    /\ UNCHANGED <<weight, lotPrice, netLimit, balancing>>

\* Within the limit, after the last iteration, or without a candidate.
Stop ==
    /\ balancing
    /\ ~OverLimit \/ steps = MaxSteps \/ Candidates = {}
    /\ balancing' = FALSE
    /\ UNCHANGED <<weight, lotPrice, netLimit, lots, remaining, steps>>

Next == AddLot \/ RemoveLot \/ Stop

Spec == Init /\ [][Next]_vars

-----------------------------------------------------------------------------
WithinBudget ==
    \A side \in Sides :
        /\ Total(side) <= Budget(side)
        /\ remaining[side] = Budget(side) - Total(side)

NeverStuck == balancing /\ OverLimit => Candidates # {}

\* The iterations are enough to move the budget of either side in any lots.
EnoughSteps ==
    \A side \in Sides, i \in Indices :
        lotPrice[i] > 0 => Budget(side) <= lotPrice[i] * (MaxSteps - 1)

FineLotsConverge ==
    (\A i \in Indices : lotPrice[i] <= 2 * netLimit) /\ EnoughSteps =>
        /\ ~balancing => ~OverLimit
        /\ steps < MaxSteps

\* No side ever costs more than its budget, what the loop takes from and gives
\* back to a budget agrees with what is allocated, and it never runs out of
\* moves over the limit.  With lots no coarser than the band, twice the limit,
\* and a budget of no more lots than it has iterations, it ends within the
\* limit before its last one; with coarser lots it can move one lot to and fro
\* and end outside the limit.
BalancingConverges == WithinBudget /\ NeverStuck /\ FineLotsConverge
=============================================================================
