---------------------------- MODULE PlannedFills ----------------------------
(***************************************************************************)
(* What the orders of one plan do to the inventory as they fill: the       *)
(* batches go out in the order submit_orders_via_api and                   *)
(* _submit_close_order_batches send them (closes, immediate new orders,    *)
(* delayed orders), and inside a batch the fills arrive in any order.      *)
(***************************************************************************)
EXTENDS OrderPlanning

CONSTANTS
    MaxShares,    \* bound on a position, in shares
    Alphas        \* overnight shares (in hundredths) of the close job

ASSUME FillsAssumption == MaxShares \in Nat /\ Alphas \subseteq 0 .. 100

VARIABLES
    job,          \* "decision" or "close"
    current,      \* the inventory the plan was built from
    target,       \* the inventory it is meant to reach (decision)
    alpha,        \* the share it is meant to hold (close)
    batches,      \* batches of orders not yet completely filled
    position      \* the inventory now

vars == <<job, current, target, alpha, batches, position>>

Holdings == [TickerSet -> -MaxShares .. MaxShares]

NonEmpty(seqs) == Entries(seqs, {b \in DOMAIN seqs : seqs[b] # <<>>})

\* Mutant: the other side is opened before the old position is closed.
NewBatchesFirst(tgt, cur) ==
    NonEmpty(<<Immediate(NewOrders(tgt, cur)),
               CloseOrders(tgt, cur),
               Delayed(NewOrders(tgt, cur))>>)

DecisionBatches(tgt, cur) ==
    NonEmpty(<<CloseOrders(tgt, cur),
               Immediate(NewOrders(tgt, cur)),
               Delayed(NewOrders(tgt, cur))>>)

\* The broker's position list for an inventory: one lot per ticker held.
Positions(cur) == OrdersFor(cur)

CloseBatches(cur, a) ==
    LET orders == DayCloseOrders(Positions(cur), a, a)
    IN  NonEmpty(<<Immediate(orders), Delayed(orders)>>)

Init ==
    /\ current \in Holdings
    /\ position = current
    /\ \/ /\ job = "decision"
          /\ target \in Holdings
          /\ alpha = 0
          /\ batches = DecisionBatches(target, current)
       \/ /\ job = "close"
          /\ target = current
          /\ alpha \in Alphas
          /\ batches = CloseBatches(current, alpha)

\* One order of the batch that is out fills; the next batch follows when none
\* is left.
Fill(i) ==
    LET o == batches[1][i]
        rest == Entries(batches[1], DOMAIN batches[1] \ {i})
    IN  /\ position' = [position EXCEPT ![o.ticker] = @ + Signed(o)]
        /\ batches' = NonEmpty(<<rest>> \o Tail(batches))
        /\ UNCHANGED <<job, current, target, alpha>>

Next == batches # <<>> /\ \E i \in DOMAIN batches[1] : Fill(i)

Spec == Init /\ [][Next]_vars

-----------------------------------------------------------------------------
ReachesTarget == job = "decision" /\ batches = <<>> => position = target

LeavesOvernightShare ==
    job = "close" /\ batches = <<>> =>
        \A t \in TickerSet :
            current[t] % Lot[t] = 0 =>
                /\ position[t] * current[t] >= 0
                /\ Abs(200 * Abs(position[t]) - 2 * alpha * Abs(current[t]))
                       <= 100 * Lot[t]
                /\ alpha = 0 => position[t] = 0
                /\ alpha = 100 => position[t] = current[t]

OrdersAreWholeLots ==
    (\A t \in TickerSet : current[t] % Lot[t] = 0 /\ target[t] % Lot[t] = 0)
        => \A b \in DOMAIN batches : \A i \in DOMAIN batches[b] :
              batches[b][i].qty % Lot[batches[b][i].ticker] = 0

\* Filled completely, a decision's close, immediate and delayed orders bring
\* every ticker to its target, and the close job leaves each whole-lot position
\* within half a lot of its overnight share, nothing of it at alpha 0 and all
\* at 100: splitting loses and duplicates no share, and its parts are whole
\* lots whenever the inventories are.
PlansAreExact == ReachesTarget /\ LeavesOvernightShare /\ OrdersAreWholeLots

\* n lies on the way from a to b.
OnTheWay(n, a, b) == Least(a, b) <= n /\ n <= Greatest(a, b)

\* What a decision leaves of a position when it repays: nothing of one whose
\* sign the target changes, the smaller of both otherwise.
Retained(held, aim) ==
    IF held >= 0 THEN Greatest(0, Least(held, aim)) ELSE Least(0, Greatest(held, aim))

\* A decision repays before it opens: either every position is still on the way
\* from what was held to what is retained of it, or all of them have got there
\* and are on the way to their targets.  So no ticker's new order fills while a
\* close of any ticker is open, a position reverses only through zero, and none
\* moves away from its target or passes it.
PlanNeverOvershoots ==
    job = "decision" =>
        \/ \A t \in TickerSet :
              OnTheWay(position[t], current[t], Retained(current[t], target[t]))
        \/ \A t \in TickerSet :
              OnTheWay(position[t], Retained(current[t], target[t]), target[t])

\* A target that _is_reduction_only accepts on a risk-stopped day never adds
\* exposure, neither at the end nor while its orders fill.
ReductionOnlyReduces ==
    job = "decision" /\ IsReductionOnly(target, current) =>
        \A t \in TickerSet :
            /\ position[t] * current[t] >= 0
            /\ Abs(position[t]) <= Abs(current[t])
=============================================================================
