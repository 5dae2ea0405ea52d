----------------------------- MODULE Quantities -----------------------------
(***************************************************************************)
(* From money to shares to orders to profit: the allocator's balancing     *)
(* loop, the planned orders and their fills, the attribution of broker     *)
(* orders to planned quantities, and the profit ledger.  They share no     *)
(* state, and a behaviour explores one of them with the others at rest.    *)
(***************************************************************************)
EXTENDS PlannedFills, ResultRecording

CONSTANTS
    Size, Weights, LotPrices, Scale, NetLimits, MaxSteps,  \* NetBalancing
    Quantities, Prices, Fees, MaxFills                     \* InventoryLedger

VARIABLES weight, lotPrice, netLimit, lots, remaining, steps, balancing

balancingVars == <<weight, lotPrice, netLimit, lots, remaining, steps, balancing>>

Balancing == INSTANCE NetBalancing

BalancingConverges == Balancing!BalancingConverges

ASSUME BalancingAssumption ==
    /\ Size \in Nat /\ Scale \in Nat /\ MaxSteps \in Nat \ {0}
    /\ Weights \subseteq Int /\ LotPrices \subseteq Nat /\ NetLimits \subseteq Nat

-----------------------------------------------------------------------------
VARIABLES open, realized, fills, held, cash

ledgerVars == <<open, realized, fills, held, cash>>

Ledger == INSTANCE InventoryLedger WITH lots <- open, position <- held

ProfitIsEquity == Ledger!ProfitIsEquity

ASSUME LedgerAssumption ==
    /\ MaxFills \in Nat /\ Quantities \subseteq Nat \ {0}
    /\ Prices \subseteq Int /\ Fees \subseteq Int

-----------------------------------------------------------------------------
FillsAtRest ==
    /\ job = "close" /\ alpha = 0 /\ batches = <<>>
    /\ current = [t \in TickerSet |-> 0]
    /\ target = current /\ position = current

RecordingAtRest ==
    plan = <<>> /\ unsent = <<>> /\ results = <<>> /\ saved = <<>> /\ alive = FALSE

BalancingAtRest ==
    /\ weight = [i \in 1 .. Size |-> 0] /\ lotPrice = weight /\ netLimit = 0
    /\ lots = weight /\ remaining = [side \in {"BUY", "SELL"} |-> 0]
    /\ steps = 0 /\ balancing = FALSE

LedgerAtRest ==
    open = <<>> /\ realized = 0 /\ fills = MaxFills /\ held = 0 /\ cash = 0

QuantitiesInit ==
    \/ Init /\ RecordingAtRest /\ BalancingAtRest /\ LedgerAtRest
    \/ FillsAtRest /\ RecordingInit /\ BalancingAtRest /\ LedgerAtRest
    \/ FillsAtRest /\ RecordingAtRest /\ Balancing!Init /\ LedgerAtRest
    \/ FillsAtRest /\ RecordingAtRest /\ BalancingAtRest /\ Ledger!Init

QuantitiesNext ==
    \/ Next /\ UNCHANGED <<recordingVars, balancingVars, ledgerVars>>
    \/ RecordingNext /\ UNCHANGED <<vars, balancingVars, ledgerVars>>
    \/ Balancing!Next /\ UNCHANGED <<vars, recordingVars, ledgerVars>>
    \/ Ledger!Next /\ UNCHANGED <<vars, recordingVars, balancingVars>>

QuantitiesSpec ==
    QuantitiesInit /\ [][QuantitiesNext]_<<vars, recordingVars, balancingVars, ledgerVars>>
=============================================================================
