SPECIFICATION QuantitiesSpec
CONSTANTS
    t1629 = t1629
    other = other
    Tickers <- MCTickers
    SplitTicker = t1629
    SplitThreshold = 4
    Lot <- MCLot
    MaxShares = 6
    Alphas <- MCAlphas
    Targets <- MCTargets
    Inventories <- MCInventories
    BrokerLots <- MCBrokerLots
    Size = 3
    Weights <- MCWeights
    LotPrices = {0, 3, 5}
    Scale = 6
    NetLimits = {0, 2, 3}
    MaxSteps = 14
    Quantities = {1, 3}
    Prices = {1, 3}
    Fees = {0, 1}
    MaxFills = 4
INVARIANTS
    PlansAreExact
    PlanNeverOvershoots
    ReductionOnlyReduces
    PartsKeepTheirIntent
    FullyIdentifiedExactly
    BalancingConverges
    ProfitIsEquity
PROPERTIES
    IntentRetained
CHECK_DEADLOCK FALSE
