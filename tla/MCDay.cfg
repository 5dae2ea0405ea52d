SPECIFICATION Spec
CONSTANTS
    dec1 = dec1
    dec2 = dec2
    cls = cls
    decision = decision
    close = close
    None = None
    Tickers <- MCTickers
    SplitTicker = "etf"
    SplitThreshold = 2
    Lot <- MCLot
    Jobs <- MCJobs
    CloseJobs <- MCCloseJobs
    JobOf <- MCJobOf
    Procs <- DecisionAndClose
    Guarded <- CloseOnly
    Broker = "tachibana"
    SubmitOutcomes <- Unreliable
    Overrun = FALSE
    QueryErrors = TRUE
    Targets <- ReverseTarget
    Opening <- LongStock
    MaxFaults = 1
INVARIANTS
    TypeOK
    NewAfterCloses
    CompletedMeansSettled
PROPERTIES
    ImplementsTradingDay
CHECK_DEADLOCK FALSE
