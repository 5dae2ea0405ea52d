SPECIFICATION Spec
CONSTANTS
    dec1 = dec1
    dec2 = dec2
    cls = cls
    decision = decision
    close = close
    None = None
    Tickers <- MCTickers
    SplitTicker = "etf"
    SplitThreshold = 2
    Lot <- MCLot
    Jobs <- MCJobs
    CloseJobs <- MCCloseJobs
    JobOf <- MCJobOf
    Procs <- OneDecision
    Guarded <- OneDecision
    Broker = "tachibana"
    SubmitOutcomes <- Unreliable
    Overrun = FALSE
    QueryErrors = FALSE
    Targets <- ReverseTarget
    Opening <- LongStock
    MaxFaults = 0
INVARIANTS
    DelayedNewAfterFirst
CHECK_DEADLOCK FALSE
