SPECIFICATION ScheduledSpec
CONSTANTS
    dec1 = dec1
    dec2 = dec2
    cls = cls
    decision = decision
    close = close
    None = None
    Tickers <- MCTickers
    SplitTicker = "etf"
    SplitThreshold = 2
    Lot <- MCLot
    Jobs <- MCJobs
    CloseJobs <- MCCloseJobs
    JobOf <- MCJobOf
    Procs <- DecisionAndClose
    Guarded <- DecisionAndClose
    Broker = "tachibana"
    SubmitOutcomes <- Unreliable
    Overrun = FALSE
    QueryErrors = FALSE
    Targets <- EtfTarget
    Opening <- Flat
    MaxFaults = 2
INVARIANTS
    DelayedCloseAfterFirst
PROPERTIES
    IdentifiedRunsComplete
CHECK_DEADLOCK FALSE
