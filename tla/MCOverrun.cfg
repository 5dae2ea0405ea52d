SPECIFICATION Spec
CONSTANTS
    dec1 = dec1
    dec2 = dec2
    cls = cls
    decision = decision
    close = close
    None = None
    Tickers <- MCTickers
    SplitTicker = "etf"
    SplitThreshold = 2
    Lot <- MCLot
    Jobs <- MCJobs
    CloseJobs <- MCCloseJobs
    JobOf <- MCJobOf
    Procs <- WithRestart
    Guarded <- CloseOnly
    Broker = "tachibana"
    SubmitOutcomes <- AcceptedOrLost
    Overrun = TRUE
    QueryErrors = FALSE
    Targets <- EtfTarget
    Opening <- Flat
    MaxFaults = 1
SYMMETRY DecisionsAlike
INVARIANTS
    SendingIsExclusive
    NeverSentTwice
CHECK_DEADLOCK FALSE
