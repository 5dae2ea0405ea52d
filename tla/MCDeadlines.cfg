SPECIFICATION DeadlinesSpec
CONSTANTS
    GuardTimeout = 5
    GuardGrace = 2
    PhaseTimeouts <- MCPhaseTimeouts
    PhaseGraces = {1, 2}
    LeaseMargin = 1
    Stubborn = TRUE
    LateSignals = TRUE
    MaxTime = 9
INVARIANTS
    GroupDeadOnReturn
    WorkUnderLease
    SnapshotOutlivesReplay
    NothingLeftBehind
PROPERTIES
    GuardReturns
    NothingPublishedLate
    CallReturns
CHECK_DEADLOCK FALSE
