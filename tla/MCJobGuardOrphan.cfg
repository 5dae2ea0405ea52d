SPECIFICATION Spec
CONSTANTS
    GuardTimeout = 5
    GuardGrace = 2
    PhaseTimeouts <- MCPhaseTimeouts
    PhaseGraces = {2}
    LeaseMargin = 1
    Stubborn = TRUE
    LateSignals = FALSE
    MaxTime = 9
INVARIANTS
    NoOrphan
CHECK_DEADLOCK FALSE
