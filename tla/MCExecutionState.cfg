SPECIFICATION Spec
CONSTANTS
    None = None
    decisionJob = decisionJob
    closeJob = closeJob
    d1 = d1
    d2 = d2
    flat = flat
    long = long
    Jobs <- MCJobs
    Decisions <- MCDecisions
    Inventories <- MCInventories
INVARIANTS
    AtMostOneExecuting
PROPERTIES
    NeverSubmittableAgain
    PlanFrozenOnceSubmitted
    IntentsNeverReplaced
CHECK_DEADLOCK TRUE
