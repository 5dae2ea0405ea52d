SPECIFICATION Spec
CONSTANTS
    guard = guard
    cli = cli
    reconcile = reconcile
    Clients <- MCClients
    Ttls <- MCTtls
    MaxNow = 5
INVARIANTS
    LeaseExclusive
PROPERTIES
    LiveLeaseNotStolen
