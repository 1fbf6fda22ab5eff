CONSTANTS
    Regions = {"phoenix"}
    GpuTypes = {"a100"}
    Catalogue <- MCSmallCatalogue
    ReservationIds = {r1, r2}
    MaxGpus = 1
    Durable = TRUE
    Transactions = {t1, t2}
    ConcurrentRetries = TRUE
    LateActivations = TRUE
SPECIFICATION FairPgSpec
INVARIANTS OverbookingNeedsReactivation DeadlockNeedsRetry
PROPERTIES ReservesEnd OnlyUnseenOverwritten
