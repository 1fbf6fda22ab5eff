CONSTANTS
    Regions = {"phoenix"}
    GpuTypes = {"a100"}
    Catalogue <- MCCatalogue
    ReservationIds = {r1, r2}
    MaxGpus = 1
    Durable = TRUE
    Transactions = {t1, t2}
    ConcurrentRetries = TRUE
    LateActivations = FALSE
SPECIFICATION PgSpec
PROPERTY HeldNeverMoves
