CONSTANTS
    Regions = {"phoenix"}
    GpuTypes = {"a100"}
    Catalogue <- MCCatalogue
    ReservationIds = {r1, r2, r3}
    MaxGpus = 2
    Durable = TRUE
    Transactions = {t1, t2}
    ConcurrentRetries = FALSE
    LateActivations = FALSE
SPECIFICATION PgSpec
SYMMETRY MCSymmetry
INVARIANT PgTypeOK
PROPERTY ImplementsReservationStore
