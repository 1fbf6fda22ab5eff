CONSTANTS
    w1 = w1
    w2 = w2
    Regions = {"phoenix"}
    GpuTypes = {"a100"}
    Catalogue <- MCOnePool
    ReservationIds = {w1, w2}
    MaxGpus = 1
    Durable = TRUE
    Demand <- MCOneGpu
    CustomerOf <- MCTwoCustomers
    Accepted = {w1, w2}
    MaxRuns = 1
    Cancellations = FALSE
    MaxLate = 0
SPECIFICATION HelmMayFailSpec
CHECK_DEADLOCK FALSE
PROPERTY HelmFailureIsResolved
