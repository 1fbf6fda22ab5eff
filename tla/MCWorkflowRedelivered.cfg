CONSTANTS
    w1 = w1
    w2 = w2
    Regions = {"phoenix"}
    GpuTypes = {"a100"}
    Catalogue <- MCOnePool
    ReservationIds = {w1, w2}
    MaxGpus = 1
    Durable = TRUE
    Demand <- MCOneGpu
    CustomerOf <- MCTwoCustomers
    Accepted = {w1, w2}
    MaxRuns = 2
    Cancellations = FALSE
    MaxLate = 0
SPECIFICATION WorkflowSpec
CHECK_DEADLOCK FALSE
INVARIANT RaisesOnlyWithoutReservation
