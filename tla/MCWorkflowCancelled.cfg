CONSTANTS
    w1 = w1
    w2 = w2
    Regions = {"phoenix"}
    GpuTypes = {"a100"}
    Catalogue <- MCCatalogue
    ReservationIds = {w1, w2}
    MaxGpus = 2
    Durable = FALSE
    Demand <- MCDemand
    CustomerOf <- MCTwoCustomers
    Accepted = {w1, w2}
    MaxRuns = 2
    Cancellations = TRUE
    MaxLate = 0
SPECIFICATION WorkflowSpec
CHECK_DEADLOCK FALSE
INVARIANTS
    WorkflowTypeOK
    GpusAccountedFor
    DeployedIsReserved
    NoOverbooking
    StuckOnlyOnRestart
PROPERTY ImplementsAllocationLife
