CONSTANTS
    w1 = w1
    w2 = w2
    Regions = {"phoenix"}
    GpuTypes = {"a100"}
    Catalogue <- MCCatalogue
    ReservationIds = {w1, w2}
    MaxGpus = 2
    Durable = TRUE
    Demand <- MCDemand
    CustomerOf <- MCOneCustomer
    Accepted = {w1, w2}
    MaxRuns = 1
    Cancellations = TRUE
    MaxLate = 1
SPECIFICATION FairWorkflowSpec
CHECK_DEADLOCK FALSE
INVARIANTS
    ActiveIsServed
    DeployedIsReserved
    GpusAccountedFor
    OverbookingNeedsReactivation
PROPERTIES
    RunsEnd
    ImplementsAllocationLife
