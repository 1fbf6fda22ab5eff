CONSTANTS
    Regions = {"phoenix", "ashburn", "london"}
    GpuTypes = {"a100", "mock"}
    Catalogue <- MCCatalogue
    Profiles <- MCProfiles
    DEFAULT_CUSTOMER_REGION = "phoenix"
    NotGiven = NotGiven
    Hyphenated <- MCHyphenated
    ReservationIds <- MCReservationIds
    MaxGpus = 2
    Durable = TRUE
    Planners = {w1, w2}
    Events <- MCEvents
SPECIFICATION SchedulerSpec
INVARIANTS
    SchedulerTypeOK
    PlacedWithinPolicy
    PendingOnlyIfEachSeenFull
    DecisionStands
    NextPoolIsDetermined
SYMMETRY MCSymmetry
PROPERTY FallbackOnlyFromFullPools
