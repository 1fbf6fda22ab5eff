CONSTANTS
    Workers = {d1, d2}
    Keys = {a}
    Events <- MCEvents
    MaxEvents = 2
    MaxFailures = 1
SPECIFICATION FairDispatcherSpec
CHECK_DEADLOCK FALSE
INVARIANTS
    DispatcherTypeOK
    NothingSkipped
PROPERTIES
    ImplementsEventDelivery
    EventsHandled
