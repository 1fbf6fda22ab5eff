CONSTANTS
    Workers = {d1}
    Keys = {a}
    Events <- MCWellFormed
    MaxEvents = 2
    MaxFailures = 0
SPECIFICATION FairDispatcherSpec
CHECK_DEADLOCK FALSE
PROPERTY InvalidEventsReachDlq
