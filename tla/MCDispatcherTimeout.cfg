CONSTANTS
    Workers = {d1}
    Keys = {a}
    Events <- MCValid
    MaxEvents = 1
    MaxFailures = 0
SPECIFICATION DispatcherSpec
CHECK_DEADLOCK FALSE
INVARIANT CommitWaitsForResult
