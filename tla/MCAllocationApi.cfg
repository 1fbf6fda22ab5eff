CONSTANTS
    Keys = {r1, r2}
    Outcomes = {"active", "pending_capacity", "failed"}
    Clients = {c1}
    MaxEvents = 2
    Asked = r1
SPECIFICATION MCSpec
CHECK_DEADLOCK FALSE
INVARIANTS
    ApiTypeOK
    AcceptedIsPublished
    LookUpIsTruthful
    StatusHasEvent
PROPERTIES
    RequestsAreAnswered
