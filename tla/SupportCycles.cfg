SPECIFICATION SupportSpec
CONSTANTS
    Tasks = {t1, t2}
    Ids = {r1, r2}
    Inputs <- SomeInputs
    WorkflowInputs <- SomeWorkflowInputs
    GatewayInputs <- SomeGatewayInputs
    NaN = NaN
    MaxCalls = 3
SYMMETRY TaskSymmetry
CHECK_DEADLOCK FALSE
INVARIANTS
    RecordFollowsHistory
    MostUrgentHandled
    WorkflowsRefusedForCause
    EventsFollowUpdates
PROPERTY RecordsOnlyAdvance
