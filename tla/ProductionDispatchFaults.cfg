SPECIFICATION FairSpec
CONSTANTS
    k = k
    w = w
    u = u
    Deliveries = {d1, d2}
    NoOne = NoOne
    KeyOf <- MCKeyOf
    WorkflowOf <- MCWorkflowOf
    UserOf <- MCUserOf
    MaxPerUser = 2
    MaxPerWorkflow = 1
    Attempts = 1
    LeaseCoversDispatch = TRUE
    RepliesMayBeLost = TRUE
INVARIANTS
    TypeOK
    WithinLimits
PROPERTIES
    NoKeyIsPoisoned
    ExecutionsSettle
    SlotsComeBack
CHECK_DEADLOCK FALSE
