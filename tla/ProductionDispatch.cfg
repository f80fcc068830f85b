SPECIFICATION Spec
CONSTANTS
    k = k
    w = w
    u = u
    Deliveries = {d1, d2, d3}
    NoOne = NoOne
    KeyOf <- MCKeyOf
    WorkflowOf <- MCWorkflowOf
    UserOf <- MCUserOf
    MaxPerUser = 2
    MaxPerWorkflow = 1
    Attempts = 2
    LeaseCoversDispatch = TRUE
    RepliesMayBeLost = FALSE
INVARIANTS
    
    NothingHalfDone
CHECK_DEADLOCK FALSE
