SPECIFICATION Spec
CONSTANTS
    j1 = j1
    u1 = u1
    p1 = p1
    p2 = p2
    a = a
    b = b
    c = c
    None = None
    Nodes <- MCNodes
    Workflows <- MCLongBranch
    Jobs = {j1}
    Resumes = {u1}
    ProcessOf <- MCProcessOf
    MaxNodeExecutions = 4
    MaxIncidents <- MCMaxIncidents
INVARIANT
    SuccessIsComplete
CHECK_DEADLOCK FALSE
