SPECIFICATION Spec
CONSTANTS
    a = a
    b = b
    c = c
    p = p
    q = q
    x = x
    y = y
    Requests = {a, b, c}
    Pollers = {p, q}
    Contents = {x, y}
    Timed = {y}
    Plans <- MCPlans
    NoRow = NoRow
    Seed = Seed
INVARIANTS
    TypeOK
    OneActiveVersion
    
PROPERTY
    PublishReplacesWhatItRead
CHECK_DEADLOCK FALSE
