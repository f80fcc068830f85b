SPECIFICATION Spec
CONSTANTS
    a = a
    b = b
    c = c
    p = p
    q = q
    x = x
    y = y
    Requests = {a, b, c}
    Pollers = {p, q}
    Contents = {x, y}
    Timed = {y}
    Plans <- MCInert
    NoRow = NoRow
    Seed = Seed
INVARIANT
    UpToDateIsLive
CHECK_DEADLOCK FALSE
