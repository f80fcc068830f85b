SPECIFICATION Spec
CONSTANTS
    s1 = s1
    s2 = s2
    v1 = v1
    v2 = v2
    a = a
    b = b
    c = c
    p = p
    q = q
    x = x
    y = y
    z = z
    Followups = {s1, s2}
    Conversations = {v1, v2}
    Callers = {a, b, c}
    Pollers = {p, q}
    Plans <- MCPolls
    Attempts = {x, y, z}
    Free = Free
    Gone = Gone
    NoMatch = NoMatch
    Ambiguous = Ambiguous
    MaxMail = 2
INVARIANT
    NoReplyIsLost
CHECK_DEADLOCK FALSE
