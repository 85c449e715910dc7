CONSTANTS
    z1 = z1
    z2 = z2
    u1 = u1
    u2 = u2
    n1 = n1
    n2 = n2
    x1 = x1
    x2 = x2
    x3 = x3
    Zone = {z1, z2}
    User = {u1, u2}
    Name = {n1, n2}
    RoleCount = 1
    OldUser = {}
    Xid = {x1, x2, x3}
    NoName = NoName
    NoCall = NoCall
    Free = Free
    MaxAsked = 4
    MaxFaults = 1
SYMMETRY Symmetry
SPECIFICATION LateSpec
INVARIANT RenameResultIsTold
CHECK_DEADLOCK FALSE
