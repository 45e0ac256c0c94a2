\* poll never fails.
CONSTANTS
    Users = {u1, u2}
    NoUser = NoUser
    Sockets = 1
    MaxFailures = 0
SPECIFICATION Spec
INVARIANT PipeDrained
CHECK_DEADLOCK FALSE
