\* One socket suffices: the packet arrives before stopThread clears bRunning.
CONSTANTS
    Users = {u1, u2}
    NoUser = NoUser
    Sockets = 1
    MaxFailures = 0
SPECIFICATION Spec
PROPERTY StopAlwaysReturns
CHECK_DEADLOCK FALSE

