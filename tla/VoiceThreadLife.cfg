\* Two users come and go, two sockets, poll fails once.
CONSTANTS
    Users = {u1, u2}
    NoUser = NoUser
    Sockets = 2
    MaxFailures = 1
SPECIFICATION Spec
INVARIANTS TypeOK OneReader StaysStopped
PROPERTY StopReturns
\* A lock that is never given back stops both threads.
CHECK_DEADLOCK FALSE
