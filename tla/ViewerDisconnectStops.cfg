\* A viewer that connects and leaves.
SPECIFICATION FairSpec
CONSTANTS
    MaxRequests = 0
    Silent = {}
PROPERTY DisconnectStops
\* The program ends.
CHECK_DEADLOCK FALSE
