\* Three requests, the second answered by nothing; every thread fair.
SPECIFICATION FairSpec
CONSTANTS
    MaxRequests = 3
    Silent = {2}
INVARIANTS TypeOK UsedExists NothingOutlives EventsFollow
PROPERTIES EventsSent QuitStops
\* The program ends.
CHECK_DEADLOCK FALSE
