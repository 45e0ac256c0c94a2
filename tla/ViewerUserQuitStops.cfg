\* A viewer that stays while the user quits.
SPECIFICATION FairSpec
CONSTANTS
    MaxRequests = 0
    Silent = {}
PROPERTY UserQuitStops
\* The program ends.
CHECK_DEADLOCK FALSE
