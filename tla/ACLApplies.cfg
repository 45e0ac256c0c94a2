SPECIFICATION Spec
CONSTANTS
    Channels = {0, 1, 2}
    Users = {u1}
    u1 = u1
    u2 = u2
    NoGroup = NoGroup
    Uncached = Uncached
    Session <- MCSession
    Hashed = {u1}
    Registered = {0, 1}
    GroupNames = {"g"}
    Initial <- MCInitial
    Settings <- MCSettings
    TempIn = {0}
    TempIds <- MCTempIds
    Movable = {2}
    MaxSent = 2
INVARIANT AppliesAsSaid
