\* Clients only: two users, the root and two channels.
CONSTANTS
    MaxId = 2
    Names = {x, y}
    Users = {u1, u2}
    MaxEvents = 3
    Linkable = {0, 1}
    Rpc = FALSE
SPECIFICATION Spec
INVARIANTS TypeOK NamesUnique EmptyGoes TempLeaf RestartRestores
