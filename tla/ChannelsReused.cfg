\* The number of a removed channel is given to a permanent one.
CONSTANTS
    MaxId = 2
    Names = {x, y}
    Users = {u1, u2}
    MaxEvents = 3
    Linkable = {1}
    Rpc = FALSE
SPECIFICATION Spec
PROPERTY RemovedIfTemporary
