\* A user enters a temporary channel whose removal is posted.
CONSTANTS
    MaxId = 2
    Names = {x, y}
    Users = {u1, u2}
    MaxEvents = 3
    Linkable = {1}
    Rpc = FALSE
SPECIFICATION Spec
PROPERTY RemovedWhenEmpty
