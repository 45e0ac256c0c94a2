\* RPC gives two siblings one name.
CONSTANTS
    MaxId = 2
    Names = {x, y}
    Users = {u1}
    MaxEvents = 2
    Linkable = {0}
    Rpc = TRUE
SPECIFICATION Spec
INVARIANT NamesUnique
