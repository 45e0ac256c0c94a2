\* RPC asks for a link to be taken away.
CONSTANTS
    MaxId = 2
    Names = {x}
    Users = {u1}
    MaxEvents = 2
    Linkable = {0, 1}
    Rpc = TRUE
SPECIFICATION Spec
PROPERTY RelinkedAsAsked
