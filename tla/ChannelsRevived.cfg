\* With MySQL, a channel is given the number of a removed one, and its link.
CONSTANTS
    MaxId = 2
    Names = {x, y}
    Users = {u1}
    MaxEvents = 2
    Linkable = {1, 2}
    Rpc = FALSE
SPECIFICATION Spec
INVARIANT NoLinkRevived
