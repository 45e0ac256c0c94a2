\* Clients and RPC: the root and two channels, one user.
CONSTANTS
    MaxId = 2
    Names = {x}
    Users = {u1}
    MaxEvents = 1
    Linkable = {0, 1, 2}
    Rpc = TRUE
SPECIFICATION Spec
INVARIANTS TreeOK LinksSymmetric
