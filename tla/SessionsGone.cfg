SPECIFICATION Spec
CONSTANTS
    Conns = {c1, c2, c3}
    Users = {0, 1}
    Guests = {guest}
    NoName = NoName
    SamePeer = {{c1, c2}}
    NumIds = 3
    MaxUsers = 2
    Compat = 1
    CodecSets = {{1}, {2}}
    Reentrant = TRUE
INVARIANT SessionThere
CHECK_DEADLOCK FALSE
