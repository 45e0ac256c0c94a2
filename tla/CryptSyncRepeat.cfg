\* A packet repeated by the network after a late answer is accepted again.
CONSTANTS
    Half = 2
    Window = 2
    Start = 6
    MaxPackets = 7
    UIntRange = 64
    MaxResync = 2
SPECIFICATION SyncSpec
INVARIANT AtMostOnce
