\* Late packets after a jump forward take uiLost below zero.
CONSTANTS
    Half = 2
    Window = 2
    Start = 6
    MaxPackets = 7
    UIntRange = 64
    MaxResync = 2
SPECIFICATION SyncSpec
INVARIANT LostWithinSent
