\* Resynchronisation racing with voice packets.
CONSTANTS
    Half = 2
    Window = 2
    Start = 6
    MaxPackets = 7
    UIntRange = 64
    MaxResync = 2
SPECIFICATION SyncSpec
INVARIANTS RepeatsPerResync NeverAheadOfSender
