\* One direction of the voice channel, without resynchronisation.
\* Bytes of 8 values; the run carries into the second byte (55 -> 56) and wraps
\* it (63 -> 64), where the zero-filled history starts to matter.
CONSTANTS
    Half = 4
    Window = 3
    Start = 54
    MaxPackets = 13
    UIntRange = 16
SPECIFICATION Spec
INVARIANTS TypeOK AtMostOnce LostExact
PROPERTY StreamSpec
