\* A packet sent once, in the window, is taken as a repeat of the zero-filled
\* history when the second byte of its vector has wrapped to zero.
CONSTANTS
    Half = 4
    Window = 3
    Start = 61
    MaxPackets = 9
    UIntRange = 16
SPECIFICATION Spec
INVARIANT FreshInWindowAccepted
