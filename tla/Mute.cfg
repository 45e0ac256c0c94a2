\* Every request, and a user clicking both boxes.
SPECIFICATION Spec
CONSTANTS
    Kinds = {"MicOff", "MicOn", "SpeakerOff", "SpeakerOn", "Volume", "Create", "Disconnect"}
    Clicks = {"mute", "deaf"}
    MaxPosted = 5
INVARIANTS TypeOK MuteShown DeafIsMuted
