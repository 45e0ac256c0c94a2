\* The speaker is switched as well; nobody clicks.
SPECIFICATION Spec
CONSTANTS
    Kinds = {"MicOff", "SpeakerOff", "SpeakerOn"}
    Clicks = {}
    MaxPosted = 4
INVARIANT MicStaysOff
