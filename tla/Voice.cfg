\* Two users behind one address, two ports, whispers to a user or a channel.
CONSTANTS
    u1 = u1  u2 = u2
    h1 = h1
    c1 = c1
    Users = {u1, u2}
    NoUser = NoUser
    Hosts = {h1}
    HostOf <- OneHost
    Ports = {1, 2}
    Channels = {c1}
    NoChannel = NoChannel
    Targets = {1}
    Addressed <- ToUserOrChannel
    NoTarget = NoTarget
    NoCache = NoCache
SPECIFICATION Spec
INVARIANTS TypeOK EntriesListed OneWayIn
PROPERTY SpeakerListed
\* Users connect once, and a leaked lock stops both threads for good.
CHECK_DEADLOCK FALSE
