# Models of Whisper and murmur

Whisper is a Mumble client that a virtual-world viewer drives over a local TCP
connection; murmur is the voice server it talks to. This directory holds TLA+
models of the parts of both that run several threads, lose packets, restart or
keep the same fact in two places, the TLC configurations that check them on
small instances, and TLAPS proofs of the most important properties for every
value of the constants. Paths below are relative to the repository; its
implementation sits in `src/` (client in `src/mumble`, server in `src/murmur`,
common code directly in `src`).

`PROJECT.json` relates every definition to the lines it models, lists the runs,
the hazards and the theorems, and gives for every property one faulty variant of
the code (an operator with the comment "Faulty variant") that breaks it.

## The system and its parts

### Server: murmur

| part | state | operations | interacts with |
| --- | --- | --- | --- |
| UDP voice encryption (`CryptState.cpp`) | `encrypt_iv`, `decrypt_iv`, `decrypt_history`, `uiGood`, `uiLate`, `uiLost`, `uiResync` | `encrypt`, `decrypt`, `setKey`, `genKey`, `setDecryptIV` | one at each end of a connection; called by the voice thread, the main thread and the client's UDP code |
| resynchronisation (`Messages.cpp` of both ends, `ServerHandler.cpp`) | two timers, messages on TCP | request, answer, apply | overwrites `decrypt_iv` while packets are under way |
| voice routing (`Server.cpp`: `run`, `processMsg`, `newClient`, `connectionClosed`) | `qhUsers`, `qhHostUsers`, `qhPeerUsers`, `saiUdpAddress`, `qmTargets`, `qmTargetCache`, the lock `qrwlUsers` | recognise a sender, route speech and whispers, connect, authenticate, leave, change channel or ACL | voice thread and main thread share all of it |
| life of the voice thread (`startThread`, `stopThread`, `run`) | `bRunning`, the notify socket, socket notifiers, `qtTimeout` | started by the first login, stopped by the last departure | reads the sockets that the event loop reads otherwise |
| channel tree (`Channel.cpp`, `Server.cpp`, `Messages.cpp`) | parents, names, links, `bTemporary`, who is where | create, rename, move, link, remove, enter, leave, posted removals | called by handlers and by RPC; walked by the voice thread |
| persistence (`ServerDB.cpp`) | tables `channels`, `channel_links`, users, ACLs, bans | written at each change, read at start | the channel tree |
| RPC (`RPC.cpp`, `MurmurIce.cpp`, `DBus.cpp`) | none of its own | the channel and user calls | runs handlers of the main thread without their checks |
| authentication and sessions (`Messages.cpp`, `Server.cpp`) | `sState`, the queue `qqIds` of session numbers, names and user numbers, the announced codecs, `iCodecAlpha`, `iCodecBeta`, `bPreferAlpha` | `newClient`, `msgAuthenticate`, `recheckCodecVersions`, `connectionClosed`, time-outs, kicks, bans | an authenticator on DBus that runs the event loop while it is asked |
| ACLs and groups (`ACL.cpp`, `Group.cpp`) | entries, groups and inheritance of each channel, the cache `acCache`, the copy `qmPermissionSent` of what a client was told | `hasPermission`, `isMember`, `msgACL`, `setACL`, temporary groups, `clearACLCache`, `flushClientPermissionCache` | every handler asks; users moving, registering and leaving change the answers |
| TCP (`Connection.cpp`, `SSL.cpp`) | partial message, TLS state | read, send, disconnect | hands messages to the handlers in order |

### Client: Mumble with Whisper

| part | state | operations | interacts with |
| --- | --- | --- | --- |
| viewer connection (`wViewerHandler.cpp`, `wGameHandler.h`, `wRequestQueue.cpp`, `wVoiceClient.cpp`) | `bEnd`, `bInitialized`, `pSocket`, `tt`, the request queue, `mSenderMutex` | accept, read requests, answer, send events, tear down | four threads, one socket |
| requests (`wRequest.cpp`) | `Connection::localMicMuted` and other fields | `execute`, `postProcess` of each request | clicks on widgets of the main thread |
| microphone and speaker (`MainWindow.cpp`) | two check boxes, `Settings::bMute`, `bDeaf`, `bAutoUnmute` | the slots of the boxes | the user, the requests, the server |
| who is talking (`wTalkingThread.cpp`) | list of talking users | `setUser`, `run` | fed by audio, read by its own thread |
| connection to the server (`ServerHandler.cpp`) | `bUdp`, ping counters, `csCrypt` | connect, ping, switch between UDP and TCP | the server |
| user model (`UserModel.cpp`, `ClientUser.cpp`) | tree of channels and users | rebuilt from server messages | tells the viewer about participants |
| audio (`AudioInput.cpp`, `AudioOutput.cpp`) | buffers, codecs | encode, mix, play | drivers |

### What is hard here

* **Two threads, one lock given up in between.** The voice thread holds
  `qrwlUsers` for reading, gives it up to write, and takes it again; what it
  knew may be stale each time. The same for the recipients of a whisper.
* **The network.** Voice packets are lost, reordered and repeated, and carry one
  byte of a 128-bit counter; resynchronisation answers overtake packets.
* **Posted work.** Temporary channels are removed by number in a later event;
  slots of check boxes run after the caller has gone on.
* **Starting and stopping.** Both the voice thread and the viewer's threads are
  stopped by a flag and a message, in an order that matters.
* **Two copies.** The tree in memory and the one in the database; the address
  and the peer table; the check box and the setting.
* **Handlers within handlers.** A login waits for an authenticator in a nested
  event loop, in which other logins, departures and kicks are carried out.
* **Caches of decisions.** What a user may do depends on ACLs, groups, the tree,
  the user's number and channel; whoever changes one of them has to flush.
* **Restarts** at any moment, also between the database calls of one handler.

`PROJECT.json` lists these one by one ("hazards"), with the line where each
bites and the property that would notice, or why there is none yet.

## Modules

| module | what it is | code |
| --- | --- | --- |
| `VoiceStream` | abstract: a numbered stream that may be lost and reordered but repeats and miscounts nothing | none (a promise) |
| `CryptState` | one direction of the encrypted voice channel | `CryptState.cpp` |
| `CryptSync` | `CryptState` with the resynchronisation handshake (extends it) | handlers of `CryptSetup` at both ends |
| `CryptProofs` | theorems about both | |
| `VoiceThread` | voice thread and main thread over the user tables | `Server.cpp`, `Messages.cpp` |
| `MCVoiceThread` | its instance for TLC | |
| `VoiceThreadProofs` | theorems about it | |
| `VoiceThreadLife` | starting and stopping the voice thread | `Server.cpp` |
| `VoiceThreadLifeProofs` | theorems about it | |
| `ServerChannels` | channel tree, temporary channels, database, RPC | `Channel.cpp`, `Server.cpp`, `Messages.cpp`, `ServerDB.cpp`, `RPC.cpp` |
| `ServerChannelsProofs` | theorems about it | |
| `ServerSessions` | connections, logins, session numbers, codecs | `Messages.cpp`, `Server.cpp`, `ServerDB.cpp`, `DBus.cpp` |
| `MCServerSessions` | its instance for TLC (symmetry) | |
| `ServerSessionsProofs` | theorems about it | |
| `ServerACL` | permissions, groups, the cache of permissions and the client's copy | `ACL.cpp`, `Group.cpp`, `Server.cpp`, `Messages.cpp`, `RPC.cpp`, `MurmurIce.cpp` |
| `MCServerACL` | its instances for TLC (the ACLs that are set) | |
| `ServerACLProofs` | theorems about it | |
| `WhisperMute` | who has the microphone closed | `wRequest.cpp`, `MainWindow.cpp` |
| `WhisperMuteProofs` | theorems about it | |
| `WhisperViewer` | the four threads of the viewer connection | `wViewerHandler.cpp`, `wVoiceClient.cpp`, `wRequestQueue.cpp`, `main_application.cpp` |
| `WhisperViewerProofs` | theorems about it | |

### CryptState, CryptSync

The 16-byte vectors are numbers and the byte loops of the code are addition and
subtraction. A packet is the vector it was sealed with; only its first byte is
visible to the receiver. `Accepts` is the classification of `decrypt` (expected,
late, ahead, dropped), the check of the history and the authentication tag,
which under perfect encryption says that the reconstructed vector is the right
one. `Accept` is all a successful `decrypt` does, `Reject` an unsuccessful one.
The network is the set of all vectors used so far: any of them may arrive at any
time, any number of times, or never.

`CryptSync` adds the messages of the handshake. Requests and answers travel on
TCP, each way in order; they are not ordered with voice packets. The five-second
timers are a choice made at any rejected packet.

### VoiceThread

A critical section is one step. What a thread holds in local variables between
two of them is `job`: `rebind` (sender recognised, read lock given up), `rebound`
(address entered under the write lock), `fill` (recipients of a whisper
computed), `filled` (cached, not yet sent), and for the main thread `enter` and
`flush` (inside `userEnterChannel` and the ACL flush). `life` follows a
`ServerUser` from connection to `deleteLater` and deletion. `writer` is there
because one path of `run` leaves its block with the write lock held.

Left out: normal speech, loopback and linked-channel speech, which read under
the lock and change nothing; packets that are dropped (stuttering); bandwidth.
A session number stands for its user: `qqIds` hands numbers out in the order
they were given back, so a number returns only after 4999 others.

### VoiceThreadLife

The loop of `run` as `loop` (the test), `poll`, `recv` (at one of the sockets that
were ready; `left` counts the others, for which `bRunning` is not looked at
again), `packet` (about to take the read lock), `relock` (the sender recognised,
the lock given up, about to take the write lock), `ending`, `stopped`. The main
thread is `idle`, inside a login (`enter`), inside a departure (`flush`), or in
`stopThread` as `stop`, `check`, `notify`, `wait`, and does nothing else meanwhile.
A critical section is one step that needs `lockable`; the only way to keep the
lock is the path of `rebound` on which the sender has left (`leaked`), after which
no step that locks is possible for either thread. `VoiceThread` has the tables
behind these steps; here `bound` says who has a peer, because only the others are
recognised. Draining takes all bytes, so the notify socket is one bit.

Left out: the sections in which `processMsg` gives the lock up and takes it again
(they never keep it), and the ghost that a login kicks.

### ServerChannels

Each handler is one action: they run to completion in the main thread. Posted
removals (`ExecEvent`) are the queue `posted`. The database is written where the
code writes it. `qsDBDriver` is the driver that is configured: SQLite's trigger
deletes the links of a removed channel at both ends, MySQL's foreign key at the
first only, and MySQL refuses a channel whose parent has no row (the server then
aborts, which is `Restart`). `Restart` empties the memory and reads the tables
back; `RestartInRemoval` does so between two of the calls that take the rows of a
subtree away, one for each channel from the lowest up. What other handlers leave
when they are cut short is what a shorter handler leaves, followed by `Restart`.
Message handlers need a user on the server, RPC calls do not. Permissions
are not part of this module (`ServerACL` has them): every action is allowed to
everybody, which only adds behaviours. `Subtree` is the smallest set that holds
a channel and, with a channel, its sub-channels; so defined it can be used in
proofs without induction over the depth.

### ServerSessions

All of it runs in the main thread. `stack` holds the connections whose
`msgAuthenticate` waits for `authenticate`. With `Reentrant` (the option of the
DBus bridge) the event loop runs meanwhile, so that any other handler may start,
and calls return in the opposite order; without it a login is one step after the
other. `Authenticate` is everything after the answer: name, ghost, limit, codec,
the refusal or the entry. An abstraction: when the user is in (`sState` is
`Authenticated`) the handler asks over DBus again, for the texture and the
registration (Messages.cpp:288-293, DBus.cpp:200-206 and 236-246), and other
handlers may run there as well. In the model they run after the step. By then
the handler has made all changes that the model has; that the user may be gone
when the answer comes is the case of `SessionsGone.cfg` once more. Which ghost the loop over the hash finds first is open.
A refusal by other means (an invalid name, the server's password, a missing
certificate) is the same refusal. A graceful disconnection, a time-out, a kick
and a socket error are all `connectionClosed` some time later; the kick of a
ghost is forced and happens at once. When the connection that waits has gone
(`Orphan`), the code works on with an object that may be deleted; behaviours end
there, which is why this run does not look for deadlocks. A connection that is
waiting does not send a second `Authenticate`, which the code does not exclude;
its fields are cleared when it closes, since nothing reads them any more.

Left out: bans, access tokens, the list of certificates, the welcome messages,
voice and channel entry (in `VoiceThreadLife` and `ServerChannels`).

### ServerACL

`Walk` is `hasPermission` with its `foreach` loops as recursive functions:
`granted` is the set of permissions, `path` says whether one gets further down.
`InGroup` is `Group::isMember` with its stack of groups. A row of `acCache` is
filled by any question (`hasPermission`), and by every message that tells a
client about a channel; `Flushed` is `flushClientPermissionCache`, which stops
comparing at the first difference and then tells the client about the channel
it asked for last. `unflushed` is not in the code: it collects the users for
whom a handler may have changed something without a flush, and the properties
say what holds for all the others. These are: who registers or is unregistered;
everybody, when a channel moves; who leaves (another user may get the address);
everybody, when `unregisterUser` drops an entry that is about a group as well,
which RPC may set; and who has the user number, or minus whose session is the
number, that is made or unmade a temporary member, but for the one flushed user.
`setTempGroups` flushes whoever has that number as session, which need not be
the user meant, and over DBus it is given any number: -1, say, which is
everybody unregistered and session 1 (`Concerned`).

An entry about the user counts for `Traverse` and `Write` on the way to a channel
whether or not it applies there (`Apply`, ACL.cpp:111-118). `LastWordWins` says so
too: it describes the loop without the loop, and is no claim about the
documentation, which `ACLApplies.cfg` compares with the code.

Four permissions stand for all: `Write` and `Traverse`, which the algorithm
treats by name, `Enter`, and `Speak` as one that `Write` does not include and
SuperUser does not have. Left out: the groups `strong`, `sub` and `#token`,
`bSuppress`, creation and removal of channels, reading the ACLs.

### WhisperMute

A request is a list of calls (`setChecked`, `trigger`) made by the ViewerHandler
thread; each `trigger` flips the box at once and posts the slot, which the main
thread runs later with the boxes as it finds them. A click of the user runs its
slot immediately.

### WhisperViewer

The steps of the four threads between their waits, locks and tests. Requests are
numbers; those in `Silent` have no response. A response and the events of a
request are entries of `wire`. The viewer may leave, and the user may quit, at
any time.

## Runs

| run | instance | shows |
| --- | --- | --- |
| `CryptState` | bytes of 8 values, window 3, 13 packets from 54, so that the second byte carries (55 to 56) and wraps (63 to 64) | `AtMostOnce`, `LostExact`, and `StreamSpec`: decrypt implements `VoiceStream` |
| `CryptSync` | bytes of 4 values, 7 packets, 2 resynchronisations | a packet is repeated at most once per resynchronisation; the receiver is never ahead of the sender |
| `Voice` | 2 users of one address, 2 ports, 1 channel, whispers to a user or a channel | the tables hold listed users, each reachable in one way; caches are filled and packets handled for listed users only |
| `VoiceThreadLife` | 2 users, 2 sockets, 1 failure of `poll` | `stopThread` returns unless the voice thread waits for its own lock; no thread is left running; one reader of the sockets |
| `Channels` | root and 2 channels, 2 users, 2 names, 3 posted removals, both drivers, clients only | sibling names differ, temporary channels are leaves and do not stay empty, a restart restores, also one in the midst of a removal |
| `ChannelsRpc` | the same tree, links of all channels, 1 user, RPC calls too | no cycle, no orphan, no one-way link |
| `Mute` | all requests, clicks on both boxes, 5 posted slots | once all is quiet the box shows the setting; deaf means muted, always |
| `Sessions` | 3 connections, two of them with one address, as many numbers, 2 users at most, SuperUser, a registered user and a guest, 2 codecs, a re-entrant authenticator | numbers are neither lost nor given twice; the limit holds; a name or user has one session; all who are in speak one codec |
| `ACL` | root and 2 channels, a user who comes with or without a number, one group name, session 1, entries that are inherited, cut off, inverted and local, that apply only here or only below, and one about a number and a group | `hasPermission` agrees with a definition written from the last entry backwards; cache and client are right whenever the code flushed; nobody edits away the right to edit |
| `Viewer` | 3 requests, the second silent | nothing is used that is not there; events follow their answer, in order, once; what is queued is sent; the chain of waits at the end does end |

Two runs check a sentence of the repository that the code does not keep, and
end in a counterexample (details and lines in `PROJECT.json`, "findings"):

* `VoiceDestinationsExist`: "every time we relock, reverify users' existance".
  The recipients of a whisper are not verified again.
* `ACLTempGroup`: "Temporarily add a user to a group on a channel." The key of
  session 1 is -1, which is the user number of everybody not registered: all of
  them become members.

The following configurations are kept beside them. Each ends in a counterexample
to a property that somebody might rely on (some quote a comment of the code),
and documents behaviour of the code:

| configuration | module | what TLC shows |
| --- | --- | --- |
| `CryptStateFresh.cfg` | `CryptState` | the history is zero-filled, so a fresh late packet whose second byte is 0 is dropped as a repeat |
| `CryptSyncRepeat.cfg` | `CryptSync` | a late answer moves the receiver back, and a packet is accepted a second time |
| `CryptSyncLost.cfg` | `CryptSync` | late packets that arrive after an answer has moved the receiver forward take the unsigned `uiLost` below zero |
| `VoiceCachedRecipientsExist.cfg` | `MCVoiceThread` | a recipient that leaves before authenticating stays in the whisper cache |
| `VoiceLockReleased.cfg` | `MCVoiceThread` | the sender leaves between the two locks, and the write lock is not released |
| `VoiceWhisperPermitted.cfg` | `MCVoiceThread` | recipients computed before a flush of the ACLs are cached after it |
| `PipeDrained.cfg` | `VoiceThreadLife` | "drain pipe": a thread that leaves at the test of its loop leaves the byte, and the next thread ends at its first poll |
| `SocketsRead.cfg` | `VoiceThreadLife` | after a left-over byte ends the thread, nobody reads the sockets |
| `LifeStopAlwaysReturns.cfg` | `VoiceThreadLife` | the last user leaves between the two locks of `run`, the write lock is kept, the thread waits for it with the next packet, and `stopThread` waits for the thread |
| `ChannelsOccupied.cfg` | `ServerChannels` | a posted removal finds a user in the channel |
| `ChannelsReused.cfg` | `ServerChannels` | a posted removal finds a permanent channel that was given the number |
| `ChannelsRevived.cfg` | `ServerChannels` | with MySQL the row of a link to a removed channel stays, and links the channel that is given its number once the server restarts |
| `ChannelsRpcNames.cfg` | `ServerChannels` | RPC gives two siblings one name |
| `ChannelsRpcLinks.cfg` | `ServerChannels` | "you can use this to move or relink channels": `setChannelState` adds links and never removes one |
| `MuteMicStaysOff.cfg` | `WhisperMute` | "if mic was off: switch it off again": the slot of the deaf box runs after the request has returned and opens the microphone, because `bAutoUnmute` is never reset |
| `SessionsGone.cfg` | `MCServerSessions` | the connection goes while the authenticator is asked, and the login goes on with it |
| `SessionsDoubled.cfg` | `MCServerSessions` | a login that finds two ghosts, one by number and one by name, kicks only the first: one session too many |
| `SessionsSlots.cfg` | `MCServerSessions` | a switch of codecs announces the new version for both slots, so that old users and newcomers know different pairs |
| `ACLLockout.cfg` | `MCServerACL` | who edits a group of a channel may lose the way to it, and the entry that gives `Write` back does not help |
| `ACLApplies.cfg` | `MCServerACL` | "Does the ACL apply to this channel?" (Murmur.ice:138-139): an entry of the channel with `applyHere` false takes `Traverse` there, and with it everything; likewise an entry with `applySubs` false that allows `Write` above gets one past a channel that denies `Traverse`, "regardless of other permissions in the sub-channels" (ACL.cpp:152-154) |
| `ViewerDisconnectStops.cfg` | `WhisperViewer` | a quit sent before the event loop has started is lost |
| `ViewerUserQuitStops.cfg` | `WhisperViewer` | a user who quits waits for a viewer that stays connected |

### Bounds, and why they are enough

* `Half`, `Window`, `Start`, `MaxPackets` (CryptState): the properties depend on
  the byte only through `Window <= Half`; 13 packets pass the wrap of the first
  byte and both kinds of carry of the second. The proofs drop the bounds.
* `MaxResync` = 2: the second answer can be under way before the first is
  applied, the smallest case in which answers race each other.
* Voice: two users of one address are what makes recognition by address
  ambiguous, two ports are needed for a peer that changes, one channel and one
  slot suffice to fill and flush a cache. The proofs drop the bounds.
* `Sockets` = 2: one socket can be left to read in the same pass when the lock is
  lost, and one suffices for a pass that ends first.
* `MaxFailures` = 1: a failing poll ends the thread for good, until the next
  login starts another; one failure meets every step of `stopThread`.
* `MaxId`, `Names`, `Linkable`, `MaxEvents`: two channels under the root give
  chains and siblings, and numbers that are used again; three posted removals
  exceed the two channels that can be temporary at once. `ChannelsRpc` asks about
  the shape of the tree and its links, for which one pending removal and one name
  are enough: names only forbid steps, and RPC ignores them.
* `MaxPosted` = 5 slots: a request posts at most two, so slots of three requests
  can be in the queue together.
* `MaxRequests` = 3: one in hand, one queued, one being sent.
* Sessions: three connections are a newcomer and two ghosts, or two nested
  logins and a user who is in; two users at most make the third one too many;
  with two codecs the vote can tie and switch. Connections of one address are
  interchangeable (`SYMMETRY`). The proofs drop the bounds.
* ACL: three channels give chains and siblings; the ACLs that are set (`Settings`)
  are chosen so that every kind of entry decides something. `MaxSent` is 2
  instead of 20, so that the copy overflows. The passing run has one user, of
  session 1; what a second one adds, a key that means both, is what `ACLTempGroup`
  shows, and with one user the number -1 already means him without a flush.
  `TempIds` holds 1, which is his session and a user number, and -1. The proofs
  drop these bounds.

Deadlock is checked everywhere but in `Voice*` (with `VoiceThreadLife`), where a
leaked lock stops both threads for good and in `Voice` users connect once, in `Sessions*`, where behaviours end
with an orphaned login, and in `Viewer*`, where the program ends.

### Fairness

* `VoiceThreadLife`: weak fairness of the main thread inside `stopThread` and of
  the voice thread's own steps. Both are operating-system threads. Inside
  `stopThread` the main thread waits for nothing but the other's end; the voice
  thread waits for packets, for which nothing is assumed, and for `qrwlUsers`,
  which the main thread gives up in each handler before it could come to
  `stopThread`, so that only a lock kept by the voice thread itself disables its
  steps for good. That case is the exception in `StopReturns`, and
  `LifeStopAlwaysReturns.cfg` shows that it occurs. Nothing is promised of users
  and packets: a thread that is handed one packet after another still reaches
  the test of its loop.
* `WhisperViewer`: weak fairness of each of the four threads, for the same
  reason. Strong fairness of the three steps whose guard can be disabled and
  enabled again for ever: `Answer` and `PostProcess` compete for
  `mSenderMutex`, which is released again each time it is taken, and `End` is
  Qt's event loop noticing that it was told to quit between two events.
  Nothing is promised of the viewer, the user or the network.
* All other specifications are safety only.

## Proofs

Checked by TLAPS for all values of the constants that satisfy the assumptions.

**`CryptProofs`**, under `CryptAssumption`: the window is at most half the
values of a byte (30 and 128 in the code), the start is not within a window of
zero (it is random in 128 bits), and fewer packets are sent than an unsigned int
counts.

* `TypeCorrect`: among others, the receiver is at or behind the sender.
* `NoRepeat`: no packet is accepted twice. `AtMostOnce` is not inductive: it says
  nothing of the history that makes it true. The invariant adds `GotBelow`
  (nothing above the receiver's vector has been accepted, so the in-order path
  needs no check) and `HistoryCovers` (every accepted vector inside the window is
  in its slot). It is preserved because two vectors less than a byte apart do not
  share a slot (`SameSlot`).
* `LostIsExact`: `uiLost` is the number of packets missing below the newest one.
  The invariant counts both sets (`CountInv`); the cardinalities move by what
  `decrypt` adds, and stay within the range of an unsigned int.
* `ImplementsStream`: every step of the receiver is a step of `VoiceStream` or
  changes nothing of it.
* `StaysBehind` (of `CryptSync`, for any number of answers): the receiver stays at
  or behind the sender, and answers arrive in order. Inductive with the bound of
  the answers by both ends (`Answers`).
* `RepeatsBounded` (of `CryptSync`): what `NoRepeat` rests on for all packets holds
  of those accepted once more than there were answers (`Recent`): they are at or
  below the receiver's vector and, within the window, in its history, so that
  none of them is accepted again before the next answer is applied.

**`VoiceThreadProofs`**, under `VoiceAssumption` (markers such as `NoUser` are
not users; every user has one address), for any number of users, addresses,
ports, channels and slots.

* `TypeCorrect`.
* `TablesListed`, `FoundOneWay`: entries of both tables are listed users, and a
  listed user is found by its address or by its one peer, never both. Neither is
  inductive, because the voice thread edits the tables in a section that starts
  after it gave up the lock. The invariant adds what it still knows then
  (`Recognised`: if the user is listed it is still to be found by its address,
  and the peer is free), that a user who has not connected has no peer
  (`NewcomerUnbound`), and that a peer is always on the user's own address
  (`OneAddress`).
* `SpeakerStaysListed`: an action property, from the same invariant: both threads
  fill caches, and go on with packets, for listed users only.

**`VoiceThreadLifeProofs`**, under `LifeAssumption` (there is a socket, `MaxFailures`
is a natural number, `NoUser` is not a user).

* `TypeCorrect`, `SocketsHaveOneReader`, `StoppedStaysStopped`: the three
  properties are inductive taken together, and with `SomebodyIn` (a login has its
  user listed until it ends). `stopThread` enables the notifiers
  before the voice thread has ended, but goes on from there to `wait()` and not to
  the event loop, so that no notifier is served until the other reader is gone.

**`WhisperMuteProofs`**, under `MuteAssumption`, for every set of requests and
boxes and any bound on the slots under way.

* `TypeCorrect`: the bound on posted slots is not inductive. The invariant adds
  that calls come in pairs of a check and a trigger of one box (`Paired`) and that
  there is room for the slot of each pair to come (`RoomFor`).
* `DeafAreMuted`: only slots change the settings, and a slot leaves them deaf only
  if muted, whatever boxes it finds (`SlotMutesTheDeaf`).
* `BoxShowsMute`: `MuteShown` speaks of quiet states only. The invariant says what
  holds on the way there: the box shows the setting, or a slot of it is posted or
  about to be (`Shown`).

**`ServerChannelsProofs`**, under `ChannelsAssumption`, for any number of
channels, names and users. The proofs use the tree as a principle of induction
(`Tree`: a set that holds the root and is closed downwards holds everything),
and `Subtree` as the smallest closed set.

* With the RPC interfaces: `TypeCorrect`, `AlwaysATree`, `LinksBothWays`, from one
  invariant (`Shape`). What makes it inductive: the root has no parent and is
  not temporary, in memory and in the database, and no posted removal has its
  number. A move keeps the tree because a set closed in the new tree, together
  with what is below the channel moved, is closed in the old one.
* Without them (`~Rpc`): `RestartIsFaithful`, `TemporaryIsLeaf`, `SiblingsDiffer`,
  `EmptyChannelsGo`. The database mirrors the permanent channels (`Mirror`) and
  holds every link between them, with SQLite no other (`MirrorLinks`); a restart
  finds all of them because nothing hangs below a temporary one (`StoredIsKept`),
  and one in the midst of a removal finds all that is left, because what is gone
  is closed downwards (`StartedOrderly`, `CutOrderly`). RPC breaks the premises, as
  `ChannelsRpcNames.cfg` shows for names.

**`ServerSessionsProofs`**, under `SessionsAssumption`, for any number of
connections, users, numbers and codecs, with and without a re-entrant
authenticator.

* `NumbersConserved`, `LimitHolds`, `OneCodec`, `OneSessionEach`: inductive
  together with the types, with `Waiting` (a connection is at most once on the
  stack, and is not in while it is there, so that no login is completed twice)
  and `Numbered` (who is listed has a number). The limit holds although it is
  tested before the user is in, because it counts all listed connections.
* `TypeCorrect`: what is left of the types is that `recheckCodecVersions` finds a
  codec at all. There is one that no other beats (`BestExists`): the one that the
  fewest beat, as whatever beats one of those that beat it beats it too.

**`ServerACLProofs`**, under `ACLAssumption`, for any tree of channels, users,
groups, entries and settings.

* `TypeCorrect`, together with the tree: a move keeps every channel below the root
  (`MovedTree`). The line of channels from the root to another is a recursive
  function in the model; that it is defined is an induction over the tree, which
  is that a set with the root, closed downwards, is everything (`LineIs`).
* `LastWordDecides`: `hasPermission` grants what the last entry that applies says,
  if the last words on `Traverse` and `Write`, of entries that apply or not, let one
  through.
  One entry more in a list changes the granted set as it changes the last word
  (`ApplySaid`, `WordsAdded`); lists and lines of channels are followed from there
  (`HeedSaid`, `WalkSaid`). A channel that does not inherit makes the walk forget
  what came before it, which the definition says by leaving those entries out.
* `CacheStaysFresh`, `ClientsToldRight`: the invariant says of every user online
  for whom nothing was changed without a flush that the row of the cache and the
  copy of what the client was told agree with what would be granted now (`Right`).
  A handler either flushes the users it concerns, which makes both right again
  (`FlushedRight`), or it is shown to change nothing that is granted to the others:
  groups in which the same sessions and numbers are found (`GroupsAlike`) lead to
  the same grants (`GrantsAlike`), and an entry that is about another user can be
  dropped (`HeedWithout`).
* There are no hypotheses beside `ACLAssumption`: sessions may be 1 or shared, and
  entries about a number and a group. Whom these cases concern is in `unflushed`
  (`Concerned`, `OnlyNames`), and the lemmas `TempGroupOthers`,
  `setTempGroupsOthers` and `unregisterUserOthers` show that it is nobody else.
* `EditorsKeepWrite`: an action property. The entry that `msgACL` appends for the
  editor is the last of the list and matches (`OwnEntryMatches`), so that the walk
  ends with `Write` granted, unless it never gets there (`OwnEntryGrants`).

**`WhisperViewerProofs`**, under `ViewerAssumption`, for any number of requests and
any set of silent ones.

* `ExistWhileUsed`, `AllEndFirst`: who has the mutex and in which step
  (`Holder`), how far the handler has got when `bEnd` is set (`Ending`), and that
  it deletes what it has waited for only (`Joined`, `Started`, `Exists`).
* `EventsInOrder`, `TypeCorrect`: requests are unread, in hand, queued or being
  sent, in this order and in one place each (`InLine`); events on the wire are
  older than all of them; and a request is queued when its answer is on the
  wire, except that it was refused because the handler or the link ended
  (`AnswerFirst`, `PastAnswer`).

Only model-checked: everything with fairness (`StopReturns`, `EventsSent`,
`QuitStops`). TLAPS as installed proves neither liveness nor `ENABLED`. Its theorems
of induction cannot be instantiated either, so induction over numbers is done by
taking the smallest counterexample (`Least`), and what recursive definitions
compute is shown for functions that follow the same recursion (`Recursion`,
`Unique`). Every safety property that a passing run checks is proved.

## Abstractions

* Encryption is perfect. Vectors do not wrap around 2^128.
* `decrypt_iv` is overwritten in one step (16 bytes without a lock in the code).
* `encrypt` is called by one thread at a time.
* Timers are choices; a time-out may fire whenever its condition holds.
* XML, protobuf and SQL are what is sent, received or stored, without their form.
* Order and positions of sub-channels, descriptions, comments, textures and the
  limit of users per channel are left out.

## Not modelled

Audio processing and drivers, the user interface, plug-ins, overlays, codecs,
installers and generated code have no state of the kind the tools reach, or are
third-party. TLS and framing are assumed to deliver messages in order. Response,
event and configuration classes of Whisper format text within one call. The
parts of the tables above that no module covers yet are in the plan.

## Plan

Done, most important first: encryption and its handshake, the two threads over
the user tables, the life of the voice thread, the channel tree with its
database, the microphone, the viewer's threads, logins and sessions with the
choice of the codec, access control.

Next modules, in this order:

1. `WhisperTalking`: the list of talking users, edited by two threads with a
   mutex only one of them takes; the participants told to the viewer.
2. `ServerVoice`: composition of `ServerChannels` and `VoiceThread` (removal of a
   channel while the voice thread walks its links), with suppress and mute flags.
3. `CryptShared`: `encrypt` by two threads under a read lock; `decrypt_iv` copied
   byte by byte.
4. `ClientTransport`: the switch between UDP and TCP by counters of both ends.
5. `BandwidthRecord`: the ring of frame sizes.

Abstract specifications worth stating: a reliable log of answers and events for
`WhisperViewer`, a set of channels with parents for `ServerChannels` (memory and
database as two refinements of it), an unbounded recogniser of senders for
`VoiceThread`.

Theorems next: the refinements just named, for all constants.

## Running

    tlc -workers 2 -config Voice.cfg MCVoiceThread
    tlapm VoiceThreadProofs.tla
