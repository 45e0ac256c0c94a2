---------------------------- MODULE VoiceThread ----------------------------
(***************************************************************************)
(* One virtual server of murmur (src/src/murmur/Server.cpp): the voice     *)
(* thread (run) and the main thread (Qt event loop) sharing the tables of  *)
(* users under the read-write lock qrwlUsers.  A critical section is one   *)
(* step; what a thread keeps in local variables while it does not hold the *)
(* lock is its job.  Both threads run processMsg: the voice thread for UDP *)
(* packets, the main thread for voice tunnelled through TCP.               *)
(*                                                                         *)
(* A user connects once, so the user stands for its session number: qqIds  *)
(* is a queue of 4999 numbers, reused in the order they were given back.   *)
(* A packet that is dropped (muted, over bandwidth, repeated, garbled)     *)
(* changes nothing here and is a stuttering step.                          *)
(***************************************************************************)
EXTENDS FiniteSets

CONSTANTS
    Users, NoUser,
    Hosts, HostOf,       \* the address each user connects from
    Ports,               \* UDP ports clients may send from
    Channels, NoChannel,
    Targets,             \* whisper slots, 1 .. 30 in the protocol
    Addressed,           \* whisper targets clients define (bound)
    NoTarget, NoCache

ASSUME VoiceAssumption ==
    /\ NoUser \notin Users /\ NoChannel \notin Channels
    /\ HostOf \in [Users -> Hosts]
    /\ Addressed \subseteq [sessions : SUBSET Users, channels : SUBSET Channels]
    /\ NoTarget \notin Addressed
    /\ NoCache \notin [channel : SUBSET Users, direct : SUBSET Users]

VARIABLES
    life,         \* "new", "listed" in qhUsers, "closing" (deleteLater), "deleted"
    sState,       \* ServerUser::sState
    crypt,        \* users whose csCrypt.isValid()
    qhHostUsers, qhPeerUsers,  \* users by address; by address and port
    udpAddr,      \* saiUdpAddress: set of at most one <<host, port>>
    cChannel,
    mayWhisper,   \* channels in which the ACLs grant Whisper
    qmTargets, qmTargetCache,  \* per user and slot
    job,          \* what each thread is in the middle of
    writer        \* the thread that keeps qrwlUsers write locked, or "none"

tables == <<life, qhHostUsers, qhPeerUsers, udpAddr>>
vars == <<tables, sState, crypt, cChannel, mayWhisper, qmTargets, qmTargetCache,
          job, writer>>

Threads == {"main", "voice"}
Keys == Hosts \X Ports
WhisperTargets == [sessions : SUBSET Users, channels : SUBSET Channels]
                      \ {[sessions |-> {}, channels |-> {}]}
Recipients == [channel : SUBSET Users, direct : SUBSET Users]
qhUsers == {u \in Users : life[u] = "listed"}

Idle == [pc |-> "idle"]
Jobs ==
    {Idle}
    \* main thread: inside userEnterChannel, clearACLCache
    \cup [pc : {"enter", "flush"}, usr : Users, chan : Channels \cup {NoChannel},
          quiet : BOOLEAN]
    \* voice thread: an unknown peer has been recognised; its tables are updated
    \cup [pc : {"rebind", "rebound"}, usr : Users, key : Keys, target : Targets \cup {0}]
    \* either thread, in processMsg: about to fill the cache; filled
    \cup [pc : {"fill", "filled"}, usr : Users, target : Targets, dst : Recipients]

LockFree == writer = "none"
Starts(th, what) == job' = [job EXCEPT ![th] = what]
MainIdle == job["main"] = Idle

-----------------------------------------------------------------------------
Init ==
    /\ life = [u \in Users |-> "new"]
    /\ sState = [u \in Users |-> "Connected"]
    /\ crypt = {}
    /\ qhHostUsers = [h \in Hosts |-> {}]
    /\ qhPeerUsers = [k \in Keys |-> NoUser]
    /\ udpAddr = [u \in Users |-> {}]
    /\ cChannel = [u \in Users |-> NoChannel]
    /\ mayWhisper = Channels
    /\ qmTargets = [u \in Users |-> [t \in Targets |-> NoTarget]]
    /\ qmTargetCache = [u \in Users |-> [t \in Targets |-> NoCache]]
    /\ job = [th \in Threads |-> Idle]
    /\ writer = "none"

-----------------------------------------------------------------------------
(* processMsg *)

\* Users a whisper of u to slot t goes to, computed under the read lock.
WhisperTo(u, t) ==
    LET wt == qmTargets[u][t]
        viaChannel == {v \in Users : cChannel[v] \in wt.channels \cap mayWhisper /\
                                     life[v] = "listed"}
    IN  [channel |-> viaChannel,
         direct  |-> (wt.sessions \cap qhUsers) \ viaChannel]

\* The part under the first read lock.  Only a whisper that is not in the cache
\* goes on: the lock is given up to put it there.
Process(th, u, t) ==
    IF /\ sState[u] = "Authenticated"
       /\ t \in Targets
       /\ qmTargets[u][t] # NoTarget
       /\ qmTargetCache[u][t] = NoCache
    THEN Starts(th, [pc |-> "fill", usr |-> u, target |-> t, dst |-> WhisperTo(u, t)])
    ELSE Starts(th, Idle)

Fill(th) ==
    LET j == job[th]
    IN  /\ j.pc = "fill" /\ LockFree
        /\ qmTargetCache' =
              IF j.usr \in qhUsers
              THEN [qmTargetCache EXCEPT ![j.usr][j.target] = j.dst]
              ELSE qmTargetCache
        /\ Starts(th, [j EXCEPT !.pc = "filled"])
        /\ UNCHANGED <<tables, sState, crypt, cChannel, mayWhisper, qmTargets, writer>>

\* Locked for reading again: nothing is sent if the speaker has left.
Filled(th) ==
    /\ job[th].pc = "filled" /\ LockFree
    /\ Starts(th, Idle)
    /\ UNCHANGED <<tables, sState, crypt, cChannel, mayWhisper, qmTargets,
                   qmTargetCache, writer>>

-----------------------------------------------------------------------------
(* The voice thread: run *)

\* Users without a known UDP port that may have sent a packet from this host.
HostUsers(host) == qhHostUsers[host]

\* A packet that the client of v sealed, for slot t, arrives from key: from its
\* known peer, or recognised by trying the keys of all users of the host.
Receive(v, key, t) ==
    /\ job["voice"] = Idle /\ LockFree
    /\ v \in crypt
    /\ \/ qhPeerUsers[key] = v /\ Process("voice", v, t)
       \/ /\ qhPeerUsers[key] = NoUser
          /\ v \in HostUsers(key[1])
          /\ Starts("voice", [pc |-> "rebind", usr |-> v, key |-> key, target |-> t])
    /\ UNCHANGED <<tables, sState, crypt, cChannel, mayWhisper, qmTargets,
                   qmTargetCache, writer>>

\* Faulty variant: the user is not looked up again under the write lock.
StillListed_NoCheck(u) == TRUE

StillListed(u) == u \in qhUsers

\* Faulty variant: the user stays in the table of users without a known port.
MovedToPeer_Kept(u, key) ==
    /\ udpAddr' = [udpAddr EXCEPT ![u] = {key}]
    /\ qhPeerUsers' = [qhPeerUsers EXCEPT ![key] = u]
    /\ UNCHANGED qhHostUsers

MovedToPeer(u, key) ==
    /\ udpAddr' = [udpAddr EXCEPT ![u] = {key}]
    /\ qhHostUsers' = [qhHostUsers EXCEPT ![key[1]] = @ \ {u}]
    /\ qhPeerUsers' = [qhPeerUsers EXCEPT ![key] = u]

\* Under the write lock.  When the user has left, the block that unlocks is
\* skipped and the read locker, unlocked already, does nothing at its end.
Rebind ==
    LET j == job["voice"]
    IN  /\ j.pc = "rebind" /\ LockFree
        /\ \/ /\ StillListed(j.usr)
              /\ MovedToPeer(j.usr, j.key)
              /\ Starts("voice", [j EXCEPT !.pc = "rebound"])
              /\ UNCHANGED writer
           \/ /\ ~StillListed(j.usr)
              /\ writer' = "voice"
              /\ Starts("voice", Idle)
              /\ UNCHANGED <<udpAddr, qhHostUsers, qhPeerUsers>>
        /\ UNCHANGED <<life, sState, crypt, cChannel, mayWhisper, qmTargets, qmTargetCache>>

\* Faulty variant: the packet is handled whoever has left.
ProcessIfListed_NoCheck(u, t) == Process("voice", u, t)

ProcessIfListed(u, t) ==
    IF u \in qhUsers THEN Process("voice", u, t) ELSE Starts("voice", Idle)

\* Locked for reading again, with a second look at qhUsers.
Rebound ==
    LET j == job["voice"]
    IN  /\ j.pc = "rebound" /\ LockFree
        /\ ProcessIfListed(j.usr, j.target)
        /\ UNCHANGED <<tables, sState, crypt, cChannel, mayWhisper, qmTargets,
                       qmTargetCache, writer>>

-----------------------------------------------------------------------------
(* The main thread *)

NewClient(u) ==
    /\ MainIdle /\ LockFree
    /\ life[u] = "new"
    /\ life' = [life EXCEPT ![u] = "listed"]
    /\ qhHostUsers' = [qhHostUsers EXCEPT ![HostOf[u]] = @ \cup {u}]
    /\ UNCHANGED <<qhPeerUsers, udpAddr, sState, crypt, cChannel, mayWhisper,
                   qmTargets, qmTargetCache, job, writer>>

\* msgAuthenticate up to its first userEnterChannel: the client has its key.
Authenticate(u, c) ==
    /\ MainIdle
    /\ u \in qhUsers /\ sState[u] = "Connected"
    /\ crypt' = crypt \cup {u}
    /\ Starts("main", [pc |-> "enter", usr |-> u, chan |-> c, quiet |-> TRUE])
    /\ UNCHANGED <<tables, sState, cChannel, mayWhisper, qmTargets, qmTargetCache, writer>>

\* A user joins a channel or is moved (msgUserState).
Move(u, c) ==
    /\ MainIdle
    /\ u \in qhUsers /\ sState[u] = "Authenticated"
    /\ Starts("main", [pc |-> "enter", usr |-> u, chan |-> c, quiet |-> FALSE])
    /\ UNCHANGED <<tables, sState, crypt, cChannel, mayWhisper, qmTargets,
                   qmTargetCache, writer>>

\* userEnterChannel, the locked part.
EnterChannel ==
    LET j == job["main"]
    IN  /\ j.pc = "enter" /\ LockFree
        /\ cChannel' = [cChannel EXCEPT ![j.usr] = j.chan]
        /\ Starts("main", [j EXCEPT !.pc = "flush"])
        /\ UNCHANGED <<tables, sState, crypt, mayWhisper, qmTargets, qmTargetCache, writer>>

\* clearACLCache, the locked part, and what its caller does next: msgAuthenticate
\* goes on to make the user Authenticated and to enter the channel once more.
Flush ==
    LET j == job["main"]
    IN  /\ j.pc = "flush" /\ LockFree
        /\ qmTargetCache' = [u \in Users |-> IF u \in qhUsers THEN [t \in Targets |-> NoCache]
                                                              ELSE qmTargetCache[u]]
        /\ IF j.quiet
           THEN /\ sState' = [sState EXCEPT ![j.usr] = "Authenticated"]
                /\ Starts("main", [j EXCEPT !.pc = "enter", !.quiet = FALSE])
           ELSE /\ Starts("main", Idle)
                /\ UNCHANGED sState
        /\ UNCHANGED <<tables, crypt, cChannel, mayWhisper, qmTargets, writer>>

\* msgACL: the ACLs of the channels change, then clearACLCache(NULL).
ChangeACL(u, granted) ==
    /\ MainIdle
    /\ u \in qhUsers /\ sState[u] = "Authenticated"
    /\ mayWhisper' = granted
    /\ Starts("main", [pc |-> "flush", usr |-> u, chan |-> cChannel[u], quiet |-> FALSE])
    /\ UNCHANGED <<tables, sState, crypt, cChannel, qmTargets, qmTargetCache, writer>>

\* Faulty variant: a target without anyone in it is stored.
Stored_Empty(wt) == wt

Stored(wt) == IF wt.sessions = {} /\ wt.channels = {} THEN NoTarget ELSE wt

\* msgVoiceTarget
VoiceTarget(u, t, wt) ==
    LET known == [wt EXCEPT !.sessions = @ \cap qhUsers]
    IN  /\ MainIdle /\ LockFree
        /\ u \in qhUsers /\ sState[u] = "Authenticated"
        /\ qmTargetCache' = [qmTargetCache EXCEPT ![u][t] = NoCache]
        /\ qmTargets' = [qmTargets EXCEPT ![u][t] = Stored(known)]
        /\ UNCHANGED <<tables, sState, crypt, cChannel, mayWhisper, job, writer>>

\* message: voice that a client sends through its TCP connection.
TunnelVoice(u, t) ==
    /\ MainIdle /\ LockFree
    /\ u \in qhUsers
    /\ Process("main", u, t)
    /\ UNCHANGED <<tables, sState, crypt, cChannel, mayWhisper, qmTargets,
                   qmTargetCache, writer>>

\* connectionClosed
Close(u) ==
    /\ MainIdle /\ LockFree
    /\ u \in qhUsers
    /\ life' = [life EXCEPT ![u] = "closing"]
    /\ qhHostUsers' = [qhHostUsers EXCEPT ![HostOf[u]] = @ \ {u}]
    /\ qhPeerUsers' = [k \in Keys |-> IF k \in udpAddr[u] THEN NoUser ELSE qhPeerUsers[k]]
    /\ IF sState[u] = "Authenticated"
       THEN Starts("main", [pc |-> "flush", usr |-> u, chan |-> cChannel[u], quiet |-> FALSE])
       ELSE UNCHANGED job
    /\ UNCHANGED <<udpAddr, sState, crypt, cChannel, mayWhisper, qmTargets,
                   qmTargetCache, writer>>

\* The event loop carries out deleteLater.
Delete(u) ==
    /\ MainIdle
    /\ life[u] = "closing"
    /\ life' = [life EXCEPT ![u] = "deleted"]
    /\ UNCHANGED <<qhHostUsers, qhPeerUsers, udpAddr, sState, crypt, cChannel,
                   mayWhisper, qmTargets, qmTargetCache, job, writer>>

-----------------------------------------------------------------------------
Voice ==
    \/ \E v \in Users, k \in Keys, t \in Targets \cup {0} : Receive(v, k, t)
    \/ Rebind \/ Rebound \/ Fill("voice") \/ Filled("voice")

Main ==
    \/ EnterChannel \/ Flush \/ Fill("main") \/ Filled("main")
    \/ \E u \in Users :
          \/ NewClient(u) \/ Close(u) \/ Delete(u)
          \/ \E c \in Channels : Authenticate(u, c) \/ Move(u, c)
          \/ \E granted \in SUBSET Channels : ChangeACL(u, granted)
          \/ \E t \in Targets : TunnelVoice(u, t) \/ \E wt \in Addressed : VoiceTarget(u, t, wt)

Next == Voice \/ Main

Spec == Init /\ [][Next]_vars

-----------------------------------------------------------------------------
TypeOK ==
    /\ life \in [Users -> {"new", "listed", "closing", "deleted"}]
    /\ sState \in [Users -> {"Connected", "Authenticated"}]
    /\ crypt \subseteq Users
    /\ qhHostUsers \in [Hosts -> SUBSET Users]
    /\ qhPeerUsers \in [Keys -> Users \cup {NoUser}]
    /\ udpAddr \in [Users -> SUBSET Keys]
    /\ cChannel \in [Users -> Channels \cup {NoChannel}]
    /\ mayWhisper \subseteq Channels
    /\ qmTargets \in [Users -> [Targets -> WhisperTargets \cup {NoTarget}]]
    /\ qmTargetCache \in [Users -> [Targets -> Recipients \cup {NoCache}]]
    /\ job \in [Threads -> Jobs]
    /\ writer \in {"none", "voice"}

(* The voice thread finds a sender through qhPeerUsers or qhHostUsers and      *)
(* trusts the pointer: an entry of either belongs to a user still in qhUsers,  *)
(* although the thread itself moves users from one table to the other in a     *)
(* section that begins after it gave up the lock (Server.cpp:654-678).         *)
EntriesListed ==
    /\ \A k \in Keys : qhPeerUsers[k] \in qhUsers \cup {NoUser}
    /\ \A h \in Hosts : qhHostUsers[h] \subseteq qhUsers

(* A user can be found in exactly one way: by its address until its port is    *)
(* known, and from then on by the port and no other.                           *)
OneWayIn ==
    \A u \in qhUsers :
        /\ \A h \in Hosts : u \in qhHostUsers[h] <=> h = HostOf[u] /\ udpAddr[u] = {}
        /\ \A k \in Keys : qhPeerUsers[k] = u <=> udpAddr[u] = {k} /\ k[1] = HostOf[u]

\* Inductive: a user that has been recognised, but not moved yet, is still to be
\* found by its address unless it has left, and its peer has not been taken.
Recognised ==
    LET j == job["voice"]
    IN  j.pc = "rebind" =>
            /\ life[j.usr] # "new"
            /\ j.key[1] = HostOf[j.usr]
            /\ qhPeerUsers[j.key] = NoUser
            /\ udpAddr[j.usr] = {}

NewcomerUnbound == \A u \in Users : life[u] = "new" => udpAddr[u] = {}

OneAddress == \A u \in Users :
    udpAddr[u] = {} \/ \E k \in Keys : udpAddr[u] = {k} /\ k[1] = HostOf[u]

IInv == EntriesListed /\ OneWayIn /\ Recognised /\ NewcomerUnbound /\ OneAddress

(* Whatever happened while the lock was given up, the speaker on whose behalf  *)
(* the voice thread works is still listed when it goes on: packets are handled *)
(* and caches filled for listed users only.                                    *)
SpeakerListedStep ==
    /\ \A th \in Threads :
          job'[th].pc = "fill" /\ job[th].pc # "fill" => job'[th].usr \in qhUsers
    /\ \A u \in Users : qmTargetCache'[u] # qmTargetCache[u] => u \in qhUsers
SpeakerListed == [][SpeakerListedStep]_vars

RecipientsOf(dst) == dst.channel \cup dst.direct

(* "Every time we relock, reverify users' existance": the recipients a thread  *)
(* is about to send to, having given up the lock to cache them, still exist.   *)
DestinationsExist ==
    \A th \in Threads : job[th].pc = "filled" /\ job[th].usr \in qhUsers =>
        \A v \in RecipientsOf(job[th].dst) : life[v] # "deleted"

(* The same of the recipients that are cached and will be sent to, unverified, *)
(* under a later lock, whether or not they had authenticated when they left.   *)
CachedRecipientsExist ==
    \A u \in qhUsers, t \in Targets : qmTargetCache[u][t] # NoCache =>
        \A v \in RecipientsOf(qmTargetCache[u][t]) : life[v] # "deleted"

(* A thread that is not inside a section does not hold the lock.               *)
LockReleased == job["voice"] = Idle => writer # "voice"

(* "the permission to whisper to this channel from the outside": once          *)
(* clearACLCache is through, whispers through a channel only reach users of    *)
(* channels the speaker may whisper to.                                        *)
WhisperPermitted ==
    job["main"].pc # "flush" =>
        \A u \in qhUsers, t \in Targets : qmTargetCache[u][t] # NoCache =>
            \A v \in qmTargetCache[u][t].channel \cap qhUsers : cChannel[v] \in mayWhisper
=============================================================================
