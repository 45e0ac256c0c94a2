-------------------------- MODULE VoiceThreadLife --------------------------
(***************************************************************************)
(* Starting and stopping murmur's voice thread (startThread, stopThread    *)
(* and the loop of run in src/src/murmur/Server.cpp).  The thread runs     *)
(* while users are authenticated: the first to authenticate starts it, the *)
(* last to leave stops it with a byte on the notify socket and waits.  The *)
(* UDP sockets are read by the thread, or by the event loop (udpActivated) *)
(* while their notifiers are enabled.  Both threads take qrwlUsers, and    *)
(* the voice thread has a path on which it keeps the write lock.           *)
(***************************************************************************)
EXTENDS Integers, FiniteSets

CONSTANTS
    Users,
    NoUser,       \* no sender recognised, or one that has left since
    Sockets,      \* how many UDP sockets there are
    MaxFailures   \* bound: how often poll may fail

ASSUME LifeAssumption ==
    Sockets \in Nat \ {0} /\ MaxFailures \in Nat /\ NoUser \notin Users

VARIABLES
    online, authenticated,  \* users in qhUsers; those with a key
    bound,       \* users with a peer, so that their packets need no recognition
    leaked,      \* the voice thread has write-locked qrwlUsers and never unlocks it
    bRunning,
    thread,      \* "stopped", at the "loop" test, in "poll", at a socket ("recv"),
                 \* with a "packet", before the write lock ("relock"), "ending"
    left,        \* further sockets that the last poll found ready
    sender,      \* the user recognised when the read lock was given up
    byte,        \* aiNotify holds a byte (draining takes all there are)
    notifiers,   \* qlUdpNotifier are enabled
    qtTimeout,   \* the timer of checkTimeout is active
    main,        \* "idle", in msgAuthenticate "enter", in connectionClosed "flush",
                 \* or in stopThread: "stop", "check", "notify", "wait"
    failures

userVars == <<online, authenticated, bound>>
runVars == <<thread, left, sender, leaked>>
stopVars == <<byte, notifiers, qtTimeout, failures>>
vars == <<userVars, runVars, stopVars, bRunning, main>>

\* QThread::isRunning: until the thread has finished, not just left its loop.
isRunning == thread # "stopped"

\* qrwlUsers can be taken: everybody else gives it up in the step that takes it.
lockable == ~leaked

Init ==
    /\ online = {} /\ authenticated = {} /\ bound = {}
    /\ leaked = FALSE
    /\ bRunning = FALSE
    /\ thread = "stopped"
    /\ left = 0
    /\ sender = NoUser
    /\ byte = FALSE
    /\ notifiers = TRUE
    /\ qtTimeout = FALSE
    /\ main = "idle"
    /\ failures = 0

-----------------------------------------------------------------------------
(* The main thread *)

newClient(u) ==
    /\ main = "idle" /\ u \notin online
    /\ lockable
    /\ online' = online \cup {u}
    /\ UNCHANGED <<authenticated, bound, runVars, stopVars, bRunning, main>>

\* Faulty variant: the event loop keeps reading the sockets.
startThread_KeepNotifiers ==
    /\ qtTimeout' = TRUE
    /\ IF isRunning
       THEN UNCHANGED <<bRunning, thread>>
       ELSE bRunning' = TRUE /\ thread' = "loop"
    /\ UNCHANGED notifiers

startThread ==
    /\ qtTimeout' = TRUE
    /\ IF isRunning
       THEN UNCHANGED <<bRunning, thread, notifiers>>
       ELSE bRunning' = TRUE /\ thread' = "loop" /\ notifiers' = FALSE

\* startThread and genKey, which need no lock.
msgAuthenticate(u) ==
    /\ main = "idle" /\ u \in online \ authenticated
    /\ authenticated' = authenticated \cup {u}
    /\ startThread
    /\ main' = "enter"
    /\ UNCHANGED <<online, bound, left, sender, leaked, byte, failures>>

\* userEnterChannel, which locks.
Enter ==
    /\ main = "enter" /\ lockable
    /\ main' = "idle"
    /\ UNCHANGED <<userVars, runVars, stopVars, bRunning>>

\* Faulty variant: a user that left still counts as authenticated.
leaves_StillCounted(u) ==
    /\ online' = online \ {u} /\ bound' = bound \ {u}
    /\ sender' = IF sender = u THEN NoUser ELSE sender
    /\ UNCHANGED authenticated

\* A number is not given again soon: the sender recognised is not found any more.
leaves(u) ==
    /\ online' = online \ {u} /\ bound' = bound \ {u}
    /\ sender' = IF sender = u THEN NoUser ELSE sender
    /\ authenticated' = authenticated \ {u}

\* "if (qhUsers.isEmpty()) stopThread();"
stopIfEmpty(users) == main' = IF users = {} THEN "stop" ELSE "idle"

connectionClosed(u) ==
    /\ main = "idle" /\ u \in online
    /\ lockable
    /\ leaves(u)
    /\ IF u \in authenticated THEN main' = "flush" ELSE stopIfEmpty(online')
    /\ UNCHANGED <<thread, left, leaked, stopVars, bRunning>>

\* clearACLCache of the user who has left, which locks.
Flush ==
    /\ main = "flush" /\ lockable
    /\ stopIfEmpty(online)
    /\ UNCHANGED <<userVars, runVars, stopVars, bRunning>>

Stop ==
    /\ main = "stop"
    /\ bRunning' = FALSE
    /\ main' = "check"
    /\ UNCHANGED <<userVars, runVars, stopVars>>

\* stopThread is done: it returns.
Stopped ==
    /\ main' = "idle"
    /\ qtTimeout' = FALSE

Check ==
    /\ main = "check"
    /\ IF isRunning THEN main' = "notify" /\ UNCHANGED qtTimeout ELSE Stopped
    /\ UNCHANGED <<userVars, runVars, bRunning, byte, notifiers, failures>>

\* Faulty variant: nothing is written.
written_No == FALSE

written == TRUE

Notify ==
    /\ main = "notify"
    /\ notifiers' = TRUE
    /\ byte' = (byte \/ written)
    /\ main' = "wait"
    /\ UNCHANGED <<userVars, runVars, bRunning, qtTimeout, failures>>

\* Faulty variant: wait() is left out.
joined_NoWait == TRUE

joined == ~isRunning

Wait ==
    /\ main = "wait"
    /\ joined
    /\ Stopped
    /\ UNCHANGED <<userVars, runVars, bRunning, byte, notifiers, failures>>

-----------------------------------------------------------------------------
(* The voice thread: run *)

\* The test of the loop.
while ==
    /\ thread = "loop"
    /\ thread' = IF bRunning THEN "poll" ELSE "ending"
    /\ UNCHANGED <<bound, left, sender, leaked, byte>>

\* poll: the notify socket is looked at first, and drained.
notified ==
    /\ thread = "poll" /\ byte
    /\ byte' = FALSE
    /\ thread' = "ending"
    /\ UNCHANGED <<bound, left, sender, leaked>>

finished ==
    /\ thread = "ending"
    /\ thread' = "stopped"
    /\ UNCHANGED <<bound, left, sender, leaked, byte>>

\* poll: some sockets have a packet.
ready ==
    /\ thread = "poll" /\ ~byte
    /\ thread' = "recv"
    /\ left' \in 0 .. Sockets - 1
    /\ UNCHANGED <<bound, sender, leaked, byte>>

\* The next socket that was ready, without a look at bRunning; or back to the test.
nextSocket ==
    IF left > 0 THEN thread' = "recv" /\ left' = left - 1
                ELSE thread' = "loop" /\ UNCHANGED left

\* A packet, one of a wrong size, or nothing (which ends this pass).
recvfrom ==
    /\ thread = "recv"
    /\ \/ thread' = "packet" /\ UNCHANGED left
       \/ nextSocket
       \/ thread' = "loop" /\ left' = 0
    /\ UNCHANGED <<bound, sender, leaked, byte>>

\* Under the read lock: a ping, a known peer, or somebody not recognised.
handled ==
    /\ thread = "packet" /\ lockable
    /\ nextSocket
    /\ UNCHANGED <<bound, sender, leaked, byte>>

\* Under the read lock, which is then given up: the packet opens with u's key.
recognised(u) ==
    /\ thread = "packet" /\ lockable
    /\ u \in authenticated \ bound
    /\ sender' = u
    /\ thread' = "relock"
    /\ UNCHANGED <<bound, left, leaked, byte>>

\* Under the write lock: the peer is entered and the packet handled.  If the
\* sender is not listed any more, the block is left without the unlock.
rebound ==
    /\ thread = "relock" /\ lockable
    /\ IF sender = NoUser
       THEN leaked' = TRUE /\ UNCHANGED bound
       ELSE bound' = bound \cup {sender} /\ UNCHANGED leaked
    /\ sender' = NoUser
    /\ nextSocket
    /\ UNCHANGED byte

Run ==
    /\ \/ while \/ notified \/ finished
       \/ recvfrom \/ handled \/ rebound
    /\ UNCHANGED <<online, authenticated, bRunning, notifiers, qtTimeout, main, failures>>

Packet ==
    /\ ready \/ \E u \in Users : recognised(u)
    /\ UNCHANGED <<online, authenticated, bRunning, notifiers, qtTimeout, main, failures>>

\* poll fails, or reports an error on a socket: the loop is left either way.
PollFailure ==
    /\ thread \in {"poll", "recv"} /\ failures < MaxFailures
    /\ bRunning' = FALSE
    /\ thread' = IF thread = "poll" THEN "ending" ELSE "loop"
    /\ left' = 0
    /\ failures' = failures + 1
    /\ UNCHANGED <<userVars, sender, leaked, byte, notifiers, qtTimeout, main>>

-----------------------------------------------------------------------------
StopThread == Stop \/ Check \/ Notify \/ Wait

Next ==
    \/ \E u \in Users : newClient(u) \/ msgAuthenticate(u) \/ connectionClosed(u)
    \/ Enter \/ Flush \/ StopThread \/ Run \/ Packet \/ PollFailure

\* Both threads are scheduled, and get a lock that is free; users and packets
\* come as they please.
Spec == Init /\ [][Next]_vars /\ WF_vars(StopThread) /\ WF_vars(Run)

-----------------------------------------------------------------------------
TypeOK ==
    /\ online \subseteq Users /\ authenticated \subseteq online
    /\ bound \subseteq authenticated
    /\ leaked \in BOOLEAN
    /\ left \in 0 .. Sockets - 1
    /\ sender \in authenticated \cup {NoUser}
    /\ sender # NoUser => thread = "relock"
    /\ bRunning \in BOOLEAN /\ byte \in BOOLEAN
    /\ notifiers \in BOOLEAN /\ qtTimeout \in BOOLEAN
    /\ thread \in {"stopped", "loop", "poll", "recv", "packet", "relock", "ending"}
    /\ main \in {"idle", "enter", "flush", "stop", "check", "notify", "wait"}
    /\ failures \in 0 .. MaxFailures

(* The voice thread and the event loop never both read the UDP sockets: while  *)
(* the notifiers are enabled and the thread still runs, the main thread waits. *)
OneReader == notifiers /\ isRunning => main = "wait"

\* The voice thread has a packet and waits for the lock it holds itself.
SelfLocked == leaked /\ thread = "packet"

(* stopThread returns: its wait for the voice thread ends, whatever the thread *)
(* was doing and however many bytes were left over, but for one case: the      *)
(* thread waits for the write lock that it has not given back itself.          *)
StopReturns == (main = "stop") ~> (main = "idle" \/ SelfLocked)

(* stopThread returns, without that exception: refuted, since a user may leave *)
(* between the two locks of run, and another packet be read after that.        *)
StopAlwaysReturns == (main = "stop") ~> (main = "idle")

(* A thread that has been stopped is not running when stopThread returns, and  *)
(* nothing but startThread runs it again.                                      *)
StaysStopped == online = {} /\ main = "idle" => ~isRunning

(* "Drain pipe": a thread that has been stopped leaves no byte behind that     *)
(* would end the next one at once.                                             *)
PipeDrained == main = "idle" /\ ~isRunning => ~byte

(* udpActivated answers pings "until the thread is started": one of the two    *)
(* reads the UDP sockets at all times.                                         *)
SocketsRead == main = "idle" => notifiers \/ isRunning
=============================================================================
