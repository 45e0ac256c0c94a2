--------------------------- MODULE WhisperViewer ---------------------------
(***************************************************************************)
(* The threads Whisper adds to the client, from start to shutdown: the     *)
(* main thread, ViewerHandler (which serves the viewer's TCP connection),  *)
(* VoiceClient (which sends a request's events after its answer, fed by    *)
(* RequestQueue) and TalkingThread.  All of them send on the one socket    *)
(* through ViewerHandler::sendMessage.                                     *)
(***************************************************************************)
EXTENDS Naturals, Sequences, SequencesExt

CONSTANTS
    MaxRequests,    \* bound: requests the viewer sends
    Silent          \* those of them that are answered by no response

ASSUME ViewerAssumption ==
    /\ MaxRequests \in Nat
    /\ Silent \subseteq 1 .. MaxRequests

Requests == 1 .. MaxRequests
Senders  == {"none", "main", "viewer", "voice", "talk"}

VARIABLES
    main,           \* where the main thread is
    quit,           \* QCoreApplication::quit has reached its event loop
    bEnd,           \* GameHandler::bEnd
    bInitialized,   \* GameHandler::bInitialized
    viewer,         \* where ViewerHandler::run is
    link,           \* the TCP connection: "none", "up" or "down"
    pSocket,        \* ViewerHandler::pSocket is not null
    sent,           \* how many requests the viewer has sent
    unread,         \* requests received and not read
    inHand,         \* requests of the buffer being handled, oldest first
    queue,          \* RequestQueue::queue
    voice,          \* where VoiceClient::run is
    held,           \* the actor VoiceClient has dequeued, 0 for none
    voiceEnd,       \* VoiceClient::bEnd
    talk,           \* where TalkingThread::run is
    talkEnd,        \* TalkingThread::bEnd
    tt,             \* ViewerHandler::tt: "none", "made" or "deleted"
    sender,         \* the thread that holds mSenderMutex inside sendMessage
    wire            \* history: what was written to the viewer

vars == <<main, quit, bEnd, bInitialized, viewer, link, pSocket, sent, unread,
          inHand, queue, voice, held, voiceEnd, talk, talkEnd, tt, sender, wire>>
handler   == <<bEnd, bInitialized, pSocket, tt>>
voiceVars == <<voice, held, voiceEnd>>
talkVars  == <<talk, talkEnd>>
input     == <<sent, unread, inHand>>

Init ==
    /\ main = "starting" /\ quit = FALSE /\ bEnd = FALSE /\ bInitialized = FALSE
    /\ viewer = "start" /\ link = "none" /\ pSocket = FALSE
    /\ sent = 0 /\ unread = <<>> /\ inHand = <<>> /\ queue = <<>>
    /\ voice = "off" /\ held = 0 /\ voiceEnd = FALSE
    /\ talk = "off" /\ talkEnd = FALSE /\ tt = "none"
    /\ sender = "none" /\ wire = <<>>

is_active == ~bEnd /\ bInitialized

-----------------------------------------------------------------------------
(* ViewerHandler::sendMessage: lock, then test, then use the socket. *)

\* The lock is free and the handler active: the socket is about to be used.
Locked(who) == sender = "none" /\ is_active /\ sender' = who

\* The lock is free and the handler not active: nothing is sent.
Refused == sender = "none" /\ ~is_active /\ UNCHANGED sender

\* Faulty variant: the mutex is not released.
Written_KeepsLock(what, r) ==
    /\ UNCHANGED sender
    /\ wire' = IF link = "up" THEN Append(wire, [what |-> what, r |-> r])
                              ELSE wire

\* The holder writes and lets go; a connection that is gone takes nothing.
Written(what, r) ==
    /\ sender' = "none"
    /\ wire' = IF link = "up" THEN Append(wire, [what |-> what, r |-> r])
                              ELSE wire

-----------------------------------------------------------------------------
(* The viewer and the user. *)

ViewerConnects ==
    /\ viewer = "listen" /\ link = "none"
    /\ link' = "up"
    /\ UNCHANGED <<main, quit, handler, viewer, input, queue, voiceVars,
                   talkVars, sender, wire>>

ViewerSends ==
    /\ link = "up" /\ sent < MaxRequests
    /\ sent' = sent + 1
    /\ unread' = Append(unread, sent')
    /\ UNCHANGED <<main, quit, handler, viewer, link, inHand, queue, voiceVars,
                   talkVars, sender, wire>>

ViewerLeaves ==
    /\ link = "up"
    /\ link' = "down"
    /\ UNCHANGED <<main, quit, handler, viewer, input, queue, voiceVars,
                   talkVars, sender, wire>>

UserQuits ==
    /\ main = "loop"
    /\ quit' = TRUE
    /\ UNCHANGED <<main, handler, viewer, link, input, queue, voiceVars,
                   talkVars, sender, wire>>

-----------------------------------------------------------------------------
(* ViewerHandler::run *)

Start ==
    /\ viewer = "start"
    /\ tt' = "made" /\ voice' = "wait" /\ viewer' = "listen"
    /\ UNCHANGED <<main, quit, bEnd, bInitialized, pSocket, link, input, queue,
                   held, voiceEnd, talkVars, sender, wire>>

Accept ==
    /\ viewer = "listen" /\ link # "none"
    /\ pSocket' = TRUE /\ viewer' = "accepted"
    /\ UNCHANGED <<main, quit, bEnd, bInitialized, tt, link, input, queue,
                   voiceVars, talkVars, sender, wire>>

\* The port is taken, or nobody connected within ten seconds.
NoConnection ==
    /\ viewer = "listen" /\ link = "none"
    /\ viewer' = "leaving"
    /\ UNCHANGED <<main, quit, handler, link, input, queue, voiceVars,
                   talkVars, sender, wire>>

Initialized ==
    /\ viewer = "accepted"
    /\ bInitialized' = TRUE /\ viewer' = "loop"
    /\ UNCHANGED <<main, quit, bEnd, pSocket, tt, link, input, queue,
                   voiceVars, talkVars, sender, wire>>

\* readAll: the requests received so far, handled one after the other.
Read ==
    /\ viewer = "loop" /\ inHand = <<>> /\ unread # <<>>
    /\ inHand' = unread /\ unread' = <<>>
    /\ UNCHANGED <<main, quit, handler, viewer, link, sent, queue, voiceVars,
                   talkVars, sender, wire>>

\* Request::handle: parse and execute, which may fail.
Execute ==
    /\ viewer = "loop" /\ inHand # <<>>
    /\ \/ inHand' = Tail(inHand) /\ UNCHANGED viewer
       \/ /\ viewer' = IF Head(inHand) \in Silent THEN "executed" ELSE "answer"
          /\ UNCHANGED inHand
    /\ UNCHANGED <<main, quit, handler, link, sent, unread, queue, voiceVars,
                   talkVars, sender, wire>>

Answer ==
    /\ viewer = "answer"
    /\ \/ Locked("viewer") /\ viewer' = "answering"
       \/ Refused /\ viewer' = "executed"
    /\ UNCHANGED <<main, quit, handler, link, input, queue, voiceVars,
                   talkVars, wire>>

\* A write that times out is an error: the request is not enqueued.
Answered ==
    /\ viewer = "answering"
    /\ Written("answer", Head(inHand))
    /\ \/ viewer' = "executed" /\ UNCHANGED inHand
       \/ link = "up" /\ viewer' = "loop" /\ inHand' = Tail(inHand)
    /\ UNCHANGED <<main, quit, handler, link, sent, unread, queue, voiceVars,
                   talkVars>>

\* Faulty variant: the newest request is put first.
Enqueue_Front ==
    /\ viewer = "executed"
    /\ queue' = <<Head(inHand)>> \o queue
    /\ inHand' = Tail(inHand) /\ viewer' = "loop"
    /\ UNCHANGED <<main, quit, handler, link, sent, unread, voiceVars,
                   talkVars, sender, wire>>

\* Faulty variant: the actor is not taken out of the caller's hands.
Enqueue_NotTaken ==
    /\ viewer = "executed"
    /\ queue' = Append(queue, Head(inHand))
    /\ viewer' = "loop"
    /\ UNCHANGED <<main, quit, handler, link, input, voiceVars, talkVars,
                   sender, wire>>

\* The actor of an executed request passes to VoiceClient.
Enqueue ==
    /\ viewer = "executed"
    /\ queue' = Append(queue, Head(inHand))
    /\ inHand' = Tail(inHand) /\ viewer' = "loop"
    /\ UNCHANGED <<main, quit, handler, link, sent, unread, voiceVars,
                   talkVars, sender, wire>>

Disconnected ==
    /\ viewer = "loop" /\ inHand = <<>> /\ unread = <<>> /\ link = "down"
    /\ viewer' = "leaving"
    /\ UNCHANGED <<main, quit, handler, link, input, queue, voiceVars,
                   talkVars, sender, wire>>

\* qApp->quit(): no event loop, no effect.
Quit ==
    /\ viewer = "leaving"
    /\ quit' = (quit \/ main \notin {"starting", "gone"})
    /\ viewer' = "quitting"
    /\ UNCHANGED <<main, handler, link, input, queue, voiceVars, talkVars,
                   sender, wire>>

\* Faulty variant: VoiceClient is not told to end.
ShutdownSeen_ForgetsVoice ==
    /\ viewer = "quitting" /\ bEnd
    /\ viewer' = "joinVoice"
    /\ UNCHANGED <<main, quit, handler, link, input, queue, voiceVars,
                   talkVars, sender, wire>>

ShutdownSeen ==
    /\ viewer = "quitting" /\ bEnd
    /\ voiceEnd' = TRUE /\ viewer' = "joinVoice"
    /\ UNCHANGED <<main, quit, handler, link, input, queue, voice, held,
                   talkVars, sender, wire>>

JoinVoice ==
    /\ viewer = "joinVoice" /\ voice = "ended"
    /\ talkEnd' = TRUE /\ viewer' = "joinTalk"
    /\ UNCHANGED <<main, quit, handler, link, input, queue, voiceVars, talk,
                   sender, wire>>

\* Faulty variant: the talking thread is deleted while it runs.
JoinTalk_NoWait ==
    /\ viewer = "joinTalk"
    /\ tt' = "deleted" /\ viewer' = "closing"
    /\ UNCHANGED <<main, quit, bEnd, bInitialized, pSocket, link, input, queue,
                   voiceVars, talkVars, sender, wire>>

JoinTalk ==
    /\ viewer = "joinTalk" /\ talk \in {"off", "ended"}
    /\ tt' = "deleted" /\ viewer' = "closing"
    /\ UNCHANGED <<main, quit, bEnd, bInitialized, pSocket, link, input, queue,
                   voiceVars, talkVars, sender, wire>>

Close ==
    /\ viewer = "closing"
    /\ pSocket' = FALSE /\ link' = "down" /\ viewer' = "done"
    /\ UNCHANGED <<main, quit, bEnd, bInitialized, tt, input, queue, voiceVars,
                   talkVars, sender, wire>>

ViewerThread == \/ Start \/ Accept \/ NoConnection \/ Initialized \/ Read
                \/ Execute \/ Answer \/ Answered \/ Enqueue \/ Disconnected
                \/ Quit \/ ShutdownSeen \/ JoinVoice \/ JoinTalk \/ Close

-----------------------------------------------------------------------------
(* VoiceClient::run *)

\* RequestQueue::dequeue: the oldest actor, or none after a second's wait.
Dequeue ==
    /\ voice = "wait"
    /\ voice' = "got"
    /\ \/ queue # <<>> /\ held' = Head(queue) /\ queue' = Tail(queue)
       \/ queue = <<>> /\ held' = 0 /\ UNCHANGED queue
    /\ UNCHANGED <<main, quit, handler, viewer, link, input, voiceEnd,
                   talkVars, sender, wire>>

\* bEnd is tested after the dequeue: an actor in hand is dropped.
Dequeued ==
    /\ voice = "got"
    /\ voice' = CASE voiceEnd -> "ended"
                  [] ~voiceEnd /\ held = 0 -> "wait"
                  [] OTHER -> "post"
    /\ UNCHANGED <<main, quit, handler, viewer, link, input, queue, held,
                   voiceEnd, talkVars, sender, wire>>

PostProcess ==
    /\ voice = "post"
    /\ \/ Locked("voice") /\ voice' = "posting" /\ UNCHANGED held
       \/ Refused /\ voice' = "wait" /\ held' = 0
    /\ UNCHANGED <<main, quit, handler, viewer, link, input, queue, voiceEnd,
                   talkVars, wire>>

PostProcessed ==
    /\ voice = "posting"
    /\ Written("events", held)
    /\ voice' = "wait" /\ held' = 0
    /\ UNCHANGED <<main, quit, handler, viewer, link, input, queue, voiceEnd,
                   talkVars>>

VoiceClientThread == Dequeue \/ Dequeued \/ PostProcess \/ PostProcessed

-----------------------------------------------------------------------------
(* TalkingThread::run: a round of talkingChanged calls, then a nap. *)

Tell ==
    /\ talk = "run"
    /\ \/ Locked("talk") /\ talk' = "telling"
       \/ Refused /\ talk' = "nap"
       \/ talk' = "nap" /\ UNCHANGED sender     \* nobody is in the list
    /\ UNCHANGED <<main, quit, handler, viewer, link, input, queue, voiceVars,
                   talkEnd, wire>>

Told ==
    /\ talk = "telling"
    /\ sender' = "none" /\ talk' = "nap"
    /\ UNCHANGED <<main, quit, handler, viewer, link, input, queue, voiceVars,
                   talkEnd, wire>>

Nap ==
    /\ talk = "nap"
    /\ talk' = IF talkEnd THEN "ended" ELSE "run"
    /\ UNCHANGED <<main, quit, handler, viewer, link, input, queue, voiceVars,
                   talkEnd, sender, wire>>

TalkThread == Tell \/ Told \/ Nap

-----------------------------------------------------------------------------
(* The main thread. *)

EnterLoop ==
    /\ main = "starting"
    /\ main' = "loop"
    /\ UNCHANGED <<quit, handler, viewer, link, input, queue, voiceVars,
                   talkVars, sender, wire>>

\* UserModel adds or removes a user: addParticipant, removeParticipant.
TellParticipant ==
    /\ main = "loop"
    /\ Locked("main") /\ main' = "telling"
    /\ UNCHANGED <<quit, handler, viewer, link, input, queue, voiceVars,
                   talkVars, wire>>

ToldParticipant ==
    /\ main = "telling"
    /\ sender' = "none" /\ main' = "loop"
    /\ UNCHANGED <<quit, handler, viewer, link, input, queue, voiceVars,
                   talkVars, wire>>

\* setTalking: test is_active, then start and feed the talking thread.
SetTalking ==
    /\ main = "loop" /\ is_active
    /\ main' = "talking"
    /\ UNCHANGED <<quit, handler, viewer, link, input, queue, voiceVars,
                   talkVars, sender, wire>>

StartTalking ==
    /\ main = "talking"
    /\ talk' = IF talk = "off" THEN "run" ELSE talk
    /\ main' = "loop"
    /\ UNCHANGED <<quit, handler, viewer, link, input, queue, voiceVars,
                   talkEnd, sender, wire>>

\* a.exec() returns; g.gh->end()
End ==
    /\ main = "loop" /\ quit
    /\ bEnd' = TRUE /\ main' = "waiting"
    /\ UNCHANGED <<quit, bInitialized, pSocket, tt, viewer, link, input, queue,
                   voiceVars, talkVars, sender, wire>>

\* Faulty variant: the handler is deleted while its thread runs.
Delete_NoWait ==
    /\ main = "waiting"
    /\ main' = "gone"
    /\ UNCHANGED <<quit, handler, viewer, link, input, queue, voiceVars,
                   talkVars, sender, wire>>

\* g.gh->wait() returns; delete g.gh
Delete ==
    /\ main = "waiting" /\ viewer = "done"
    /\ main' = "gone"
    /\ UNCHANGED <<quit, handler, viewer, link, input, queue, voiceVars,
                   talkVars, sender, wire>>

MainThread == EnterLoop \/ ToldParticipant \/ StartTalking \/ End \/ Delete

-----------------------------------------------------------------------------
Next == \/ ViewerThread \/ VoiceClientThread \/ TalkThread \/ MainThread
        \/ TellParticipant \/ SetTalking
        \/ ViewerConnects \/ ViewerSends \/ ViewerLeaves \/ UserQuits

Spec == Init /\ [][Next]_vars

\* A thread that can run does run, a mutex that is freed again and again is
\* taken in the end, and an event loop told to quit ends however many events
\* still reach it.  Nothing is promised of viewer, user and network.
FairSpec ==
    /\ Spec
    /\ WF_vars(ViewerThread) /\ WF_vars(VoiceClientThread)
    /\ WF_vars(TalkThread) /\ WF_vars(MainThread)
    /\ SF_vars(Answer) /\ SF_vars(PostProcess) /\ SF_vars(End)

-----------------------------------------------------------------------------
\* Types of the variables; no request is in a queue twice, nor read and unread.
TypeOK ==
    /\ main \in {"starting", "loop", "telling", "talking", "waiting", "gone"}
    /\ viewer \in {"start", "listen", "accepted", "loop", "answer", "answering",
                   "executed", "leaving", "quitting", "joinVoice", "joinTalk",
                   "closing", "done"}
    /\ voice \in {"off", "wait", "got", "post", "posting", "ended"}
    /\ talk \in {"off", "run", "telling", "nap", "ended"}
    /\ link \in {"none", "up", "down"} /\ tt \in {"none", "made", "deleted"}
    /\ sender \in Senders /\ held \in Requests \cup {0}
    /\ {quit, bEnd, bInitialized, pSocket, voiceEnd, talkEnd} \subseteq BOOLEAN
    /\ sent \in 0 .. MaxRequests
    /\ {unread, inHand, queue} \subseteq Seq(Requests)
    /\ wire \in Seq([what : {"answer", "events"}, r : Nat])
    /\ \A s \in {unread, inHand, queue} : IsInjective(s)
    /\ ToSet(inHand) \cap ToSet(unread) = {} /\ held \notin ToSet(queue)

\* The socket and the talking thread exist while another thread uses them:
\* whoever is past the is_active test of sendMessage or setTalking finds them,
\* also when the handler is starting up or being torn down.
UsedExists ==
    /\ sender # "none" => pSocket
    /\ main = "talking" \/ talk \in {"run", "telling", "nap"} => tt = "made"

\* When the main thread deletes the handler, no thread is left that could
\* still touch it.
NothingOutlives ==
    main = "gone" => /\ viewer = "done" /\ voice = "ended"
                     /\ talk \in {"off", "ended"} /\ sender = "none"

\* A request's events come after its answer, in the order of the requests,
\* and once, though one thread answers and another sends the events.
EventsFollow ==
    \A j \in DOMAIN wire : wire[j].what = "events" =>
        /\ wire[j].r \notin Silent =>
              \E i \in 1 .. j - 1 : wire[i] = [what |-> "answer", r |-> wire[j].r]
        /\ \A i \in 1 .. j - 1 : wire[i].what = "events" => wire[i].r < wire[j].r

\* What is enqueued is sent, unless the connection or the handler goes first.
EventsSent ==
    \A r \in Requests :
        r \in ToSet(queue) ~> \/ [what |-> "events", r |-> r] \in ToSet(wire)
                              \/ link = "down" \/ bEnd

\* Once ViewerHandler has given up and its quit has arrived, the program ends.
QuitStops == (viewer = "quitting" /\ quit) ~> (main = "gone")

\* A viewer that goes away takes the program with it (wViewerHandler.cpp:124,
\* "Socket no more connected - shutting down").
DisconnectStops == (link = "down") ~> (main = "gone")

\* A user who quits stops the handler (main_application.cpp:429, "Stopping
\* viewerHandler execution...").
UserQuitStops == quit ~> (main = "gone")
=============================================================================
