------------------------ MODULE WhisperViewerProofs ------------------------
(***************************************************************************)
(* The four threads of the viewer connection, for any number of requests:  *)
(* the socket and the talking thread outlive their users, and events       *)
(* follow the answers in the order of the requests.                        *)
(***************************************************************************)
EXTENDS WhisperViewer, TLAPS

\* Types of what the threads share, without the sequences.
ThreadTypes ==
    /\ main \in {"starting", "loop", "telling", "talking", "waiting", "gone"}
    /\ viewer \in {"start", "listen", "accepted", "loop", "answer", "answering",
                   "executed", "leaving", "quitting", "joinVoice", "joinTalk",
                   "closing", "done"}
    /\ voice \in {"off", "wait", "got", "post", "posting", "ended"}
    /\ talk \in {"off", "run", "telling", "nap", "ended"}
    /\ sender \in Senders
    /\ bEnd \in BOOLEAN /\ bInitialized \in BOOLEAN

\* Who holds the mutex is where it uses the socket.
Holder ==
    /\ sender = "main" <=> main = "telling"
    /\ sender = "viewer" <=> viewer = "answering"
    /\ sender = "voice" <=> voice = "posting"
    /\ sender = "talk" <=> talk = "telling"

\* The handler is told to end by a main thread that does nothing else then.
Ending ==
    /\ bEnd <=> main \in {"waiting", "gone"}
    /\ viewer \in {"joinVoice", "joinTalk", "closing", "done"} => bEnd
    /\ main = "gone" => viewer = "done"

\* The threads end one after the other.
Joined ==
    /\ viewer \in {"joinTalk", "closing", "done"} => voice = "ended"
    /\ viewer \in {"closing", "done"} => talk \in {"off", "ended"}

\* Nobody uses the handler before it is initialised.
Started ==
    /\ viewer \in {"start", "listen", "accepted"} => ~bInitialized
    /\ sender # "none" => bInitialized
    /\ main = "talking" \/ talk # "off" => bInitialized

\* What is used exists from before the initialisation to the end of its users.
Exists ==
    /\ viewer = "accepted" \/ (bInitialized /\ viewer # "done") => pSocket
    /\ viewer \notin {"start", "closing", "done"} => tt = "made"

ThreadInv == ThreadTypes /\ Holder /\ Ending /\ Joined /\ Started /\ Exists

LEMMA ThreadsInit == Init => ThreadInv
  BY DEF Init, ThreadInv, ThreadTypes, Senders, Holder, Ending, Joined, Started, Exists

\* A step of each thread.
LEMMA ViewerStep ==
  ASSUME ThreadInv, ViewerThread
  PROVE  ThreadInv'
  <1> USE DEF ThreadInv, ThreadTypes, Senders, Holder, Ending, Joined, Started, Exists,
              handler, voiceVars, talkVars, input
  <1>1. CASE Start
    BY <1>1 DEF Start
  <1>2. CASE Accept
    BY <1>2 DEF Accept
  <1>3. CASE NoConnection
    BY <1>3 DEF NoConnection
  <1>4. CASE Initialized
    BY <1>4 DEF Initialized
  <1>5. CASE Read
    BY <1>5 DEF Read
  <1>6. CASE Execute
    BY <1>6 DEF Execute
  <1>7. CASE Answer
    BY <1>7 DEF Answer, Locked, Refused, is_active
  <1>8. CASE Answered
    BY <1>8 DEF Answered, Written
  <1>9. CASE Enqueue
    BY <1>9 DEF Enqueue
  <1>10. CASE Disconnected
    BY <1>10 DEF Disconnected
  <1>11. CASE Quit
    BY <1>11 DEF Quit
  <1>12. CASE ShutdownSeen
    BY <1>12 DEF ShutdownSeen
  <1>13. CASE JoinVoice
    BY <1>13 DEF JoinVoice
  <1>14. CASE JoinTalk
    BY <1>14 DEF JoinTalk
  <1>15. CASE Close
    BY <1>15 DEF Close
  <1> QED BY <1>1, <1>2, <1>3, <1>4, <1>5, <1>6, <1>7, <1>8, <1>9, <1>10, <1>11, <1>12,
             <1>13, <1>14, <1>15 DEF ViewerThread

LEMMA VoiceStep ==
  ASSUME ThreadInv, VoiceClientThread
  PROVE  ThreadInv'
  <1> USE DEF ThreadInv, ThreadTypes, Senders, Holder, Ending, Joined, Started, Exists,
              handler, voiceVars, talkVars, input
  <1>1. CASE Dequeue
    BY <1>1 DEF Dequeue
  <1>2. CASE Dequeued
    BY <1>2 DEF Dequeued
  <1>3. CASE PostProcess
    BY <1>3 DEF PostProcess, Locked, Refused, is_active
  <1>4. CASE PostProcessed
    BY <1>4 DEF PostProcessed, Written
  <1> QED BY <1>1, <1>2, <1>3, <1>4 DEF VoiceClientThread

LEMMA TalkStep ==
  ASSUME ThreadInv, TalkThread
  PROVE  ThreadInv'
  <1> USE DEF ThreadInv, ThreadTypes, Senders, Holder, Ending, Joined, Started, Exists,
              handler, voiceVars, talkVars, input
  <1>1. CASE Tell
    BY <1>1 DEF Tell, Locked, Refused, is_active
  <1>2. CASE Told
    BY <1>2 DEF Told
  <1>3. CASE Nap
    BY <1>3 DEF Nap
  <1> QED BY <1>1, <1>2, <1>3 DEF TalkThread

LEMMA MainStep ==
  ASSUME ThreadInv, MainThread \/ TellParticipant \/ SetTalking
  PROVE  ThreadInv'
  <1> USE DEF ThreadInv, ThreadTypes, Senders, Holder, Ending, Joined, Started, Exists,
              handler, voiceVars, talkVars, input
  <1>1. CASE EnterLoop
    BY <1>1 DEF EnterLoop
  <1>2. CASE ToldParticipant
    BY <1>2 DEF ToldParticipant
  <1>3. CASE StartTalking
    BY <1>3 DEF StartTalking
  <1>4. CASE End
    BY <1>4 DEF End
  <1>5. CASE Delete
    BY <1>5 DEF Delete
  <1>6. CASE TellParticipant
    BY <1>6 DEF TellParticipant, Locked, is_active
  <1>7. CASE SetTalking
    BY <1>7 DEF SetTalking, is_active
  <1> QED BY <1>1, <1>2, <1>3, <1>4, <1>5, <1>6, <1>7 DEF MainThread

\* The viewer, the network and the user touch none of this.
LEMMA OutsideStep ==
  ASSUME ThreadInv, ViewerConnects \/ ViewerSends \/ ViewerLeaves \/ UserQuits \/ UNCHANGED vars
  PROVE  ThreadInv'
  <1>1. UNCHANGED <<main, viewer, voice, talk, sender, bEnd, bInitialized, pSocket, tt>>
    BY DEF ViewerConnects, ViewerSends, ViewerLeaves, UserQuits, vars,
           handler, voiceVars, talkVars
  <1> QED BY <1>1 DEF ThreadInv, ThreadTypes, Holder, Ending, Joined, Started, Exists

LEMMA ThreadsStep == ThreadInv /\ [Next]_vars => ThreadInv'
  BY ViewerStep, VoiceStep, TalkStep, MainStep, OutsideStep DEF Next

-----------------------------------------------------------------------------
(* Requests pass from unread to inHand to queue to held to wire.             *)

Increasing(s) == \A i, j \in DOMAIN s : i < j => s[i] < s[j]
Before(S, T) == \A x \in S, y \in T : x < y

\* Requests whose events were sent, and the one whose events are about to be.
Posted == {wire[j].r : j \in {k \in DOMAIN wire : wire[k].what = "events"}}
Held == {held} \ {0}

Lists ==
    /\ unread \in Seq(Nat) /\ Increasing(unread)
    /\ inHand \in Seq(Nat) /\ Increasing(inHand)
    /\ queue \in Seq(Nat) /\ Increasing(queue)
    /\ wire \in Seq([what : {"answer", "events"}, r : Nat])
    /\ held \in Nat /\ sent \in 0 .. MaxRequests

\* All requests, in the order they passed.
InLine ==
    /\ Before(Posted, Held \cup ToSet(queue) \cup ToSet(inHand) \cup ToSet(unread))
    /\ Before(Held, ToSet(queue) \cup ToSet(inHand) \cup ToSet(unread))
    /\ Before(ToSet(queue), ToSet(inHand) \cup ToSet(unread))
    /\ Before(ToSet(inHand), ToSet(unread))
    /\ Posted \cup Held \cup ToSet(queue) \cup ToSet(inHand) \cup ToSet(unread) \subseteq 1 .. sent

\* The events on the wire are in that order.
EventsInLine ==
    \A i, j \in DOMAIN wire :
        i < j /\ wire[i].what = "events" /\ wire[j].what = "events" => wire[i].r < wire[j].r

OrderInv == Lists /\ InLine /\ EventsInLine

\* The first of an increasing sequence, and the rest.
LEMMA TailOf ==
  ASSUME NEW s \in Seq(Nat), s # <<>>, Increasing(s)
  PROVE  /\ Tail(s) \in Seq(Nat) /\ Increasing(Tail(s))
         /\ Head(s) \in Nat /\ ToSet(s) = {Head(s)} \cup ToSet(Tail(s))
         /\ \A x \in ToSet(Tail(s)) : Head(s) < x
  <1>1. /\ Len(s) \in Nat /\ Len(s) >= 1 /\ DOMAIN s = 1 .. Len(s) /\ Head(s) = s[1]
        /\ Tail(s) \in Seq(Nat) /\ DOMAIN Tail(s) = 1 .. Len(s) - 1
        /\ \A i \in 1 .. Len(s) - 1 : Tail(s)[i] = s[i + 1]
    OBVIOUS
  <1>2. \A i, j \in DOMAIN s : i < j => s[i] < s[j]
    BY DEF Increasing
  <1>3. \A i \in DOMAIN Tail(s) : i + 1 \in DOMAIN s /\ Tail(s)[i] = s[i + 1] /\ 1 < i + 1
    BY <1>1
  <1>4. Increasing(Tail(s))
    <2> SUFFICES ASSUME NEW i \in DOMAIN Tail(s), NEW j \in DOMAIN Tail(s), i < j
                 PROVE  Tail(s)[i] < Tail(s)[j]
      BY DEF Increasing
    <2>1. i + 1 < j + 1
      BY <1>1
    <2> QED BY <2>1, <1>2, <1>3
  <1>5. 1 \in DOMAIN s /\ Head(s) \in Nat
    BY <1>1
  <1>6. \A i \in DOMAIN s : i = 1 \/ (i - 1 \in DOMAIN Tail(s) /\ s[i] = Tail(s)[i - 1])
    <2> SUFFICES ASSUME NEW i \in DOMAIN s, i # 1
                 PROVE  i - 1 \in DOMAIN Tail(s) /\ s[i] = Tail(s)[i - 1]
      OBVIOUS
    <2>1. i - 1 \in 1 .. Len(s) - 1 /\ (i - 1) + 1 = i
      BY <1>1
    <2> QED BY <2>1, <1>1
  <1>7. ToSet(s) = {Head(s)} \cup ToSet(Tail(s))
    <2>1. \A x \in ToSet(Tail(s)) : x \in ToSet(s)
      BY <1>3 DEF ToSet
    <2>2. Head(s) \in ToSet(s)
      BY <1>1, <1>5 DEF ToSet
    <2>3. \A x \in ToSet(s) : x = Head(s) \/ x \in ToSet(Tail(s))
      <3> SUFFICES ASSUME NEW i \in DOMAIN s PROVE s[i] = Head(s) \/ s[i] \in ToSet(Tail(s))
        BY DEF ToSet
      <3>1. CASE i = 1
        BY <3>1, <1>1
      <3>2. CASE i # 1
        <4>1. i - 1 \in DOMAIN Tail(s) /\ s[i] = Tail(s)[i - 1]
          BY <3>2, <1>6
        <4>2. Tail(s)[i - 1] \in ToSet(Tail(s))
          BY <4>1, Zenon DEF ToSet
        <4> QED BY <4>1, <4>2
      <3> QED BY <3>1, <3>2
    <2> QED BY <2>1, <2>2, <2>3
  <1>8. \A x \in ToSet(Tail(s)) : Head(s) < x
    BY <1>1, <1>2, <1>3, <1>5 DEF ToSet
  <1> QED BY <1>1, <1>4, <1>5, <1>7, <1>8

\* A larger one put at the end.
LEMMA AppendOf ==
  ASSUME NEW s \in Seq(Nat), NEW x \in Nat, Increasing(s), \A y \in ToSet(s) : y < x
  PROVE  /\ Append(s, x) \in Seq(Nat) /\ Increasing(Append(s, x))
         /\ ToSet(Append(s, x)) = ToSet(s) \cup {x}
  <1> DEFINE t == Append(s, x)
  <1>1. /\ Len(s) \in Nat /\ DOMAIN s = 1 .. Len(s) /\ DOMAIN t = 1 .. Len(s) + 1
        /\ t \in Seq(Nat) /\ t[Len(s) + 1] = x
        /\ \A i \in 1 .. Len(s) : t[i] = s[i]
    OBVIOUS
  <1> HIDE DEF t
  <1>2. \A i \in DOMAIN t : i = Len(s) + 1 \/ i \in DOMAIN s
    BY <1>1
  <1>3. ToSet(t) = ToSet(s) \cup {x}
    BY <1>1, <1>2 DEF ToSet
  <1>4. Increasing(t)
    <2> SUFFICES ASSUME NEW i \in DOMAIN t, NEW j \in DOMAIN t, i < j PROVE t[i] < t[j]
      BY DEF Increasing
    <2>1. i \in DOMAIN s
      BY <1>1
    <2>2. CASE j \in DOMAIN s
      BY <2>1, <2>2, <1>1 DEF Increasing
    <2>3. CASE j = Len(s) + 1
      <3>1. s[i] \in ToSet(s)
        BY <2>1 DEF ToSet
      <3> QED BY <3>1, <2>1, <2>3, <1>1
    <2> QED BY <2>2, <2>3, <1>2
  <1> QED BY <1>1, <1>3, <1>4 DEF t

LEMMA EmptyOf == <<>> \in Seq(Nat) /\ Increasing(<<>>) /\ ToSet(<<>>) = {}
  BY DEF Increasing, ToSet

\* What Written adds to the wire.
LEMMA WireGrows ==
  ASSUME OrderInv, NEW what \in {"answer", "events"}, NEW r \in Nat,
         wire' = Append(wire, [what |-> what, r |-> r])
  PROVE  /\ wire' \in Seq([what : {"answer", "events"}, r : Nat])
         /\ Len(wire) \in Nat /\ DOMAIN wire = 1 .. Len(wire) /\ DOMAIN wire' = 1 .. Len(wire) + 1
         /\ \A i \in DOMAIN wire : wire'[i] = wire[i]
         /\ wire'[Len(wire) + 1].what = what /\ wire'[Len(wire) + 1].r = r
         /\ Posted' = Posted \cup (IF what = "events" THEN {r} ELSE {})
  <1> DEFINE E == [what : {"answer", "events"}, r : Nat]
             e == [what |-> what, r |-> r]
  <1>1. wire \in Seq(E) /\ e \in E /\ e.what = what /\ e.r = r
    BY DEF OrderInv, Lists
  <1> HIDE DEF E, e
  <1>2. wire' = Append(wire, e)
    BY DEF e
  <1>3. /\ wire' \in Seq(E) /\ Len(wire) \in Nat
        /\ DOMAIN wire = 1 .. Len(wire) /\ DOMAIN wire' = 1 .. Len(wire) + 1
        /\ \A i \in DOMAIN wire : wire'[i] = wire[i]
        /\ wire'[Len(wire) + 1] = e
    BY <1>1, <1>2
  <1>4. \A i \in DOMAIN wire' : i = Len(wire) + 1 \/ i \in DOMAIN wire
    BY <1>3
  <1>5. DOMAIN wire \subseteq DOMAIN wire' /\ Len(wire) + 1 \in DOMAIN wire'
    BY <1>3
  <1>6. Posted' = {wire'[j].r : j \in {k \in DOMAIN wire' : wire'[k].what = "events"}}
    BY DEF Posted
  <1>7. Posted' = Posted \cup (IF what = "events" THEN {r} ELSE {})
    BY <1>1, <1>3, <1>4, <1>5, <1>6 DEF Posted
  <1> QED BY <1>1, <1>3, <1>7 DEF E

\* An answer is written, or nothing.
LEMMA WireAnswer ==
  ASSUME OrderInv, NEW r \in Nat, Written("answer", r)
  PROVE  /\ wire' \in Seq([what : {"answer", "events"}, r : Nat])
         /\ Posted' = Posted /\ EventsInLine'
  <1>1. CASE wire' = wire
    BY <1>1 DEF OrderInv, Lists, EventsInLine, Posted
  <1>2. CASE wire' = Append(wire, [what |-> "answer", r |-> r])
    <2>1. /\ wire' \in Seq([what : {"answer", "events"}, r : Nat])
          /\ Len(wire) \in Nat /\ DOMAIN wire = 1 .. Len(wire) /\ DOMAIN wire' = 1 .. Len(wire) + 1
          /\ \A i \in DOMAIN wire : wire'[i] = wire[i]
          /\ wire'[Len(wire) + 1].what = "answer"
          /\ Posted' = Posted
      BY <1>2, WireGrows
    <2>2. \A i \in DOMAIN wire' : wire'[i].what = "events" => i \in DOMAIN wire /\ wire'[i] = wire[i]
      BY <2>1
    <2>3. EventsInLine'
      BY <2>2 DEF EventsInLine, OrderInv
    <2> QED BY <2>1, <2>3
  <1> QED BY <1>1, <1>2 DEF Written

LEMMA OrderInit == Init => OrderInv
  <1> SUFFICES ASSUME Init PROVE OrderInv
    OBVIOUS
  <1>1. wire = <<>> /\ queue = <<>> /\ inHand = <<>> /\ unread = <<>> /\ held = 0 /\ sent = 0
    BY DEF Init
  <1>2. Posted = {} /\ Held = {}
    BY <1>1 DEF Posted, Held
  <1>3. Lists
    BY <1>1, EmptyOf, ViewerAssumption DEF Lists
  <1> QED BY <1>1, <1>2, <1>3, EmptyOf DEF OrderInv, InLine, Before, EventsInLine

\* Steps that leave requests and the wire alone.
LEMMA OrderKept ==
  ASSUME OrderInv, UNCHANGED <<input, queue, held, wire>>
  PROVE  OrderInv'
  BY DEF OrderInv, Lists, InLine, EventsInLine, Posted, Held, input

LEMMA OrderSends == OrderInv /\ ViewerSends => OrderInv'
  <1> SUFFICES ASSUME OrderInv, ViewerSends PROVE OrderInv'
    OBVIOUS
  <1> USE DEF OrderInv
  <1>1. /\ sent' = sent + 1 /\ unread' = Append(unread, sent + 1) /\ sent < MaxRequests
        /\ UNCHANGED <<inHand, queue, held, wire>>
    BY DEF ViewerSends, voiceVars
  <1>2. sent \in 0 .. MaxRequests /\ sent' \in 0 .. MaxRequests /\ sent + 1 \in Nat
    BY <1>1, ViewerAssumption DEF Lists
  <1>3. Posted' = Posted /\ Held' = Held
    BY <1>1 DEF Posted, Held
  <1>4. \A y \in Posted \cup Held \cup ToSet(queue) \cup ToSet(inHand) \cup ToSet(unread) :
            y \in 1 .. sent /\ y < sent + 1 /\ y \in 1 .. sent'
    BY <1>1, <1>2 DEF InLine
  <1>5. /\ unread' \in Seq(Nat) /\ Increasing(unread') /\ ToSet(unread') = ToSet(unread) \cup {sent + 1}
    BY <1>1, <1>2, <1>4, AppendOf DEF Lists
  <1>6. Lists'
    BY <1>1, <1>2, <1>5 DEF Lists
  <1>7. sent + 1 \in 1 .. sent'
    BY <1>1, <1>2
  <1>8. InLine'
    BY <1>1, <1>3, <1>4, <1>5, <1>7 DEF InLine, Before
  <1> QED BY <1>1, <1>6, <1>8 DEF EventsInLine

LEMMA OrderRead == OrderInv /\ Read => OrderInv'
  <1> SUFFICES ASSUME OrderInv, Read PROVE OrderInv'
    OBVIOUS
  <1> USE DEF OrderInv
  <1>1. /\ inHand = <<>> /\ inHand' = unread /\ unread' = <<>>
        /\ UNCHANGED <<sent, queue, held, wire>>
    BY DEF Read, voiceVars
  <1>2. Posted' = Posted /\ Held' = Held
    BY <1>1 DEF Posted, Held
  <1>3. Lists'
    BY <1>1, EmptyOf DEF Lists
  <1>4. InLine'
    BY <1>1, <1>2, EmptyOf DEF InLine, Before
  <1> QED BY <1>1, <1>3, <1>4 DEF EventsInLine

\* The request in hand is finished or fails.
LEMMA OrderDropped ==
  ASSUME OrderInv, inHand # <<>>, inHand' = Tail(inHand),
         UNCHANGED <<sent, unread, queue, held>>, Posted' = Posted, EventsInLine',
         wire' \in Seq([what : {"answer", "events"}, r : Nat])
  PROVE  OrderInv'
  <1> USE DEF OrderInv
  <1>1. /\ inHand' \in Seq(Nat) /\ Increasing(inHand')
        /\ ToSet(inHand') \subseteq ToSet(inHand)
    BY TailOf DEF Lists
  <1>2. Lists'
    BY <1>1 DEF Lists
  <1>3. Held' = Held
    BY DEF Held
  <1>4. InLine'
    BY <1>1, <1>3 DEF InLine, Before
  <1> QED BY <1>2, <1>4

LEMMA OrderEnqueue == OrderInv /\ inHand # <<>> /\ Enqueue => OrderInv'
  <1> SUFFICES ASSUME OrderInv, inHand # <<>>, Enqueue PROVE OrderInv'
    OBVIOUS
  <1> USE DEF OrderInv
  <1>1. /\ queue' = Append(queue, Head(inHand)) /\ inHand' = Tail(inHand)
        /\ UNCHANGED <<sent, unread, held, wire>>
    BY DEF Enqueue, voiceVars
  <1>2. /\ inHand' \in Seq(Nat) /\ Increasing(inHand') /\ Head(inHand) \in Nat
        /\ ToSet(inHand) = {Head(inHand)} \cup ToSet(inHand')
        /\ \A x \in ToSet(inHand') : Head(inHand) < x
    BY <1>1, TailOf DEF Lists
  <1>3. \A y \in ToSet(queue) : y < Head(inHand)
    BY <1>2 DEF InLine, Before
  <1>4. /\ queue' \in Seq(Nat) /\ Increasing(queue')
        /\ ToSet(queue') = ToSet(queue) \cup {Head(inHand)}
    BY <1>1, <1>2, <1>3, AppendOf DEF Lists
  <1>5. Posted' = Posted /\ Held' = Held
    BY <1>1 DEF Posted, Held
  <1>6. Lists'
    BY <1>1, <1>2, <1>4 DEF Lists
  <1>7. InLine'
    BY <1>1, <1>2, <1>4, <1>5 DEF InLine, Before
  <1> QED BY <1>1, <1>6, <1>7 DEF EventsInLine

LEMMA OrderDequeue == OrderInv /\ Dequeue => OrderInv'
  <1> SUFFICES ASSUME OrderInv, Dequeue PROVE OrderInv'
    OBVIOUS
  <1> USE DEF OrderInv
  <1>1. UNCHANGED <<sent, unread, inHand, wire>>
    BY DEF Dequeue, input
  <1>2. Posted' = Posted
    BY <1>1 DEF Posted
  <1>3. CASE queue # <<>> /\ held' = Head(queue) /\ queue' = Tail(queue)
    <2>1. /\ queue' \in Seq(Nat) /\ Increasing(queue') /\ held' \in Nat
          /\ ToSet(queue) = {held'} \cup ToSet(queue')
          /\ \A x \in ToSet(queue') : held' < x
      BY <1>3, TailOf DEF Lists
    <2>2. Lists'
      BY <1>1, <2>1 DEF Lists
    <2>3. Held' \subseteq {held'}
      BY DEF Held
    <2>4. InLine'
      BY <1>1, <1>2, <2>1, <2>3 DEF InLine, Before
    <2> QED BY <1>1, <2>2, <2>4 DEF EventsInLine
  <1>4. CASE queue = <<>> /\ held' = 0 /\ UNCHANGED queue
    <2>1. Held' = {}
      BY <1>4 DEF Held
    <2>2. Lists'
      BY <1>1, <1>4 DEF Lists
    <2>3. InLine'
      BY <1>1, <1>2, <1>4, <2>1 DEF InLine, Before
    <2> QED BY <1>1, <2>2, <2>3 DEF EventsInLine
  <1> QED BY <1>3, <1>4 DEF Dequeue

\* The actor held is dropped.
LEMMA OrderReleased ==
  ASSUME OrderInv, held' = 0, UNCHANGED <<input, queue, wire>>
  PROVE  OrderInv'
  <1> USE DEF OrderInv, input
  <1>1. Held' = {} /\ Posted' = Posted
    BY DEF Held, Posted
  <1>2. Lists'
    BY DEF Lists
  <1>3. InLine'
    BY <1>1 DEF InLine, Before
  <1> QED BY <1>2, <1>3 DEF EventsInLine

LEMMA OrderPosted == OrderInv /\ held # 0 /\ PostProcessed => OrderInv'
  <1> SUFFICES ASSUME OrderInv, held # 0, PostProcessed PROVE OrderInv'
    OBVIOUS
  <1> USE DEF OrderInv
  <1>1. held' = 0 /\ UNCHANGED <<sent, unread, inHand, queue>> /\ Written("events", held)
    BY DEF PostProcessed, input
  <1>2. held \in Nat /\ held \in Held /\ Held' = {}
    BY <1>1 DEF Lists, Held
  <1>3. CASE wire' = wire
    BY <1>1, <1>3, OrderReleased DEF input
  <1>4. CASE wire' = Append(wire, [what |-> "events", r |-> held])
    <2>1. /\ wire' \in Seq([what : {"answer", "events"}, r : Nat])
          /\ Len(wire) \in Nat /\ DOMAIN wire = 1 .. Len(wire) /\ DOMAIN wire' = 1 .. Len(wire) + 1
          /\ \A i \in DOMAIN wire : wire'[i] = wire[i]
          /\ wire'[Len(wire) + 1].r = held
          /\ Posted' = Posted \cup {held}
      BY <1>2, <1>4, WireGrows
    <2>2. \A i \in DOMAIN wire : wire[i].what = "events" => wire[i].r < held
      <3>1. \A i \in DOMAIN wire : wire[i].what = "events" => wire[i].r \in Posted
        BY DEF Posted
      <3> QED BY <3>1, <1>2 DEF InLine, Before
    <2>3. EventsInLine'
      <3> SUFFICES ASSUME NEW i \in DOMAIN wire', NEW j \in DOMAIN wire', i < j,
                          wire'[i].what = "events", wire'[j].what = "events"
                   PROVE  wire'[i].r < wire'[j].r
        BY DEF EventsInLine
      <3>1. i \in DOMAIN wire
        BY <2>1
      <3>2. CASE j \in DOMAIN wire
        BY <3>1, <3>2, <2>1 DEF EventsInLine
      <3>3. CASE j = Len(wire) + 1
        BY <3>1, <3>3, <2>1, <2>2
      <3> QED BY <3>2, <3>3, <2>1
    <2>4. Lists'
      BY <1>1, <2>1 DEF Lists
    <2>5. InLine'
      BY <1>1, <1>2, <2>1 DEF InLine, Before
    <2> QED BY <2>3, <2>4, <2>5
  <1> QED BY <1>1, <1>3, <1>4 DEF Written

-----------------------------------------------------------------------------
(* What was executed has been answered before its events are sent.           *)

\* The answer to r was written.
WasAnswered(r) == \E i \in DOMAIN wire : wire[i] = [what |-> "answer", r |-> r]

\* r was answered, or needs no answer, or the viewer is gone.
Settled(r) == r \in Silent \/ WasAnswered(r) \/ link = "down"

\* Where ViewerHandler is with the request in hand, and VoiceClient with its own.
Positions ==
    /\ viewer \in {"answer", "answering", "executed"} => inHand # <<>>
    /\ viewer \in {"loop", "answer", "answering", "executed"} => bInitialized
    /\ viewer = "accepted" \/ bInitialized => link # "none"
    /\ link \in {"none", "up", "down"}
    /\ voice \in {"post", "posting"} => held # 0

\* Everything past the answer is settled; an answer is left out only when the
\* handler was told to end, and then no more events are begun either.
PastAnswer ==
    /\ \A r \in Held \cup ToSet(queue) : Settled(r) \/ bEnd
    /\ viewer = "executed" => Settled(Head(inHand)) \/ bEnd
    /\ voice = "posting" => Settled(held)

AnswerFirst ==
    \A j \in DOMAIN wire : wire[j].what = "events" /\ wire[j].r \notin Silent =>
        \E i \in 1 .. j - 1 : wire[i] = [what |-> "answer", r |-> wire[j].r]

ViewerInv == ThreadInv /\ OrderInv /\ Positions /\ PastAnswer /\ AnswerFirst

\* What is settled stays so.
LEMMA StaysSettled ==
  ASSUME OrderInv, NEW r, Settled(r), link = "down" => link' = "down",
         \/ wire' = wire
         \/ \E what \in {"answer", "events"}, n \in Nat : wire' = Append(wire, [what |-> what, r |-> n])
  PROVE  Settled(r)'
  <1>1. CASE wire' = wire
    BY <1>1 DEF Settled, WasAnswered
  <1>2. ASSUME NEW what \in {"answer", "events"}, NEW n \in Nat,
               wire' = Append(wire, [what |-> what, r |-> n])
        PROVE  Settled(r)'
    <2>1. /\ \A i \in DOMAIN wire : wire'[i] = wire[i]
          /\ Len(wire) \in Nat /\ DOMAIN wire = 1 .. Len(wire) /\ DOMAIN wire' = 1 .. Len(wire) + 1
      BY <1>2, WireGrows
    <2>2. DOMAIN wire \subseteq DOMAIN wire'
      BY <2>1
    <2>3. WasAnswered(r) => WasAnswered(r)'
      BY <2>1, <2>2 DEF WasAnswered
    <2> QED BY <2>3 DEF Settled
  <1> QED BY <1>1, <1>2

LEMMA SettledInit == Init => Positions /\ PastAnswer /\ AnswerFirst
  <1> SUFFICES ASSUME Init PROVE Positions /\ PastAnswer /\ AnswerFirst
    OBVIOUS
  <1>1. Held = {} /\ ToSet(queue) = {} /\ DOMAIN wire = {}
    BY EmptyOf DEF Init, Held
  <1> QED BY <1>1 DEF Init, Positions, PastAnswer, AnswerFirst

LEMMA PositionsStep == ThreadInv /\ Positions /\ [Next]_vars => Positions'
  <1> SUFFICES ASSUME ThreadInv, Positions, [Next]_vars PROVE Positions'
    OBVIOUS
  <1> USE DEF Positions, handler, voiceVars, talkVars, input
  <1>1. bInitialized => viewer \notin {"start", "listen", "accepted"}
    BY DEF ThreadInv, Started
  <1>2. CASE ViewerThread
    <2>1. CASE Start \/ Accept \/ NoConnection \/ Initialized
      BY <1>1, <2>1 DEF Start, Accept, NoConnection, Initialized
    <2>2. CASE Read \/ Execute
      BY <2>2 DEF Read, Execute
    <2>3. CASE Answer \/ Answered
      BY <2>3 DEF Answer, Answered
    <2>4. CASE Enqueue \/ Disconnected \/ Quit
      BY <2>4 DEF Enqueue, Disconnected, Quit
    <2>5. CASE ShutdownSeen \/ JoinVoice \/ JoinTalk \/ Close
      BY <2>5 DEF ShutdownSeen, JoinVoice, JoinTalk, Close
    <2> QED BY <1>2, <2>1, <2>2, <2>3, <2>4, <2>5 DEF ViewerThread
  <1>3. CASE VoiceClientThread
    <2>1. CASE Dequeue
      BY <2>1 DEF Dequeue
    <2>2. CASE Dequeued
      <3>1. voice' \in {"post", "posting"} => held # 0
        BY <2>2, Zenon DEF Dequeued
      <3> QED BY <2>2, <3>1 DEF Dequeued
    <2>3. CASE PostProcess \/ PostProcessed
      BY <2>3 DEF PostProcess, PostProcessed
    <2> QED BY <1>3, <2>1, <2>2, <2>3 DEF VoiceClientThread
  <1>4. CASE TalkThread
    BY <1>4 DEF TalkThread, Tell, Told, Nap
  <1>5. CASE MainThread \/ TellParticipant \/ SetTalking
    BY <1>5 DEF MainThread, EnterLoop, ToldParticipant, StartTalking, End, Delete,
                TellParticipant, SetTalking
  <1>6. CASE ViewerConnects \/ ViewerSends \/ ViewerLeaves \/ UserQuits
    BY <1>6 DEF ViewerConnects, ViewerSends, ViewerLeaves, UserQuits
  <1>7. CASE UNCHANGED vars
    BY <1>7 DEF vars
  <1> QED BY <1>2, <1>3, <1>4, <1>5, <1>6, <1>7 DEF Next

\* Steps that settle nothing and rely on nothing being settled.
LEMMA SettledKept ==
  ASSUME ViewerInv, wire' = wire,
         Held' \cup ToSet(queue)' \subseteq Held \cup ToSet(queue),
         viewer' # "executed" \/ UNCHANGED <<viewer, inHand>>,
         voice' # "posting" \/ UNCHANGED <<voice, held>>,
         bEnd => bEnd', link = "down" => link' = "down"
  PROVE  PastAnswer' /\ AnswerFirst'
  <1>1. \A r : Settled(r) => Settled(r)'
    BY StaysSettled DEF ViewerInv
  <1>2. AnswerFirst'
    BY DEF ViewerInv, AnswerFirst
  <1>3. \A r \in (Held \cup ToSet(queue))' : Settled(r)' \/ bEnd'
    BY <1>1 DEF ViewerInv, PastAnswer
  <1>4. viewer' = "executed" => Settled(Head(inHand))' \/ bEnd'
    <2> SUFFICES ASSUME viewer' = "executed" PROVE Settled(Head(inHand))' \/ bEnd'
      OBVIOUS
    <2>1. inHand' = inHand /\ (Settled(Head(inHand)) \/ bEnd)
      BY DEF ViewerInv, PastAnswer
    <2>2. Settled(Head(inHand)) => Settled(Head(inHand))'
      BY <1>1, <2>1 DEF Settled, WasAnswered
    <2> QED BY <2>1, <2>2
  <1>5. voice' = "posting" => Settled(held)'
    <2> SUFFICES ASSUME voice' = "posting" PROVE Settled(held)'
      OBVIOUS
    <2>1. held' = held /\ Settled(held)
      BY DEF ViewerInv, PastAnswer
    <2> QED BY <1>1, <2>1 DEF Settled, WasAnswered
  <1> QED BY <1>2, <1>3, <1>4, <1>5 DEF PastAnswer

\* A request without response is executed; so is one whose answer is refused.
LEMMA SettledExecuted ==
  ASSUME ViewerInv, viewer' = "executed", Head(inHand) \in Silent \/ bEnd,
         UNCHANGED <<inHand, queue, held, voice, wire, link, bEnd>>
  PROVE  PastAnswer' /\ AnswerFirst'
  <1>1. \A r : Settled(r) => Settled(r)'
    BY StaysSettled DEF ViewerInv
  <1>2. Settled(Head(inHand))' \/ bEnd'
    BY DEF Settled
  <1>3. Held' = Held /\ ToSet(queue)' = ToSet(queue)
    BY DEF Held
  <1>4. \A r \in (Held \cup ToSet(queue))' : Settled(r)' \/ bEnd'
    BY <1>1, <1>3 DEF ViewerInv, PastAnswer
  <1>5. voice' = "posting" => Settled(held)'
    <2>1. voice' = "posting" => Settled(held)
      BY DEF ViewerInv, PastAnswer
    <2> QED BY <1>1, <2>1 DEF Settled, WasAnswered
  <1> QED BY <1>2, <1>4, <1>5 DEF ViewerInv, PastAnswer, AnswerFirst

LEMMA SettledAnswered == ViewerInv /\ Answered => PastAnswer' /\ AnswerFirst'
  <1> SUFFICES ASSUME ViewerInv, Answered PROVE PastAnswer' /\ AnswerFirst'
    OBVIOUS
  <1> DEFINE h == Head(inHand)
  <1>1. /\ viewer = "answering" /\ Written("answer", h)
        /\ \/ viewer' = "executed" /\ UNCHANGED inHand
           \/ viewer' = "loop"
        /\ UNCHANGED <<queue, held, voice, link, bEnd>>
    BY DEF Answered, handler, voiceVars
  <1>2. h \in Nat
    BY <1>1, TailOf DEF ViewerInv, Positions, OrderInv, Lists
  <1>3. link # "none" /\ link \in {"none", "up", "down"}
    BY <1>1 DEF ViewerInv, Positions
  <1>4. wire' = wire \/ wire' = Append(wire, [what |-> "answer", r |-> h])
    BY <1>1 DEF Written
  <1>5. \A r : Settled(r) => Settled(r)'
    BY <1>1, <1>2, <1>4, StaysSettled DEF ViewerInv
  <1>6. ASSUME NEW r, r = h PROVE Settled(r)'
    <2>1. CASE link = "down"
      BY <2>1, <1>1 DEF Settled
    <2>2. CASE link = "up"
      <3>1. wire' = Append(wire, [what |-> "answer", r |-> h])
        BY <1>1, <2>2 DEF Written
      <3>2. wire \in Seq([what : {"answer", "events"}, r : Nat])
        BY DEF ViewerInv, OrderInv, Lists
      <3>3. /\ Len(wire) + 1 \in DOMAIN wire'
            /\ wire'[Len(wire) + 1] = [what |-> "answer", r |-> h]
        BY <3>1, <3>2, <1>2
      <3>4. WasAnswered(r)'
        BY <3>3, <1>6 DEF WasAnswered
      <3> QED BY <3>4 DEF Settled
    <2> QED BY <1>3, <2>1, <2>2
  <1>7. AnswerFirst'
    <2>1. CASE wire' = wire
      BY <2>1 DEF ViewerInv, AnswerFirst
    <2>2. CASE wire' = Append(wire, [what |-> "answer", r |-> h])
      <3>1. /\ \A j \in DOMAIN wire : wire'[j] = wire[j]
            /\ Len(wire) \in Nat /\ DOMAIN wire = 1 .. Len(wire) /\ DOMAIN wire' = 1 .. Len(wire) + 1
            /\ wire'[Len(wire) + 1].what = "answer"
        BY <1>2, <2>2, WireGrows DEF ViewerInv
      <3> SUFFICES ASSUME NEW j \in DOMAIN wire', wire'[j].what = "events", wire'[j].r \notin Silent
                   PROVE  \E k \in 1 .. j - 1 : wire'[k] = [what |-> "answer", r |-> wire'[j].r]
        BY DEF AnswerFirst
      <3>2. j \in DOMAIN wire
        BY <3>1
      <3>3. \E k \in 1 .. j - 1 : wire[k] = [what |-> "answer", r |-> wire[j].r]
        BY <3>1, <3>2 DEF ViewerInv, AnswerFirst
      <3>4. \A k \in 1 .. j - 1 : k \in DOMAIN wire
        BY <3>1, <3>2
      <3> QED BY <3>1, <3>2, <3>3, <3>4
    <2> QED BY <1>4, <2>1, <2>2
  <1>8. Held' = Held /\ ToSet(queue)' = ToSet(queue)
    BY <1>1 DEF Held
  <1>9. \A r \in (Held \cup ToSet(queue))' : Settled(r)' \/ bEnd'
    BY <1>1, <1>5, <1>8 DEF ViewerInv, PastAnswer
  <1>10. viewer' = "executed" => Settled(Head(inHand))' \/ bEnd'
    BY <1>1, <1>6 DEF Settled, WasAnswered
  <1>11. voice' = "posting" => Settled(held)'
    <2>1. voice' = "posting" => Settled(held)
      BY <1>1 DEF ViewerInv, PastAnswer
    <2> QED BY <1>1, <1>5, <2>1 DEF Settled, WasAnswered
  <1> QED BY <1>7, <1>9, <1>10, <1>11 DEF PastAnswer

LEMMA SettledEnqueue == ViewerInv /\ Enqueue => PastAnswer' /\ AnswerFirst'
  <1> SUFFICES ASSUME ViewerInv, Enqueue PROVE PastAnswer' /\ AnswerFirst'
    OBVIOUS
  <1> DEFINE h == Head(inHand)
  <1>1. /\ viewer = "executed" /\ viewer' = "loop" /\ queue' = Append(queue, h)
        /\ UNCHANGED <<held, voice, link, bEnd, wire>>
    BY DEF Enqueue, handler, voiceVars
  <1>2. h \in Nat /\ ToSet(inHand) = {h} \cup ToSet(Tail(inHand))
    BY <1>1, TailOf DEF ViewerInv, Positions, OrderInv, Lists
  <1>3. ToSet(queue') = ToSet(queue) \cup {h}
    <2>1. \A y \in ToSet(queue) : y < h
      BY <1>2 DEF ViewerInv, OrderInv, InLine, Before
    <2> QED BY <2>1, <1>1, <1>2, AppendOf DEF ViewerInv, OrderInv, Lists
  <1>4. \A r : Settled(r) => Settled(r)'
    BY <1>1, StaysSettled DEF ViewerInv
  <1>5. \A r \in Held \cup ToSet(queue) \cup {h} : Settled(r) \/ bEnd
    BY <1>1 DEF ViewerInv, PastAnswer
  <1>6. Held' = Held
    BY <1>1 DEF Held
  <1>7. \A r \in (Held \cup ToSet(queue))' : Settled(r)' \/ bEnd'
    BY <1>1, <1>3, <1>4, <1>5, <1>6
  <1>8. voice' = "posting" => Settled(held)'
    <2>1. voice' = "posting" => Settled(held)
      BY <1>1 DEF ViewerInv, PastAnswer
    <2> QED BY <1>1, <1>4, <2>1 DEF Settled, WasAnswered
  <1>9. AnswerFirst'
    BY <1>1 DEF ViewerInv, AnswerFirst
  <1> QED BY <1>1, <1>7, <1>8, <1>9 DEF PastAnswer

\* VoiceClient is past the test of is_active: what it holds is settled.
LEMMA SettledPost == ViewerInv /\ PostProcess => PastAnswer' /\ AnswerFirst'
  <1> SUFFICES ASSUME ViewerInv, PostProcess PROVE PastAnswer' /\ AnswerFirst'
    OBVIOUS
  <1>1. /\ voice = "post"
        /\ UNCHANGED <<viewer, inHand, queue, wire, link, bEnd, bInitialized>>
    BY DEF PostProcess, handler, input
  <1>2. CASE Refused /\ voice' = "wait" /\ held' = 0
    <2>1. Held' \cup ToSet(queue)' \subseteq Held \cup ToSet(queue)
      BY <1>1, <1>2 DEF Held
    <2> QED BY <1>1, <1>2, <2>1, SettledKept
  <1>3. CASE Locked("voice") /\ voice' = "posting" /\ UNCHANGED held
    <2>1. ~bEnd /\ held # 0
      BY <1>1, <1>3 DEF Locked, is_active, ViewerInv, Positions
    <2>2. Settled(held)
      BY <2>1 DEF Held, ViewerInv, PastAnswer
    <2>3. \A r : Settled(r) => Settled(r)'
      BY <1>1, StaysSettled DEF ViewerInv
    <2>4. Settled(held)'
      BY <1>3, <2>2, <2>3 DEF Settled, WasAnswered
    <2>5. Held' = Held /\ ToSet(queue)' = ToSet(queue)
      BY <1>1, <1>3 DEF Held
    <2>6. \A r \in (Held \cup ToSet(queue))' : Settled(r)' \/ bEnd'
      BY <1>1, <2>3, <2>5 DEF ViewerInv, PastAnswer
    <2>7. viewer' = "executed" => Settled(Head(inHand))' \/ bEnd'
      <3>1. viewer' = "executed" => Settled(Head(inHand)) \/ bEnd
        BY <1>1 DEF ViewerInv, PastAnswer
      <3> QED BY <3>1, <1>1, <2>3 DEF Settled, WasAnswered
    <2> QED BY <1>1, <2>4, <2>6, <2>7 DEF ViewerInv, PastAnswer, AnswerFirst
  <1> QED BY <1>2, <1>3 DEF PostProcess

LEMMA SettledPosted == ViewerInv /\ PostProcessed => PastAnswer' /\ AnswerFirst'
  <1> SUFFICES ASSUME ViewerInv, PostProcessed PROVE PastAnswer' /\ AnswerFirst'
    OBVIOUS
  <1>1. /\ voice = "posting" /\ voice' = "wait" /\ held' = 0 /\ Written("events", held)
        /\ UNCHANGED <<viewer, inHand, queue, link, bEnd>>
    BY DEF PostProcessed, handler, input
  <1>2. CASE wire' = wire
    <2>1. Held' \cup ToSet(queue)' \subseteq Held \cup ToSet(queue)
      BY <1>1 DEF Held
    <2> QED BY <1>1, <1>2, <2>1, SettledKept
  <1>3. CASE link = "up" /\ wire' = Append(wire, [what |-> "events", r |-> held])
    <2>0. held \in Nat
      BY DEF ViewerInv, OrderInv, Lists
    <2>1. /\ \A j \in DOMAIN wire : wire'[j] = wire[j]
          /\ Len(wire) \in Nat /\ DOMAIN wire = 1 .. Len(wire) /\ DOMAIN wire' = 1 .. Len(wire) + 1
          /\ wire'[Len(wire) + 1].r = held
      BY <1>3, <2>0, WireGrows DEF ViewerInv
    <2>2. held \in Silent \/ WasAnswered(held)
      BY <1>1, <1>3 DEF ViewerInv, PastAnswer, Settled
    <2>3. AnswerFirst'
      <3> SUFFICES ASSUME NEW j \in DOMAIN wire', wire'[j].what = "events", wire'[j].r \notin Silent
                   PROVE  \E k \in 1 .. j - 1 : wire'[k] = [what |-> "answer", r |-> wire'[j].r]
        BY DEF AnswerFirst
      <3>1. CASE j \in DOMAIN wire
        <4>1. \E k \in 1 .. j - 1 : wire[k] = [what |-> "answer", r |-> wire[j].r]
          BY <2>1, <3>1 DEF ViewerInv, AnswerFirst
        <4>2. \A k \in 1 .. j - 1 : k \in DOMAIN wire
          BY <2>1, <3>1
        <4> QED BY <2>1, <3>1, <4>1, <4>2
      <3>2. CASE j = Len(wire) + 1
        <4>1. \E k \in DOMAIN wire : wire[k] = [what |-> "answer", r |-> held]
          BY <2>1, <2>2, <3>2 DEF WasAnswered
        <4>2. \A k \in DOMAIN wire : k \in 1 .. j - 1
          BY <2>1, <3>2
        <4> QED BY <2>1, <3>2, <4>1, <4>2
      <3> QED BY <2>1, <3>1, <3>2
    <2>4. \A r : Settled(r) => Settled(r)'
      BY <1>1, <1>3, <2>0, StaysSettled DEF ViewerInv
    <2>5. Held' = {} /\ ToSet(queue)' = ToSet(queue)
      BY <1>1 DEF Held
    <2>6. \A r \in (Held \cup ToSet(queue))' : Settled(r)' \/ bEnd'
      BY <1>1, <2>4, <2>5 DEF ViewerInv, PastAnswer
    <2>7. viewer' = "executed" => Settled(Head(inHand))' \/ bEnd'
      <3>1. viewer' = "executed" => Settled(Head(inHand)) \/ bEnd
        BY <1>1 DEF ViewerInv, PastAnswer
      <3> QED BY <3>1, <1>1, <2>4 DEF Settled, WasAnswered
    <2> QED BY <1>1, <2>3, <2>6, <2>7 DEF PastAnswer
  <1> QED BY <1>1, <1>2, <1>3 DEF Written

LEMMA SettledStep == ViewerInv /\ [Next]_vars => PastAnswer' /\ AnswerFirst'
  <1> SUFFICES ASSUME ViewerInv, [Next]_vars PROVE PastAnswer' /\ AnswerFirst'
    OBVIOUS
  <1>1. ASSUME UNCHANGED <<queue, held, wire>>,
               viewer' # "executed" \/ UNCHANGED <<viewer, inHand>>,
               voice' # "posting" \/ UNCHANGED voice,
               bEnd => bEnd', link = "down" => link' = "down"
        PROVE  PastAnswer' /\ AnswerFirst'
    BY <1>1, SettledKept DEF Held
  <1> USE DEF handler, voiceVars, talkVars, input
  <1>2. CASE ViewerThread
    <2>1. CASE Start \/ Accept \/ NoConnection \/ Initialized
      BY <1>1, <2>1 DEF Start, Accept, NoConnection, Initialized
    <2>2. CASE Read
      BY <1>1, <2>2 DEF Read
    <2>3. CASE Execute
      <3>1. CASE inHand' = Tail(inHand) /\ UNCHANGED viewer
        BY <1>1, <2>3, <3>1 DEF Execute
      <3>2. CASE Head(inHand) \in Silent /\ viewer' = "executed" /\ UNCHANGED inHand
        BY <2>3, <3>2, SettledExecuted DEF Execute
      <3>3. CASE viewer' = "answer"
        BY <1>1, <2>3, <3>3 DEF Execute
      <3> QED BY <2>3, <3>1, <3>2, <3>3 DEF Execute
    <2>4. CASE Answer
      <3>1. CASE viewer' = "answering"
        BY <1>1, <2>4, <3>1 DEF Answer
      <3>2. CASE Refused /\ viewer' = "executed"
        <4>1. bEnd
          BY <2>4, <3>2 DEF Answer, Refused, is_active, ViewerInv, Positions
        <4> QED BY <2>4, <3>2, <4>1, SettledExecuted DEF Answer
      <3> QED BY <2>4, <3>1, <3>2 DEF Answer
    <2>5. CASE Answered
      BY <2>5, SettledAnswered
    <2>6. CASE Enqueue
      BY <2>6, SettledEnqueue
    <2>7. CASE Disconnected \/ Quit \/ ShutdownSeen
      BY <1>1, <2>7 DEF Disconnected, Quit, ShutdownSeen
    <2>8. CASE JoinVoice \/ JoinTalk \/ Close
      BY <1>1, <2>8 DEF JoinVoice, JoinTalk, Close
    <2> QED BY <1>2, <2>1, <2>2, <2>3, <2>4, <2>5, <2>6, <2>7, <2>8 DEF ViewerThread
  <1>3. CASE VoiceClientThread
    <2>1. CASE Dequeue
      <3>1. Held' \cup ToSet(queue)' \subseteq Held \cup ToSet(queue)
        <4>1. CASE queue # <<>> /\ held' = Head(queue) /\ queue' = Tail(queue)
          <5>1. ToSet(queue) = {held'} \cup ToSet(queue')
            BY <4>1, TailOf DEF ViewerInv, OrderInv, Lists
          <5> QED BY <5>1 DEF Held
        <4>2. CASE held' = 0 /\ UNCHANGED queue
          BY <4>2 DEF Held
        <4> QED BY <2>1, <4>1, <4>2 DEF Dequeue
      <3> QED BY <2>1, <3>1, SettledKept DEF Dequeue
    <2>2. CASE Dequeued
      <3>1. voice' # "posting"
        BY <2>2, Zenon DEF Dequeued
      <3> QED BY <1>1, <2>2, <3>1 DEF Dequeued
    <2>3. CASE PostProcess
      BY <2>3, SettledPost
    <2>4. CASE PostProcessed
      BY <2>4, SettledPosted
    <2> QED BY <1>3, <2>1, <2>2, <2>3, <2>4 DEF VoiceClientThread
  <1>4. CASE TalkThread
    BY <1>1, <1>4 DEF TalkThread, Tell, Told, Nap
  <1>5. CASE MainThread \/ TellParticipant \/ SetTalking
    BY <1>1, <1>5 DEF MainThread, EnterLoop, ToldParticipant, StartTalking, End, Delete,
                      TellParticipant, SetTalking
  <1>6. CASE ViewerConnects \/ ViewerSends \/ ViewerLeaves \/ UserQuits
    BY <1>1, <1>6 DEF ViewerConnects, ViewerSends, ViewerLeaves, UserQuits
  <1>7. CASE UNCHANGED vars
    BY <1>1, <1>7 DEF vars
  <1> QED BY <1>2, <1>3, <1>4, <1>5, <1>6, <1>7 DEF Next

LEMMA OrderStep == ThreadInv /\ OrderInv /\ Positions /\ [Next]_vars => OrderInv'
  <1> SUFFICES ASSUME ThreadInv, OrderInv, Positions, [Next]_vars PROVE OrderInv'
    OBVIOUS
  <1>1. CASE UNCHANGED <<input, queue, held, wire>>
    BY <1>1, OrderKept
  <1> USE DEF handler, voiceVars, talkVars
  <1>2. CASE ViewerThread
    <2>1. CASE Read
      BY <2>1, OrderRead
    <2>2. CASE Execute
      <3>1. CASE inHand' = Tail(inHand)
        <4>1. inHand # <<>> /\ UNCHANGED <<sent, unread, queue, held, wire>>
          BY <2>2 DEF Execute
        <4>2. /\ Posted' = Posted /\ EventsInLine'
              /\ wire' \in Seq([what : {"answer", "events"}, r : Nat])
          BY <4>1 DEF OrderInv, Lists, Posted, EventsInLine
        <4> QED BY <3>1, <4>1, <4>2, OrderDropped
      <3>2. CASE UNCHANGED inHand
        BY <1>1, <2>2, <3>2 DEF Execute, input
      <3> QED BY <2>2, <3>1, <3>2 DEF Execute
    <2>3. CASE Answered
      <3>1. /\ inHand # <<>> /\ UNCHANGED <<sent, unread, queue, held>>
            /\ Written("answer", Head(inHand)) /\ inHand' \in {inHand, Tail(inHand)}
        BY <2>3 DEF Answered, Positions
      <3>2. Head(inHand) \in Nat
        BY <3>1, TailOf DEF OrderInv, Lists
      <3>3. /\ wire' \in Seq([what : {"answer", "events"}, r : Nat])
            /\ Posted' = Posted /\ EventsInLine'
        BY <3>1, <3>2, WireAnswer
      <3>4. CASE inHand' = Tail(inHand)
        BY <3>1, <3>3, <3>4, OrderDropped
      <3>5. CASE inHand' = inHand
        BY <3>1, <3>3, <3>5 DEF OrderInv, Lists, InLine, Held
      <3> QED BY <3>1, <3>4, <3>5
    <2>4. CASE Enqueue
      <3>1. inHand # <<>>
        BY <2>4 DEF Enqueue, Positions
      <3> QED BY <2>4, <3>1, OrderEnqueue
    <2>5. CASE Start \/ Accept \/ NoConnection \/ Initialized
      BY <1>1, <2>5 DEF Start, Accept, NoConnection, Initialized
    <2>6. CASE Answer \/ Disconnected \/ Quit \/ ShutdownSeen
      BY <1>1, <2>6 DEF Answer, Disconnected, Quit, ShutdownSeen
    <2>7. CASE JoinVoice \/ JoinTalk \/ Close
      BY <1>1, <2>7 DEF JoinVoice, JoinTalk, Close
    <2> QED BY <1>2, <2>1, <2>2, <2>3, <2>4, <2>5, <2>6, <2>7 DEF ViewerThread
  <1>3. CASE VoiceClientThread
    <2>1. CASE Dequeue
      BY <2>1, OrderDequeue
    <2>2. CASE Dequeued
      BY <1>1, <2>2 DEF Dequeued
    <2>3. CASE PostProcess
      <3>1. CASE UNCHANGED held
        BY <1>1, <2>3, <3>1 DEF PostProcess
      <3>2. CASE held' = 0
        BY <2>3, <3>2, OrderReleased DEF PostProcess
      <3> QED BY <2>3, <3>1, <3>2 DEF PostProcess
    <2>4. CASE PostProcessed
      <3>1. held # 0
        BY <2>4 DEF PostProcessed, Positions
      <3> QED BY <2>4, <3>1, OrderPosted
    <2> QED BY <1>3, <2>1, <2>2, <2>3, <2>4 DEF VoiceClientThread
  <1>4. CASE TalkThread
    BY <1>1, <1>4 DEF TalkThread, Tell, Told, Nap
  <1>5. CASE MainThread \/ TellParticipant \/ SetTalking
    BY <1>1, <1>5 DEF MainThread, EnterLoop, ToldParticipant, StartTalking, End, Delete,
                      TellParticipant, SetTalking
  <1>6. CASE ViewerConnects \/ ViewerLeaves \/ UserQuits
    BY <1>1, <1>6 DEF ViewerConnects, ViewerLeaves, UserQuits
  <1>7. CASE ViewerSends
    BY <1>7, OrderSends
  <1>8. CASE UNCHANGED vars
    BY <1>1, <1>8 DEF vars, input
  <1> QED BY <1>2, <1>3, <1>4, <1>5, <1>6, <1>7, <1>8 DEF Next

LEMMA ViewerInvInit == Init => ViewerInv
  BY ThreadsInit, OrderInit, SettledInit DEF ViewerInv

LEMMA ViewerInvStep == ViewerInv /\ [Next]_vars => ViewerInv'
  BY ThreadsStep, PositionsStep, OrderStep, SettledStep DEF ViewerInv

\* Types of the variables nothing above speaks of.
Flags ==
    /\ quit \in BOOLEAN /\ pSocket \in BOOLEAN /\ voiceEnd \in BOOLEAN /\ talkEnd \in BOOLEAN
    /\ tt \in {"none", "made", "deleted"}

LEMMA FlagsStep == Flags /\ Positions /\ [Next]_vars => Flags'
  <1> SUFFICES ASSUME Flags, Positions, [Next]_vars PROVE Flags'
    OBVIOUS
  <1> USE DEF Flags, Positions, handler, voiceVars, talkVars
  <1>1. CASE ViewerThread
    BY <1>1 DEF ViewerThread, Start, Accept, NoConnection, Initialized, Read, Execute, Answer,
                Answered, Enqueue, Disconnected, Quit, ShutdownSeen, JoinVoice, JoinTalk, Close
  <1>2. CASE VoiceClientThread \/ TalkThread
    <2>1. UNCHANGED <<quit, handler, voiceEnd, talkEnd>>
      BY <1>2 DEF VoiceClientThread, Dequeue, Dequeued, PostProcess, PostProcessed,
                  TalkThread, Tell, Told, Nap
    <2> QED BY <2>1
  <1>3. CASE MainThread \/ TellParticipant \/ SetTalking
    BY <1>3 DEF MainThread, EnterLoop, ToldParticipant, StartTalking, End, Delete,
                TellParticipant, SetTalking
  <1>4. CASE ViewerConnects \/ ViewerSends \/ ViewerLeaves \/ UserQuits \/ UNCHANGED vars
    BY <1>4 DEF ViewerConnects, ViewerSends, ViewerLeaves, UserQuits, vars
  <1> QED BY <1>1, <1>2, <1>3, <1>4 DEF Next

\* An increasing sequence of requests.
LEMMA RequestsOf ==
  ASSUME NEW s \in Seq(Nat), Increasing(s), ToSet(s) \subseteq Requests
  PROVE  s \in Seq(Requests) /\ IsInjective(s)
  <1>1. Len(s) \in Nat /\ DOMAIN s = 1 .. Len(s) /\ \A i \in DOMAIN s : s[i] \in Nat
    OBVIOUS
  <1>2. \A i \in DOMAIN s : s[i] \in Requests
    BY DEF ToSet
  <1>3. s \in Seq(Requests)
    BY <1>1, <1>2
  <1>4. IsInjective(s)
    <2> SUFFICES ASSUME NEW i \in DOMAIN s, NEW j \in DOMAIN s, s[i] = s[j] PROVE i = j
      BY DEF IsInjective
    <2>1. ~(i < j) /\ ~(j < i)
      BY <1>1 DEF Increasing
    <2> QED BY <2>1, <1>1
  <1> QED BY <1>3, <1>4

-----------------------------------------------------------------------------
\* The socket and the talking thread exist while another thread uses them:
\* nobody is past a test of is_active when the handler is torn down.
THEOREM ExistWhileUsed == Spec => []UsedExists
  <1>1. ThreadInv => UsedExists
    BY DEF ThreadInv, ThreadTypes, Senders, Holder, Ending, Joined, Started, Exists, UsedExists
  <1> QED BY <1>1, ThreadsInit, ThreadsStep, PTL DEF Spec

\* No thread is left when the main thread deletes the handler.
THEOREM AllEndFirst == Spec => []NothingOutlives
  <1>1. ThreadInv => NothingOutlives
    BY DEF ThreadInv, ThreadTypes, Senders, Holder, Ending, Joined, Started, Exists,
           NothingOutlives
  <1> QED BY <1>1, ThreadsInit, ThreadsStep, PTL DEF Spec

\* Events are sent after the answer to their request, and in the order of the
\* requests, though one thread answers and another sends events, and either
\* may be refused when the handler ends in between.
THEOREM EventsInOrder == Spec => []EventsFollow
  <1>1. ViewerInv => EventsFollow
    <2> SUFFICES ASSUME ViewerInv PROVE EventsFollow
      OBVIOUS
    <2>1. Len(wire) \in Nat /\ DOMAIN wire = 1 .. Len(wire)
      BY DEF ViewerInv, OrderInv, Lists
    <2>2. \A j \in DOMAIN wire, k \in Nat : k \in 1 .. j - 1 => k \in DOMAIN wire /\ k < j
      BY <2>1
    <2>3. \A j \in DOMAIN wire : \A k \in 1 .. j - 1 :
            wire[j].what = "events" /\ wire[k].what = "events" => wire[k].r < wire[j].r
      BY <2>1, <2>2 DEF ViewerInv, OrderInv, EventsInLine
    <2> QED BY <2>3 DEF ViewerInv, AnswerFirst, EventsFollow
  <1> QED BY <1>1, ViewerInvInit, ViewerInvStep, PTL DEF Spec

\* Types, and that no request is in two places: what is queued was read and is
\* not in hand any more.
THEOREM TypeCorrect == Spec => []TypeOK
  <1>1. ViewerInv /\ Flags => TypeOK
    <2> SUFFICES ASSUME ViewerInv, Flags PROVE TypeOK
      OBVIOUS
    <2>1. ToSet(queue) \cup ToSet(inHand) \cup ToSet(unread) \cup Held \subseteq Requests
      BY ViewerAssumption DEF ViewerInv, OrderInv, Lists, InLine, Requests
    <2>2. /\ unread \in Seq(Requests) /\ IsInjective(unread)
          /\ inHand \in Seq(Requests) /\ IsInjective(inHand)
          /\ queue \in Seq(Requests) /\ IsInjective(queue)
      BY <2>1, RequestsOf DEF ViewerInv, OrderInv, Lists
    <2>3. \A x \in Requests : x \in Nat /\ x # 0 /\ ~(x < x)
      BY ViewerAssumption DEF Requests
    <2>4. ToSet(inHand) \cap ToSet(unread) = {}
      BY <2>1, <2>3 DEF ViewerInv, OrderInv, InLine, Before
    <2>5. held \notin ToSet(queue)
      <3> SUFFICES ASSUME held \in ToSet(queue) PROVE FALSE
        OBVIOUS
      <3>1. held \in Held
        BY <2>1, <2>3 DEF Held
      <3> QED BY <3>1, <2>1, <2>3 DEF ViewerInv, OrderInv, InLine, Before
    <2>6. held \in Requests \cup {0}
      BY <2>1 DEF Held
    <2>7. /\ sent \in 0 .. MaxRequests
          /\ wire \in Seq([what : {"answer", "events"}, r : Nat])
      BY DEF ViewerInv, OrderInv, Lists
    <2>8. /\ main \in {"starting", "loop", "telling", "talking", "waiting", "gone"}
          /\ viewer \in {"start", "listen", "accepted", "loop", "answer", "answering",
                         "executed", "leaving", "quitting", "joinVoice", "joinTalk",
                         "closing", "done"}
          /\ voice \in {"off", "wait", "got", "post", "posting", "ended"}
          /\ talk \in {"off", "run", "telling", "nap", "ended"}
          /\ link \in {"none", "up", "down"} /\ tt \in {"none", "made", "deleted"}
          /\ sender \in Senders
          /\ {quit, bEnd, bInitialized, pSocket, voiceEnd, talkEnd} \subseteq BOOLEAN
      BY DEF ViewerInv, ThreadInv, ThreadTypes, Positions, Flags
    <2> QED BY <2>2, <2>4, <2>5, <2>6, <2>7, <2>8 DEF TypeOK
  <1>2. Init => Flags
    BY DEF Init, Flags
  <1>3. ViewerInv /\ Flags /\ [Next]_vars => Flags'
    BY FlagsStep DEF ViewerInv
  <1> QED BY <1>1, <1>2, <1>3, ViewerInvInit, ViewerInvStep, PTL DEF Spec
=============================================================================
