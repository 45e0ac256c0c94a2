----------------------- MODULE VoiceThreadLifeProofs ------------------------
(***************************************************************************)
(* Safety of starting and stopping the voice thread, for any number of     *)
(* users, sockets and failures of poll.  That stopThread returns is a      *)
(* liveness property and left to TLC.                                      *)
(***************************************************************************)
EXTENDS VoiceThreadLife, TLAPS

(* What the voice thread keeps of the types.                               *)
RunTypes ==
    /\ bound \subseteq authenticated
    /\ leaked \in BOOLEAN
    /\ left \in 0 .. Sockets - 1
    /\ sender \in authenticated \cup {NoUser}
    /\ sender # NoUser => thread = "relock"
    /\ thread \in {"stopped", "loop", "poll", "recv", "packet", "relock", "ending"}

LEMMA OneLess ==
    ASSUME left \in 0 .. Sockets - 1
    PROVE  /\ 0 \in 0 .. Sockets - 1
           /\ left > 0 => left - 1 \in 0 .. Sockets - 1
BY LifeAssumption

(* What the thread may do to the state: it ends but never starts itself,   *)
(* and leaves users and notifiers alone.                                   *)
LEMMA ThreadOnlyEnds ==
    ASSUME TypeOK, Run \/ Packet \/ PollFailure
    PROVE  /\ isRunning
           /\ RunTypes'
           /\ byte' \in BOOLEAN /\ bRunning' \in BOOLEAN
           /\ failures' \in 0 .. MaxFailures
           /\ UNCHANGED <<online, authenticated, notifiers, qtTimeout, main>>
<1>0. /\ 0 \in 0 .. Sockets - 1
      /\ left > 0 => left - 1 \in 0 .. Sockets - 1
  BY OneLess DEF TypeOK
<1>1. CASE Run
  <2>1. UNCHANGED <<online, authenticated, bRunning, notifiers, qtTimeout, main, failures>>
    BY <1>1 DEF Run
  <2>2. CASE while \/ notified \/ finished
    BY <2>1, <2>2 DEF TypeOK, RunTypes, while, notified, finished, isRunning
  <2>3. CASE recvfrom
    BY <1>0, <2>1, <2>3 DEF TypeOK, RunTypes, recvfrom, nextSocket, isRunning
  <2>4. CASE handled
    BY <1>0, <2>1, <2>4 DEF TypeOK, RunTypes, handled, nextSocket, isRunning
  <2>5. CASE rebound
    BY <1>0, <2>1, <2>5 DEF TypeOK, RunTypes, rebound, nextSocket, isRunning
  <2> QED BY <1>1, <2>2, <2>3, <2>4, <2>5 DEF Run
<1>2. CASE Packet
  <2>1. UNCHANGED <<online, authenticated, bRunning, notifiers, qtTimeout, main, failures>>
    BY <1>2 DEF Packet
  <2>2. CASE ready
    BY <2>1, <2>2 DEF TypeOK, RunTypes, ready, isRunning
  <2>3. ASSUME NEW u \in Users, recognised(u) PROVE RunTypes' /\ isRunning /\ byte' = byte
    BY <2>1, <2>3 DEF TypeOK, RunTypes, recognised, isRunning
  <2> QED BY <1>2, <2>1, <2>2, <2>3 DEF Packet, TypeOK
<1>3. CASE PollFailure
  <2>1. failures' \in 0 .. MaxFailures
    BY <1>3, LifeAssumption DEF TypeOK, PollFailure
  <2>2. RunTypes'
    BY <1>0, <1>3 DEF TypeOK, RunTypes, PollFailure, userVars
  <2> QED BY <1>3, <2>1, <2>2 DEF TypeOK, PollFailure, isRunning, userVars
<1> QED BY <1>1, <1>2, <1>3

(* stopThread keeps the types, and leaves users and the thread alone.      *)
LEMMA StopOnlyAsks ==
    ASSUME TypeOK, StopThread
    PROVE  /\ main' \in {"idle", "check", "notify", "wait"}
           /\ byte' \in BOOLEAN /\ notifiers' \in BOOLEAN /\ qtTimeout' \in BOOLEAN
           /\ bRunning' \in BOOLEAN
           /\ main' = "idle" => ~isRunning
           /\ main' # "wait" => notifiers' = notifiers
           /\ UNCHANGED <<userVars, runVars, failures>>
<1>0. CASE Stop
  BY <1>0 DEF TypeOK, Stop, stopVars
<1>1. CASE Check
  BY <1>1 DEF TypeOK, Check, Stopped, isRunning
<1>2. CASE Notify
  BY <1>2 DEF TypeOK, Notify, written
<1>3. CASE Wait
  BY <1>3 DEF TypeOK, Wait, Stopped, joined, isRunning
<1> QED BY <1>0, <1>1, <1>2, <1>3 DEF StopThread

-----------------------------------------------------------------------------
\* A login has its user listed to the end: nobody is removed meanwhile.
SomebodyIn == main = "enter" => online # {}

\* Together inductive.
IInv == TypeOK /\ OneReader /\ StaysStopped /\ SomebodyIn

LEMMA InvInit == Init => IInv
<1> SUFFICES ASSUME Init PROVE IInv
  OBVIOUS
<1>1. failures \in 0 .. MaxFailures /\ left \in 0 .. Sockets - 1
  BY LifeAssumption DEF Init
<1>2. TypeOK
  BY <1>1 DEF Init, TypeOK
<1> QED BY <1>2 DEF Init, IInv, OneReader, StaysStopped, SomebodyIn, isRunning

LEMMA InvStep == IInv /\ [Next]_vars => IInv'
<1> SUFFICES ASSUME IInv, [Next]_vars PROVE IInv'
  OBVIOUS
<1> USE DEF IInv
<1> USE DEF userVars, runVars, stopVars
<1>1. ASSUME NEW u \in Users, newClient(u) PROVE IInv'
  BY <1>1 DEF newClient, TypeOK, OneReader, StaysStopped, SomebodyIn, isRunning
<1>2. ASSUME NEW u \in Users, msgAuthenticate(u) PROVE IInv'
  <2>1. TypeOK'
    <3>1. sender # NoUser => thread' = "relock"
      BY <1>2 DEF msgAuthenticate, startThread, TypeOK, isRunning
    <3> QED BY <1>2, <3>1 DEF msgAuthenticate, startThread, TypeOK
  \* The notifiers are switched off when, and only when, the thread is started.
  <2>2. OneReader'
    BY <1>2 DEF msgAuthenticate, startThread, OneReader, isRunning
  <2>3. StaysStopped'
    BY <1>2 DEF msgAuthenticate, StaysStopped
  <2>4. SomebodyIn'
    BY <1>2 DEF msgAuthenticate, SomebodyIn
  <2> QED BY <2>1, <2>2, <2>3, <2>4
<1>3. ASSUME NEW u \in Users, connectionClosed(u) PROVE IInv'
  <2>1. TypeOK'
    BY <1>3 DEF connectionClosed, leaves, stopIfEmpty, TypeOK
  <2>2. OneReader'
    BY <1>3 DEF connectionClosed, leaves, OneReader, isRunning
  \* The last to leave does not return to the event loop, but to stopThread.
  <2>3. StaysStopped'
    BY <1>3 DEF connectionClosed, stopIfEmpty, StaysStopped
  <2>4. SomebodyIn'
    BY <1>3 DEF connectionClosed, stopIfEmpty, SomebodyIn
  <2> QED BY <2>1, <2>2, <2>3, <2>4
<1>4. CASE Enter
  <2>1. TypeOK' /\ OneReader'
    BY <1>4 DEF Enter, TypeOK, OneReader, isRunning
  \* The user who enters is online.
  <2>2. StaysStopped'
    BY <1>4 DEF Enter, StaysStopped, SomebodyIn
  <2> QED BY <1>4, <2>1, <2>2 DEF Enter, SomebodyIn
<1>5. CASE Flush
  BY <1>5 DEF Flush, stopIfEmpty, TypeOK, OneReader, StaysStopped, SomebodyIn, isRunning
<1>6. CASE StopThread
  <2>1. TypeOK'
    BY <1>6, StopOnlyAsks DEF TypeOK
  \* The notifiers are enabled on the way to the wait, which ends with the thread.
  <2>2. OneReader'
    <3>0. CASE Stop
      BY <3>0 DEF Stop, OneReader, isRunning
    <3>1. CASE Check
      BY <3>1 DEF Check, Stopped, OneReader, isRunning
    <3>2. CASE Notify
      BY <3>2 DEF Notify, OneReader
    <3>3. CASE Wait
      BY <3>3 DEF Wait, joined, OneReader, isRunning
    <3> QED BY <1>6, <3>0, <3>1, <3>2, <3>3 DEF StopThread
  <2>3. StaysStopped'
    BY <1>6, StopOnlyAsks DEF StaysStopped, isRunning
  <2>4. SomebodyIn'
    BY <1>6, StopOnlyAsks DEF SomebodyIn
  <2> QED BY <2>1, <2>2, <2>3, <2>4
<1>7. CASE Run \/ Packet \/ PollFailure
  BY <1>7, ThreadOnlyEnds DEF RunTypes, TypeOK, OneReader, StaysStopped, SomebodyIn, isRunning
<1>8. CASE UNCHANGED vars
  BY <1>8 DEF vars, TypeOK, OneReader, StaysStopped, SomebodyIn, isRunning
<1> QED BY <1>1, <1>2, <1>3, <1>4, <1>5, <1>6, <1>7, <1>8 DEF Next

LEMMA Inductive == Spec => []IInv
BY InvInit, InvStep, PTL DEF Spec

-----------------------------------------------------------------------------
(* All variables keep their types; only users who are online count as      *)
(* authenticated.                                                          *)
THEOREM TypeCorrect == Spec => []TypeOK
<1>1. IInv => TypeOK
  BY DEF IInv
<1> QED BY <1>1, Inductive, PTL

(* While the notifiers are enabled and the voice thread has not finished,  *)
(* the main thread waits: the sockets have one reader.                     *)
THEOREM SocketsHaveOneReader == Spec => []OneReader
<1>1. IInv => OneReader
  BY DEF IInv
<1> QED BY <1>1, Inductive, PTL

(* When the last user has left and stopThread has returned, the voice      *)
(* thread is not running.                                                  *)
THEOREM StoppedStaysStopped == Spec => []StaysStopped
<1>1. IInv => StaysStopped
  BY DEF IInv
<1> QED BY <1>1, Inductive, PTL
=============================================================================
