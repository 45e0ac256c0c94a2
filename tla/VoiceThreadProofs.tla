------------------------- MODULE VoiceThreadProofs -------------------------
(***************************************************************************)
(* Proofs about VoiceThread for any number of users, addresses and ports:  *)
(* its type invariant, and that the tables in which the voice thread looks *)
(* for the sender of a packet hold listed users only, each in one way.     *)
(***************************************************************************)
EXTENDS VoiceThread, TLAPS

(* What a thread is in the middle of tells which fields its job has.       *)
LEMMA JobKinds ==
    ASSUME NEW j \in Jobs
    PROVE  /\ j.pc \in {"fill", "filled"} =>
                j \in [pc : {"fill", "filled"}, usr : Users, target : Targets, dst : Recipients]
           /\ j.pc \in {"rebind", "rebound"} =>
                j \in [pc : {"rebind", "rebound"}, usr : Users, key : Keys,
                       target : Targets \cup {0}]
           /\ j.pc \in {"enter", "flush"} =>
                j \in [pc : {"enter", "flush"}, usr : Users,
                       chan : Channels \cup {NoChannel}, quiet : BOOLEAN]
BY DEF Jobs, Idle

(* Each transition of a job leads to a job.                                *)
LEMMA JobSteps ==
    ASSUME NEW j \in Jobs
    PROVE  /\ j.pc = "fill" => [j EXCEPT !.pc = "filled"] \in Jobs
           /\ j.pc = "rebind" => [j EXCEPT !.pc = "rebound"] \in Jobs
           /\ j.pc = "enter" => [j EXCEPT !.pc = "flush"] \in Jobs
           /\ j.pc = "flush" => [j EXCEPT !.pc = "enter", !.quiet = FALSE] \in Jobs
<1>1. ASSUME j.pc = "fill" PROVE [j EXCEPT !.pc = "filled"] \in Jobs
  BY <1>1, JobKinds DEF Jobs
<1>2. ASSUME j.pc = "rebind" PROVE [j EXCEPT !.pc = "rebound"] \in Jobs
  BY <1>2, JobKinds DEF Jobs
<1>3. ASSUME j.pc = "enter" PROVE [j EXCEPT !.pc = "flush"] \in Jobs
  BY <1>3, JobKinds DEF Jobs
<1>4. ASSUME j.pc = "flush" PROVE [j EXCEPT !.pc = "enter", !.quiet = FALSE] \in Jobs
  BY <1>4, JobKinds DEF Jobs
<1> QED BY <1>1, <1>2, <1>3, <1>4

(* processMsg changes nothing but what its thread is in the middle of, and *)
(* whatever it goes on to do is for the speaker it was called for.         *)
LEMMA ProcessJob ==
    ASSUME TypeOK, NEW th \in Threads, NEW u \in Users, NEW t \in Targets \cup {0},
           Process(th, u, t)
    PROVE  /\ job' \in [Threads -> Jobs]
           /\ job'[th].pc \in {"idle", "fill"}
           /\ \A other \in Threads \ {th} : job'[other] = job[other]
<1>1. WhisperTo(u, t) \in Recipients
  BY DEF WhisperTo, Recipients, qhUsers
<1>2. CASE job' = [job EXCEPT ![th] = Idle]
  BY <1>2 DEF TypeOK, Jobs, Idle
<1>3. CASE /\ t \in Targets
           /\ job' = [job EXCEPT ![th] = [pc |-> "fill", usr |-> u, target |-> t,
                                          dst |-> WhisperTo(u, t)]]
  <2>1. [pc |-> "fill", usr |-> u, target |-> t, dst |-> WhisperTo(u, t)] \in Jobs
    BY <1>1, <1>3 DEF Jobs
  <2> QED BY <1>3, <2>1 DEF TypeOK
<1> QED BY <1>2, <1>3 DEF Process, Starts

LEMMA TypeInit == Init => TypeOK
BY VoiceAssumption DEF Init, TypeOK, Jobs, Threads, Recipients

LEMMA TypeStep == TypeOK /\ [Next]_vars => TypeOK'
<1> SUFFICES ASSUME TypeOK, [Next]_vars PROVE TypeOK'
  OBVIOUS
<1>a. job["main"] \in Jobs /\ job["voice"] \in Jobs
  BY DEF TypeOK, Threads
<1>1. CASE UNCHANGED vars
  BY <1>1 DEF TypeOK, vars, tables
<1>2. ASSUME NEW v \in Users, NEW k \in Keys, NEW t \in Targets \cup {0}, Receive(v, k, t)
      PROVE  TypeOK'
  <2>1. job' \in [Threads -> Jobs]
    <3>1. CASE Process("voice", v, t)
      BY <3>1, ProcessJob DEF Threads
    <3>2. CASE Starts("voice", [pc |-> "rebind", usr |-> v, key |-> k, target |-> t])
      <4>1. [pc |-> "rebind", usr |-> v, key |-> k, target |-> t] \in Jobs
        BY DEF Jobs
      <4> QED BY <3>2, <4>1 DEF Starts, TypeOK
    <3> QED BY <1>2, <3>1, <3>2 DEF Receive
  <2> QED BY <1>2, <2>1 DEF Receive, TypeOK, tables
<1>3. CASE Rebind
  <2> DEFINE j == job["voice"]
  <2>1. j.usr \in Users /\ j.key \in Keys
    BY <1>3, <1>a, JobKinds DEF Rebind
  <2>2. CASE /\ StillListed(j.usr) /\ MovedToPeer(j.usr, j.key)
             /\ Starts("voice", [j EXCEPT !.pc = "rebound"]) /\ UNCHANGED writer
    <3>1. job' \in [Threads -> Jobs]
      BY <1>3, <1>a, <2>2, JobSteps DEF Rebind, Starts, TypeOK
    <3>2. QED
      BY <1>3, <2>1, <2>2, <3>1, VoiceAssumption
         DEF Rebind, MovedToPeer, TypeOK
  <2>3. CASE /\ writer' = "voice" /\ Starts("voice", Idle)
             /\ UNCHANGED <<udpAddr, qhHostUsers, qhPeerUsers>>
    BY <1>3, <2>3 DEF Rebind, Starts, TypeOK, Jobs
  <2> QED BY <1>3, <2>2, <2>3 DEF Rebind
<1>4. CASE Rebound
  <2> DEFINE j == job["voice"]
  <2>1. j.usr \in Users /\ j.target \in Targets \cup {0}
    BY <1>4, <1>a, JobKinds DEF Rebound
  <2>2. job' \in [Threads -> Jobs]
    <3>1. CASE Process("voice", j.usr, j.target)
      BY <2>1, <3>1, ProcessJob DEF Threads
    <3>2. CASE Starts("voice", Idle)
      BY <3>2 DEF Starts, TypeOK, Jobs
    <3> QED BY <1>4, <3>1, <3>2 DEF Rebound, ProcessIfListed
  <2> QED BY <1>4, <2>2 DEF Rebound, TypeOK, tables
<1>5. ASSUME NEW th \in Threads, Fill(th) PROVE TypeOK'
  <2>1. job[th] \in Jobs
    BY DEF TypeOK
  <2>2. job[th].usr \in Users /\ job[th].target \in Targets /\ job[th].dst \in Recipients
    BY <1>5, <2>1, JobKinds DEF Fill
  <2>3. job' \in [Threads -> Jobs]
    BY <1>5, <2>1, JobSteps DEF Fill, Starts, TypeOK
  <2>4. qmTargetCache' \in [Users -> [Targets -> Recipients \cup {NoCache}]]
    BY <1>5, <2>2 DEF Fill, TypeOK
  <2> QED BY <1>5, <2>3, <2>4 DEF Fill, TypeOK, tables
<1>6. ASSUME NEW th \in Threads, Filled(th) PROVE TypeOK'
  BY <1>6 DEF Filled, Starts, TypeOK, tables, Jobs
<1>7. CASE EnterChannel
  <2>1. job["main"].usr \in Users /\ job["main"].chan \in Channels \cup {NoChannel}
    BY <1>7, <1>a, JobKinds DEF EnterChannel
  <2>2. job' \in [Threads -> Jobs]
    BY <1>7, <1>a, JobSteps DEF EnterChannel, Starts, TypeOK
  <2> QED BY <1>7, <2>1, <2>2 DEF EnterChannel, TypeOK, tables
<1>8. CASE Flush
  <2>1. job' \in [Threads -> Jobs]
    <3>1. [job["main"] EXCEPT !.pc = "enter", !.quiet = FALSE] \in Jobs /\ Idle \in Jobs
      BY <1>8, <1>a, JobSteps DEF Flush, Jobs
    <3> QED BY <1>8, <3>1 DEF Flush, Starts, TypeOK
  <2>2. qmTargetCache' \in [Users -> [Targets -> Recipients \cup {NoCache}]]
    BY <1>8 DEF Flush, TypeOK
  <2> QED BY <1>8, <2>1, <2>2 DEF Flush, TypeOK, tables
<1>9. ASSUME NEW u \in Users,
             NewClient(u) \/ Close(u) \/ Delete(u)
      PROVE  TypeOK'
  <2>1. CASE NewClient(u)
    BY <2>1, VoiceAssumption DEF NewClient, TypeOK
  <2>2. CASE Close(u)
    <3>1. ASSUME NEW k \in Keys PROVE qhPeerUsers'[k] \in Users \cup {NoUser}
      BY <2>2 DEF Close, TypeOK
    <3>2. qhPeerUsers' \in [Keys -> Users \cup {NoUser}]
      BY <2>2, <3>1 DEF Close
    <3>3. job' \in [Threads -> Jobs]
      <4>1. [pc |-> "flush", usr |-> u, chan |-> cChannel[u], quiet |-> FALSE] \in Jobs
        BY DEF TypeOK, Jobs
      <4> QED BY <2>2, <4>1 DEF Close, Starts, TypeOK
    <3>4. life' \in [Users -> {"new", "listed", "closing", "deleted"}]
          /\ qhHostUsers' \in [Hosts -> SUBSET Users]
      BY <2>2, VoiceAssumption DEF Close, TypeOK
    <3> QED BY <2>2, <3>2, <3>3, <3>4 DEF Close, TypeOK
  <2>3. CASE Delete(u)
    BY <2>3 DEF Delete, TypeOK
  <2> QED BY <1>9, <2>1, <2>2, <2>3
<1>10. ASSUME NEW u \in Users, NEW c \in Channels, Authenticate(u, c) \/ Move(u, c)
       PROVE  TypeOK'
  <2>1. ASSUME NEW q \in BOOLEAN
        PROVE  [pc |-> "enter", usr |-> u, chan |-> c, quiet |-> q] \in Jobs
    BY DEF Jobs
  <2>2. job' \in [Threads -> Jobs] /\ crypt' \subseteq Users
    BY <1>10, <2>1 DEF Authenticate, Move, TypeOK, Starts
  <2> QED BY <1>10, <2>2 DEF Authenticate, Move, TypeOK, tables
<1>11. ASSUME NEW u \in Users, NEW granted \in SUBSET Channels, ChangeACL(u, granted)
       PROVE  TypeOK'
  BY <1>11 DEF ChangeACL, TypeOK, Starts, Jobs, tables
<1>12. ASSUME NEW u \in Users, NEW t \in Targets, TunnelVoice(u, t) PROVE TypeOK'
  <2>1. job' \in [Threads -> Jobs]
    BY <1>12, ProcessJob DEF TunnelVoice, Threads
  <2> QED BY <1>12, <2>1 DEF TunnelVoice, TypeOK, tables
<1>13. ASSUME NEW u \in Users, NEW t \in Targets, NEW wt \in Addressed, VoiceTarget(u, t, wt)
       PROVE  TypeOK'
  <2> DEFINE known == [wt EXCEPT !.sessions = @ \cap qhUsers]
  <2>1. Stored(known) \in WhisperTargets \cup {NoTarget}
    <3>1. wt \in [sessions : SUBSET Users, channels : SUBSET Channels]
      BY VoiceAssumption
    <3>2. known \in [sessions : SUBSET Users, channels : SUBSET Channels]
      BY <3>1 DEF qhUsers
    <3> QED BY <3>2 DEF Stored, WhisperTargets
  <2>2. qmTargets' \in [Users -> [Targets -> WhisperTargets \cup {NoTarget}]]
    BY <1>13, <2>1 DEF VoiceTarget, TypeOK
  <2>3. qmTargetCache' \in [Users -> [Targets -> Recipients \cup {NoCache}]]
    BY <1>13 DEF VoiceTarget, TypeOK
  <2> QED BY <1>13, <2>2, <2>3 DEF VoiceTarget, TypeOK, tables
<1> QED
  <2>1. CASE Voice
    BY <2>1, <1>2, <1>3, <1>4, <1>5, <1>6 DEF Voice, Threads
  <2>2. CASE Main
    BY <2>2, <1>5, <1>6, <1>7, <1>8, <1>9, <1>10, <1>11, <1>12, <1>13 DEF Main, Threads
  <2> QED BY <1>1, <2>1, <2>2 DEF Next

(* Every variable keeps the shape it starts with.                          *)
THEOREM TypeCorrect == Spec => []TypeOK
BY TypeInit, TypeStep, PTL DEF Spec

-----------------------------------------------------------------------------
LEMMA InvInit == Init => IInv
BY VoiceAssumption
   DEF Init, IInv, EntriesListed, OneWayIn, Recognised, NewcomerUnbound, OneAddress, Idle, qhUsers, Keys,
       Threads

(* A step that leaves the tables alone, and after which the voice thread   *)
(* has recognised nobody it had not recognised before.                     *)
LEMMA TablesUnchanged ==
    ASSUME IInv, UNCHANGED tables,
           job'["voice"].pc = "rebind" => job'["voice"] = job["voice"]
    PROVE  IInv'
BY DEF IInv, EntriesListed, OneWayIn, Recognised, NewcomerUnbound, OneAddress, tables, qhUsers

LEMMA InvStep == TypeOK /\ IInv /\ [Next]_vars => IInv'
<1> SUFFICES ASSUME TypeOK, IInv, [Next]_vars PROVE IInv'
  OBVIOUS
<1>a. job["main"] \in Jobs /\ job["voice"] \in Jobs
  BY DEF TypeOK, Threads
<1>1. CASE UNCHANGED vars
  BY <1>1, TablesUnchanged DEF vars
<1>2. ASSUME NEW v \in Users, NEW k \in Keys, NEW t \in Targets \cup {0}, Receive(v, k, t)
      PROVE  IInv'
  <2>1. CASE Process("voice", v, t)
    <3>1. job'["voice"].pc # "rebind"
      BY <2>1, ProcessJob DEF Threads
    <3> QED BY <1>2, <3>1, TablesUnchanged DEF Receive
  <2>2. CASE /\ qhPeerUsers[k] = NoUser /\ v \in HostUsers(k[1])
             /\ Starts("voice", [pc |-> "rebind", usr |-> v, key |-> k, target |-> t])
    <3>1. job'["voice"] = [pc |-> "rebind", usr |-> v, key |-> k, target |-> t]
      BY <2>2 DEF Starts, TypeOK, Threads
    <3>2. k[1] \in Hosts
      BY DEF Keys
    <3>3. v \in qhUsers /\ k[1] = HostOf[v] /\ udpAddr[v] = {}
      BY <2>2, <3>2 DEF HostUsers, IInv, EntriesListed, OneWayIn
    <3>4. Recognised'
      BY <1>2, <2>2, <3>1, <3>3 DEF Recognised, Receive, tables, qhUsers
    <3> QED
      BY <1>2, <3>4
         DEF Receive, tables, IInv, EntriesListed, OneWayIn, NewcomerUnbound, OneAddress,
             qhUsers
  <2> QED BY <1>2, <2>1, <2>2 DEF Receive
<1>3. CASE Rebind
  <2> DEFINE j == job["voice"]
  <2>1. j.usr \in Users /\ j.key \in Keys /\ j.key[1] \in Hosts
    BY <1>3, <1>a, JobKinds DEF Rebind, Keys
  <2>2. /\ life[j.usr] # "new" /\ j.key[1] = HostOf[j.usr]
        /\ qhPeerUsers[j.key] = NoUser /\ udpAddr[j.usr] = {}
    BY <1>3 DEF Rebind, IInv, Recognised
  <2>3. CASE /\ StillListed(j.usr) /\ MovedToPeer(j.usr, j.key)
             /\ Starts("voice", [j EXCEPT !.pc = "rebound"])
    <3>1. j.usr \in qhUsers /\ UNCHANGED life
      BY <1>3, <2>3 DEF StillListed, Rebind
    <3>2. job'["voice"].pc = "rebound"
      <4>1. job'["voice"] = [j EXCEPT !.pc = "rebound"]
        BY <2>3 DEF Starts, TypeOK, Threads
      <4>2. j \in [pc : {"rebind", "rebound"}, usr : Users, key : Keys,
                   target : Targets \cup {0}]
        BY <1>3, <1>a, JobKinds DEF Rebind
      <4> QED BY <4>1, <4>2
    <3>3. EntriesListed'
      BY <2>1, <2>3, <3>1 DEF MovedToPeer, EntriesListed, IInv, TypeOK, qhUsers
    <3>4. NewcomerUnbound'
      BY <2>1, <2>2, <2>3, <3>1 DEF MovedToPeer, NewcomerUnbound, IInv, TypeOK
    <3>5. ASSUME NEW u \in Users, life'[u] = "listed"
          PROVE  /\ \A h \in Hosts : u \in qhHostUsers'[h] <=> h = HostOf[u] /\ udpAddr'[u] = {}
                 /\ \A k \in Keys : qhPeerUsers'[k] = u <=>
                                        udpAddr'[u] = {k} /\ k[1] = HostOf[u]
      <4>1. CASE u = j.usr
        <5>1. udpAddr'[u] = {j.key} /\ udpAddr[u] = {} /\ u \in qhUsers
          BY <2>1, <2>2, <2>3, <3>1, <4>1 DEF MovedToPeer, TypeOK
        <5>2. ASSUME NEW h \in Hosts PROVE u \notin qhHostUsers'[h]
          BY <2>1, <2>2, <2>3, <4>1, <5>1 DEF MovedToPeer, OneWayIn, IInv, TypeOK
        <5>3. ASSUME NEW k \in Keys PROVE qhPeerUsers'[k] = u <=> k = j.key
          <6>1. qhPeerUsers[k] # u
            BY <5>1 DEF OneWayIn, IInv
          <6> QED BY <2>1, <2>3, <4>1, <6>1 DEF MovedToPeer, TypeOK
        <5> QED BY <2>1, <2>2, <4>1, <5>1, <5>2, <5>3
      <4>2. CASE u # j.usr
        BY <2>1, <2>2, <2>3, <3>1, <3>5, <4>2, VoiceAssumption
           DEF MovedToPeer, OneWayIn, IInv, TypeOK, qhUsers
      <4> QED BY <4>1, <4>2
    <3>6. OneWayIn'
      BY <3>1, <3>5 DEF OneWayIn, qhUsers
    <3>7. OneAddress'
      BY <2>1, <2>2, <2>3 DEF MovedToPeer, OneAddress, IInv, TypeOK
    <3> QED BY <3>2, <3>3, <3>4, <3>6, <3>7 DEF IInv, Recognised
  <2>4. CASE Starts("voice", Idle) /\ UNCHANGED <<udpAddr, qhHostUsers, qhPeerUsers>>
    <3>1. job'["voice"] = Idle
      BY <2>4 DEF Starts, TypeOK, Threads
    <3> QED BY <1>3, <2>4, <3>1, TablesUnchanged DEF Rebind, tables, Idle
  <2> QED BY <1>3, <2>3, <2>4 DEF Rebind
<1>4. CASE Rebound
  <2> DEFINE j == job["voice"]
  <2>1. j.usr \in Users /\ j.target \in Targets \cup {0}
    BY <1>4, <1>a, JobKinds DEF Rebound
  <2>2. job'["voice"].pc # "rebind"
    <3>1. CASE Process("voice", j.usr, j.target)
      BY <2>1, <3>1, ProcessJob DEF Threads
    <3>2. CASE Starts("voice", Idle)
      BY <3>2 DEF Starts, TypeOK, Threads, Idle
    <3> QED BY <1>4, <3>1, <3>2 DEF Rebound, ProcessIfListed
  <2> QED BY <1>4, <2>2, TablesUnchanged DEF Rebound
<1>5. ASSUME NEW th \in Threads, Fill(th) \/ Filled(th) PROVE IInv'
  <2>1. job[th] \in Jobs
    BY DEF TypeOK
  <2>2. CASE th = "main"
    <3>1. job'["voice"] = job["voice"]
      BY <1>5, <2>2 DEF Fill, Filled, Starts, TypeOK, Threads
    <3> QED BY <1>5, <3>1, TablesUnchanged DEF Fill, Filled
  <2>3. CASE th = "voice"
    <3> DEFINE next == [job[th] EXCEPT !.pc = "filled"]
    <3>1. job[th].pc = "fill" => next.pc = "filled"
      BY <2>1, JobKinds
    <3>2. (job'["voice"] = next /\ job[th].pc = "fill") \/ job'["voice"] = Idle
      BY <1>5, <2>3 DEF Fill, Filled, Starts, TypeOK
    <3> HIDE DEF next
    <3>3. job'["voice"].pc # "rebind"
      BY <3>1, <3>2 DEF Idle
    <3> QED BY <1>5, <3>3, TablesUnchanged DEF Fill, Filled
  <2> QED BY <2>2, <2>3 DEF Threads
<1>6. CASE EnterChannel \/ Flush
  <2>1. job'["voice"] = job["voice"]
    BY <1>6 DEF EnterChannel, Flush, Starts, TypeOK, Threads
  <2> QED BY <1>6, <2>1, TablesUnchanged DEF EnterChannel, Flush
<1>7. ASSUME NEW u \in Users, NEW c \in Channels, Authenticate(u, c) \/ Move(u, c)
      PROVE  IInv'
  <2>1. job'["voice"] = job["voice"]
    BY <1>7 DEF Authenticate, Move, Starts, TypeOK, Threads
  <2> QED BY <1>7, <2>1, TablesUnchanged DEF Authenticate, Move
<1>8. ASSUME NEW u \in Users, NEW granted \in SUBSET Channels, ChangeACL(u, granted)
      PROVE  IInv'
  <2>1. job'["voice"] = job["voice"]
    BY <1>8 DEF ChangeACL, Starts, TypeOK, Threads
  <2> QED BY <1>8, <2>1, TablesUnchanged DEF ChangeACL
<1>9. ASSUME NEW u \in Users, NEW t \in Targets,
             TunnelVoice(u, t) \/ \E wt \in Addressed : VoiceTarget(u, t, wt)
      PROVE  IInv'
  <2>1. CASE TunnelVoice(u, t)
    <3>1. job'["voice"] = job["voice"]
      BY <2>1, ProcessJob DEF TunnelVoice, Threads
    <3> QED BY <2>1, <3>1, TablesUnchanged DEF TunnelVoice
  <2>2. ASSUME NEW wt \in Addressed, VoiceTarget(u, t, wt) PROVE IInv'
    BY <2>2, TablesUnchanged DEF VoiceTarget
  <2> QED BY <1>9, <2>1, <2>2
<1>10. ASSUME NEW u \in Users, NewClient(u) PROVE IInv'
  <2>1. HostOf[u] \in Hosts
    BY VoiceAssumption
  <2>2. life'[u] = "listed" /\ udpAddr[u] = {} /\ u \notin qhUsers
    BY <1>10 DEF NewClient, TypeOK, IInv, NewcomerUnbound, qhUsers
  <2>3. EntriesListed'
    BY <1>10, <2>1 DEF NewClient, TypeOK, IInv, EntriesListed, qhUsers
  <2>4. \A v \in Users : v # u => life'[v] = life[v]
    BY <1>10 DEF NewClient, TypeOK
  <2>5. \A k \in Keys : qhPeerUsers[k] # u
    BY <2>2, VoiceAssumption DEF IInv, EntriesListed
  <2>6. \A h \in Hosts : u \notin qhHostUsers[h]
    BY <2>2 DEF IInv, EntriesListed
  <2>7. OneWayIn'
    <3>1. ASSUME NEW v \in Users, life'[v] = "listed"
          PROVE  /\ \A h \in Hosts : v \in qhHostUsers'[h] <=> h = HostOf[v] /\ udpAddr'[v] = {}
                 /\ \A k \in Keys : qhPeerUsers'[k] = v <=>
                                        udpAddr'[v] = {k} /\ k[1] = HostOf[v]
      <4>1. CASE v = u
        BY <1>10, <2>1, <2>2, <2>5, <2>6, <4>1 DEF NewClient, TypeOK
      <4>2. CASE v # u
        BY <1>10, <2>1, <2>4, <3>1, <4>2 DEF NewClient, TypeOK, IInv, OneWayIn, qhUsers
      <4> QED BY <4>1, <4>2
    <3> QED BY <3>1 DEF OneWayIn, qhUsers
  <2>8. Recognised' /\ NewcomerUnbound'
    BY <1>10, <2>4, <2>2 DEF NewClient, TypeOK, IInv, Recognised, NewcomerUnbound
  <2>9. OneAddress'
    BY <1>10 DEF NewClient, IInv, OneAddress
  <2> QED BY <2>3, <2>7, <2>8, <2>9 DEF IInv
<1>11. ASSUME NEW u \in Users, Close(u) PROVE IInv'
  <2>1. \A v \in Users : v # u => life'[v] = life[v]
    BY <1>11 DEF Close, TypeOK
  <2>2. life'[u] = "closing" /\ u \in qhUsers /\ UNCHANGED udpAddr
    BY <1>11 DEF Close, TypeOK
  <2>3. job'["voice"] = job["voice"]
    BY <1>11 DEF Close, Starts, TypeOK, Threads
  <2>4. ASSUME NEW k \in Keys
        PROVE  qhPeerUsers'[k] = IF qhPeerUsers[k] = u THEN NoUser ELSE qhPeerUsers[k]
    <3>1. k \in udpAddr[u] <=> qhPeerUsers[k] = u
      BY <2>2 DEF IInv, OneWayIn, OneAddress
    <3> QED BY <1>11, <3>1 DEF Close
  <2>5. ASSUME NEW h \in Hosts PROVE qhHostUsers'[h] = qhHostUsers[h] \ {u}
    <3>1. h # HostOf[u] => u \notin qhHostUsers[h]
      BY <2>2 DEF IInv, OneWayIn
    <3> QED BY <1>11, <3>1 DEF Close, TypeOK
  <2>6. EntriesListed'
    BY <2>1, <2>2, <2>4, <2>5 DEF IInv, EntriesListed, qhUsers
  <2>7. OneWayIn'
    BY <2>1, <2>2, <2>4, <2>5, VoiceAssumption DEF IInv, OneWayIn, qhUsers
  <2>8. Recognised'
    <3>1. job["voice"].pc = "rebind" => job["voice"].usr \in Users /\ job["voice"].key \in Keys
      BY <1>a, JobKinds
    <3>2. \A v \in Users : life'[v] = "new" => life[v] = "new"
      BY <2>1, <2>2
    <3> QED BY <2>2, <2>3, <2>4, <3>1, <3>2 DEF IInv, Recognised
  <2>9. NewcomerUnbound' /\ OneAddress'
    BY <2>1, <2>2 DEF IInv, NewcomerUnbound, OneAddress
  <2> QED BY <2>6, <2>7, <2>8, <2>9 DEF IInv
<1>12. ASSUME NEW u \in Users, Delete(u) PROVE IInv'
  <2>1. \A v \in Users : /\ life'[v] = "listed" <=> life[v] = "listed"
                         /\ life'[v] = "new" <=> life[v] = "new"
    BY <1>12 DEF Delete, TypeOK
  <2>2. job["voice"].pc = "rebind" => job["voice"].usr \in Users
    BY <1>a, JobKinds
  <2> QED
    BY <1>12, <2>1, <2>2
       DEF Delete, IInv, EntriesListed, OneWayIn, Recognised, NewcomerUnbound, OneAddress,
           qhUsers
<1> QED
  <2>1. CASE Voice
    BY <2>1, <1>2, <1>3, <1>4, <1>5 DEF Voice, Threads
  <2>2. CASE Main
    BY <2>2, <1>5, <1>6, <1>7, <1>8, <1>9, <1>10, <1>11, <1>12 DEF Main, Threads
  <2> QED BY <1>1, <2>1, <2>2 DEF Next

(* The voice thread only ever finds listed users through its two tables.   *)
THEOREM TablesListed == Spec => []EntriesListed
<1>1. IInv => EntriesListed
  BY DEF IInv
<1> QED BY InvInit, InvStep, TypeCorrect, <1>1, PTL DEF Spec

(* ... and each of them in exactly one way.                                *)
THEOREM FoundOneWay == Spec => []OneWayIn
<1>1. IInv => OneWayIn
  BY DEF IInv
<1> QED BY InvInit, InvStep, TypeCorrect, <1>1, PTL DEF Spec

-----------------------------------------------------------------------------
(* A step of processMsg goes on, if it does, for the speaker it is given.  *)
LEMMA ProcessSpeaker ==
    ASSUME TypeOK, NEW th \in Threads, NEW u \in qhUsers, NEW t \in Targets \cup {0},
           Process(th, u, t)
    PROVE  \A other \in Threads : job'[other].pc = "fill" /\ job[other].pc # "fill" =>
                job'[other].usr \in qhUsers
<1>1. \A other \in Threads \ {th} : job'[other] = job[other]
  BY ProcessJob DEF qhUsers
<1>2. job'[th].pc = "fill" => job'[th].usr = u
  BY DEF Process, Starts, TypeOK, Idle
<1> QED BY <1>1, <1>2

LEMMA SpeakerStep == TypeOK /\ IInv /\ [Next]_vars => [SpeakerListedStep]_vars
<1> SUFFICES ASSUME TypeOK, IInv, Next PROVE SpeakerListedStep
  OBVIOUS
<1>a. job["main"] \in Jobs /\ job["voice"] \in Jobs
  BY DEF TypeOK, Threads
<1>b. ASSUME UNCHANGED qmTargetCache,
             \A th \in Threads : job'[th].pc = "fill" /\ job[th].pc # "fill" =>
                 job'[th].usr \in qhUsers
      PROVE  SpeakerListedStep
  BY <1>b DEF SpeakerListedStep
<1>c. ASSUME NEW th \in Threads, NEW j, j.pc # "fill", Starts(th, j)
      PROVE  \A other \in Threads : job'[other].pc = "fill" => job[other].pc = "fill"
  BY <1>c DEF Starts, TypeOK
<1>2. ASSUME NEW v \in Users, NEW k \in Keys, NEW t \in Targets \cup {0}, Receive(v, k, t)
      PROVE  SpeakerListedStep
  <2>1. CASE qhPeerUsers[k] = v /\ Process("voice", v, t)
    <3>1. v \in qhUsers
      BY <2>1, VoiceAssumption DEF IInv, EntriesListed
    <3> QED BY <1>2, <1>b, <2>1, <3>1, ProcessSpeaker DEF Receive, Threads
  <2>2. CASE Starts("voice", [pc |-> "rebind", usr |-> v, key |-> k, target |-> t])
    BY <1>2, <1>b, <1>c, <2>2 DEF Receive, Threads
  <2> QED BY <1>2, <2>1, <2>2 DEF Receive
<1>3. CASE Rebind
  <2>1. [job["voice"] EXCEPT !.pc = "rebound"].pc # "fill"
    BY <1>3, <1>a, JobKinds DEF Rebind
  <2>2. Idle.pc # "fill"
    BY DEF Idle
  <2> QED BY <1>3, <1>b, <1>c, <2>1, <2>2 DEF Rebind, Threads
<1>4. CASE Rebound
  <2> DEFINE j == job["voice"]
  <2>1. j.target \in Targets \cup {0}
    BY <1>4, <1>a, JobKinds DEF Rebound
  <2>2. CASE j.usr \in qhUsers /\ Process("voice", j.usr, j.target)
    BY <1>4, <1>b, <2>1, <2>2, ProcessSpeaker DEF Rebound, Threads
  <2>3. CASE Starts("voice", Idle)
    <3>1. Idle.pc # "fill"
      BY DEF Idle
    <3> QED BY <1>4, <1>b, <1>c, <2>3, <3>1 DEF Rebound, Threads
  <2> QED BY <1>4, <2>2, <2>3 DEF Rebound, ProcessIfListed
<1>5. ASSUME NEW th \in Threads, Fill(th) \/ Filled(th) PROVE SpeakerListedStep
  <2>1. job[th] \in Jobs
    BY DEF TypeOK
  <2>2. job[th].pc = "fill" => [job[th] EXCEPT !.pc = "filled"].pc # "fill"
    BY <2>1, JobKinds
  <2>3. Idle.pc # "fill"
    BY DEF Idle
  <2>4. \A other \in Threads : job'[other].pc = "fill" => job[other].pc = "fill"
    BY <1>5, <1>c, <2>2, <2>3 DEF Fill, Filled
  <2>5. ASSUME NEW u \in Users, qmTargetCache'[u] # qmTargetCache[u] PROVE u \in qhUsers
    BY <1>5, <2>5 DEF Fill, Filled, TypeOK
  <2> QED BY <2>4, <2>5 DEF SpeakerListedStep
<1>6. CASE EnterChannel \/ Flush
  <2>1. /\ job["main"].pc = "enter" => [job["main"] EXCEPT !.pc = "flush"].pc # "fill"
        /\ job["main"].pc = "flush" =>
             [job["main"] EXCEPT !.pc = "enter", !.quiet = FALSE].pc # "fill"
        /\ Idle.pc # "fill"
    BY <1>a, JobKinds DEF Idle
  <2>2. \A other \in Threads : job'[other].pc = "fill" => job[other].pc = "fill"
    BY <1>6, <1>c, <2>1 DEF EnterChannel, Flush, Threads
  <2>3. ASSUME NEW u \in Users, qmTargetCache'[u] # qmTargetCache[u] PROVE u \in qhUsers
    BY <1>6, <2>3 DEF EnterChannel, Flush
  <2> QED BY <2>2, <2>3 DEF SpeakerListedStep
<1>7. ASSUME NEW u \in Users, NEW c \in Channels, Authenticate(u, c) \/ Move(u, c)
      PROVE  SpeakerListedStep
  BY <1>7, <1>b, <1>c DEF Authenticate, Move, Threads
<1>8. ASSUME NEW u \in Users, NEW granted \in SUBSET Channels, ChangeACL(u, granted)
      PROVE  SpeakerListedStep
  BY <1>8, <1>b, <1>c DEF ChangeACL, Threads
<1>9. ASSUME NEW u \in Users, NEW t \in Targets, TunnelVoice(u, t) PROVE SpeakerListedStep
  BY <1>9, <1>b, ProcessSpeaker DEF TunnelVoice, Threads
<1>10. ASSUME NEW u \in Users, NEW t \in Targets, NEW wt \in Addressed, VoiceTarget(u, t, wt)
       PROVE  SpeakerListedStep
  BY <1>10 DEF VoiceTarget, SpeakerListedStep, TypeOK
<1>11. ASSUME NEW u \in Users, NewClient(u) \/ Close(u) \/ Delete(u) PROVE SpeakerListedStep
  <2>1. \A th \in Threads : job'[th].pc = "fill" => job[th].pc = "fill"
    BY <1>11, <1>c DEF NewClient, Close, Delete, Threads
  <2> QED BY <1>11, <1>b, <2>1 DEF NewClient, Close, Delete
<1> QED
  <2>1. CASE Voice
    BY <2>1, <1>2, <1>3, <1>4, <1>5 DEF Voice, Threads
  <2>2. CASE Main
    BY <2>2, <1>5, <1>6, <1>7, <1>8, <1>9, <1>10, <1>11 DEF Main, Threads
  <2> QED BY <2>1, <2>2 DEF Next

(* Packets are handled and caches filled for listed users only.            *)
THEOREM SpeakerStaysListed == Spec => SpeakerListed
BY TypeInit, TypeStep, InvInit, InvStep, SpeakerStep, PTL DEF Spec, SpeakerListed
=============================================================================
