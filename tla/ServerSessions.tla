--------------------------- MODULE ServerSessions ---------------------------
(***************************************************************************)
(* Connections of murmur from accept to deletion: Server::newClient,       *)
(* msgAuthenticate and connectionClosed, with the session numbers, the     *)
(* kicking of ghosts, the limit of users and the choice of the CELT codec. *)
(* All handlers run in the main thread, but not one after the other: the   *)
(* authenticator may be called over DBus with BlockWithGui, which runs the *)
(* event loop until the answer comes.  Other handlers then run inside      *)
(* msgAuthenticate, the last one called returning first.  What the handler *)
(* asks over DBus later, the texture and the registration of a user who is *)
(* in already, is part of the step Authenticate.                           *)
(***************************************************************************)
EXTENDS Integers, Sequences, FiniteSets, Functions

CONSTANTS
    Conns,       \* ServerUser objects (an object is created anew at its address)
    Users,       \* numbers of the registered users; a number also stands for the name
    Guests,      \* names nobody has registered
    NoName,      \* the name before Authenticate
    SamePeer,    \* sets of connections with an address or a certificate in common
    NumIds,      \* bound: session numbers (4999 in the code)
    MaxUsers,    \* iMaxUsers
    Compat,      \* the bitstream version 0x8000000a
    CodecSets,   \* what clients announce as their CELT versions
    Reentrant    \* bReentrant of the DBus bridge

Nobody == "nobody"   \* in place of a connection: no ghost

ASSUME SessionsAssumption ==
    /\ IsFiniteSet(Conns) /\ Nobody \notin Conns /\ Users \subseteq Nat
    /\ Guests \cap Users = {} /\ NoName \notin Users \cup Guests
    /\ SamePeer \subseteq SUBSET Conns
    /\ NumIds \in Nat \ {0} /\ MaxUsers \in Nat \ {0}
    /\ Compat \in Nat \ {0}
    /\ IsFiniteSet(CodecSets)
    /\ \A cs \in CodecSets : cs # {} /\ cs \subseteq Nat \ {0} /\ IsFiniteSet(cs)
    /\ Reentrant \in BOOLEAN

VARIABLES
    sState,      \* "none", "connected", "authenticated", "closed" (deleteLater called)
    uiSession,   \* number of a connection, 0 before it has one
    qqIds,       \* the queue of free session numbers
    qsName, iId, \* as Authenticate and the authenticator set them
    qlCodecs,    \* the versions a connection announced, {} before
    told,        \* the last CodecVersion sent to a connection
    server,      \* iCodecAlpha, iCodecBeta and bPreferAlpha
    stack,       \* connections in the midst of authenticate, the innermost first
    orphaned,    \* a call of authenticate returned for a connection that is gone
    doubled      \* history: a login found two connections to be its ghost

vars == <<sState, uiSession, qqIds, qsName, iId, qlCodecs, told, server, stack,
          orphaned, doubled>>

Names == Users \cup Guests
Versions == (UNION CodecSets) \cup {Compat}
Slots == [alpha : Versions \cup {0}, beta : Versions \cup {0}, prefer : BOOLEAN]
NoSlots == [alpha |-> 0, beta |-> 0, prefer |-> FALSE]

Authenticated == {c \in Conns : sState[c] = "authenticated"}

\* qhUsers holds a connection from newClient to connectionClosed.
qhUsers == {c \in Conns : sState[c] \in {"connected", "authenticated"}}

Init ==
    /\ sState = [c \in Conns |-> "none"]
    /\ uiSession = [c \in Conns |-> 0]
    /\ qqIds = [i \in 1 .. NumIds |-> i]
    /\ qsName = [c \in Conns |-> NoName]
    /\ iId = [c \in Conns |-> -1]
    /\ qlCodecs = [c \in Conns |-> {}]
    /\ told = [c \in Conns |-> NoSlots]
    /\ server = NoSlots
    /\ stack = <<>>
    /\ orphaned = FALSE
    /\ doubled = FALSE

\* The event loop delivers: nothing is suspended, or the suspended call runs it.
EventLoop == ~orphaned /\ (stack = <<>> \/ Reentrant)

-----------------------------------------------------------------------------
(* Connecting and closing *)

newClient(c) ==
    /\ EventLoop
    /\ sState[c] = "none" /\ c \notin Range(stack)
    /\ qqIds # <<>>
    /\ sState' = [sState EXCEPT ![c] = "connected"]
    /\ uiSession' = [uiSession EXCEPT ![c] = Head(qqIds)]
    /\ qqIds' = Tail(qqIds)
    /\ UNCHANGED <<qsName, iId, qlCodecs, told, server, stack, orphaned, doubled>>

\* Faulty variant: socketError and socketDisconnected each report the end.
ReportsEnd_Again(c) == sState[c] # "none"

\* socketError and socketDisconnected report the end of a connection once.
ReportsEnd(c) == c \in qhUsers

\* connectionClosed gives the number back at once; the object stays until the
\* event loop deletes it.  (Fields that nothing reads any more are cleared.)
connectionClosed(c) ==
    /\ EventLoop /\ ReportsEnd(c)
    /\ sState' = [sState EXCEPT ![c] = "closed"]
    /\ qqIds' = Append(qqIds, uiSession[c])
    /\ qsName' = [qsName EXCEPT ![c] = NoName]
    /\ iId' = [iId EXCEPT ![c] = -1]
    /\ qlCodecs' = [qlCodecs EXCEPT ![c] = {}]
    /\ told' = [told EXCEPT ![c] = NoSlots]
    /\ UNCHANGED <<uiSession, server, stack, orphaned, doubled>>

\* The event loop deletes the object.
Delete(c) ==
    /\ EventLoop
    /\ sState[c] = "closed"
    /\ sState' = [sState EXCEPT ![c] = "none"]
    /\ uiSession' = [uiSession EXCEPT ![c] = 0]
    /\ UNCHANGED <<qqIds, qsName, iId, qlCodecs, told, server, stack, orphaned, doubled>>

-----------------------------------------------------------------------------
(* Codecs (recheckCodecVersions) *)

\* Listed connections that announced version v, with c announcing cs.
Votes(v, c, cs, listed) == Cardinality({d \in listed : v \in IF d = c THEN cs ELSE qlCodecs[d]})

\* The version most of them have, the highest of these.
BestCodec(c, cs, listed) ==
    CHOOSE v \in Versions : \A w \in Versions :
        \/ Votes(v, c, cs, listed) > Votes(w, c, cs, listed)
        \/ Votes(v, c, cs, listed) = Votes(w, c, cs, listed) /\ v >= w

Preferred(slots) == IF slots.prefer THEN slots.alpha ELSE slots.beta

\* The slot that was not in use takes the new version, except that Compat is alpha.
Switched(version) ==
    LET prefer == version = Compat \/ ~server.prefer
    IN  [alpha |-> IF prefer THEN version ELSE server.alpha,
         beta |-> IF prefer THEN server.beta ELSE version,
         prefer |-> prefer]

\* Faulty variant: newcomers learn the codec before it is chosen anew.
NewcomerTold_Before(next) == server

\* What msgAuthenticate sends the newcomer, after recheckCodecVersions.
NewcomerTold(next) == next

\* c announces cs, and recheckCodecVersions runs.  A switch is announced to
\* those authenticated before, with the new version for both slots.
CodecsChosen(c, cs, listed) ==
    LET version == BestCodec(c, cs, listed)
        switch == Preferred(server) # version
        next == IF switch THEN Switched(version) ELSE server
        both == [alpha |-> version, beta |-> version, prefer |-> next.prefer]
    IN  /\ server' = next
        /\ told' = [d \in Conns |-> CASE d = c -> NewcomerTold(next)
                                      [] d \notin listed -> NoSlots
                                      [] switch /\ d \in Authenticated \cap listed -> both
                                      [] OTHER -> told[d]]
        /\ qlCodecs' = [d \in Conns |-> CASE d = c -> cs
                                          [] d \notin listed -> {}
                                          [] OTHER -> qlCodecs[d]]

-----------------------------------------------------------------------------
(* msgAuthenticate *)

\* Up to the call of authenticate.
msgAuthenticate(c, name) ==
    /\ EventLoop
    /\ sState[c] = "connected" /\ c \notin Range(stack)
    /\ qsName' = [qsName EXCEPT ![c] = name]
    /\ stack' = <<c>> \o stack
    /\ UNCHANGED <<sState, uiSession, qqIds, iId, qlCodecs, told, server, orphaned, doubled>>

\* authenticate: a registered user by password or certificate, whose name it
\* sets; -1 for a wrong password; -2 for a name it does not know.
AuthResults(name) ==
    {[id |-> u, name |-> u] : u \in Users} \cup {[id |-> -1, name |-> name]}
    \cup {[id |-> -2, name |-> n] : n \in {name} \cap Guests}

\* Faulty variant: the number is taken as it comes.
IdOf_Raw(result) == result.id

\* What iId becomes.
IdOf(result) == IF result.id >= 0 THEN result.id ELSE -1

\* The connections that may be found to be the ghost of c.
Ghosts(c, id, name) ==
    {u \in qhUsers \ {c} : (iId[u] >= 0 /\ iId[u] = id) \/ qsName[u] = name}

\* A guest takes a name over from the same peer only.
NameInUse(c, id, uOld) == id < 0 /\ uOld # Nobody /\ {c, uOld} \notin SamePeer

\* Faulty variant: the connection that logs in is not counted.
ServerFull_Others(id) == id # 0 /\ Cardinality(qhUsers) - 1 > MaxUsers

ServerFull(id) == id # 0 /\ Cardinality(qhUsers) > MaxUsers

\* Faulty variant: the ghost is left to its time-out.
Kicked_None(uOld) == {}

\* The ghost is disconnected by force, which runs connectionClosed at once.
Kicked(uOld) == {uOld} \ {Nobody}

\* The login is refused: reject, and a disconnection that comes later.
Reject(c, result) ==
    /\ qsName' = [qsName EXCEPT ![c] = result.name]
    /\ iId' = [iId EXCEPT ![c] = IdOf(result)]
    /\ UNCHANGED <<sState, uiSession, qqIds, qlCodecs, told, server, doubled>>

Accept(c, result, uOld, cs) ==
    LET ghost == Kicked(uOld)
    IN  /\ qsName' = [d \in Conns |-> CASE d = c -> result.name
                                        [] d \in ghost -> NoName
                                        [] OTHER -> qsName[d]]
        /\ iId' = [d \in Conns |-> CASE d = c -> IdOf(result)
                                     [] d \in ghost -> -1
                                     [] OTHER -> iId[d]]
        /\ sState' = [d \in Conns |-> CASE d = c -> "authenticated"
                                        [] d \in ghost -> "closed"
                                        [] OTHER -> sState[d]]
        /\ qqIds' = IF ghost = {} THEN qqIds ELSE Append(qqIds, uiSession[uOld])
        /\ CodecsChosen(c, cs, qhUsers \ ghost)
        /\ doubled' = (doubled \/ Cardinality(Ghosts(c, result.id, result.name)) > 1)
        /\ UNCHANGED uiSession

\* authenticate returns to the innermost call.  The first ghost that the hash
\* yields is uOld.  Names that are not valid, the password of the server and
\* bCertRequired may refuse any login but that of SuperUser.
Authenticate(c) ==
    /\ ~orphaned /\ stack # <<>> /\ Head(stack) = c
    /\ stack' = Tail(stack)
    /\ c \in qhUsers
    /\ \E result \in AuthResults(qsName[c]) :
         LET ghosts == Ghosts(c, result.id, result.name)
         IN  \E uOld \in IF ghosts = {} THEN {Nobody} ELSE ghosts :
               \/ result.id # 0 /\ Reject(c, result)
               \/ /\ result.id # -1
                  /\ ~NameInUse(c, result.id, uOld) /\ ~ServerFull(result.id)
                  /\ \E cs \in CodecSets : Accept(c, result, uOld, cs)
    /\ UNCHANGED orphaned

\* The connection was closed while authenticate waited; the code goes on with
\* the object all the same, and nothing is known of what follows.
Orphan(c) ==
    /\ ~orphaned /\ stack # <<>> /\ Head(stack) = c
    /\ stack' = Tail(stack)
    /\ c \notin qhUsers
    /\ orphaned' = TRUE
    /\ UNCHANGED <<sState, uiSession, qqIds, qsName, iId, qlCodecs, told, server, doubled>>

Next == \E c \in Conns :
    \/ newClient(c)
    \/ connectionClosed(c)
    \/ Delete(c)
    \/ \E name \in Names : msgAuthenticate(c, name)
    \/ Authenticate(c)
    \/ Orphan(c)

Spec == Init /\ [][Next]_vars

-----------------------------------------------------------------------------
(* Properties *)

\* Types of the variables.
TypeOK ==
    /\ sState \in [Conns -> {"none", "connected", "authenticated", "closed"}]
    /\ uiSession \in [Conns -> 0 .. NumIds]
    /\ qqIds \in Seq(1 .. NumIds)
    /\ qsName \in [Conns -> Names \cup {NoName}]
    /\ iId \in [Conns -> Users \cup {-1}]
    /\ qlCodecs \in [Conns -> CodecSets \cup {{}}]
    /\ told \in [Conns -> Slots]
    /\ server \in Slots
    /\ stack \in Seq(Conns)
    /\ orphaned \in BOOLEAN /\ doubled \in BOOLEAN

\* Every session number is either free, and queued once, or that of exactly
\* one connection in qhUsers (newClient takes it, connectionClosed returns it,
\* also when a socket reports its end twice and when a ghost is kicked from
\* within another login).
IdsConserved ==
    /\ \A i, j \in DOMAIN qqIds : i # j => qqIds[i] # qqIds[j]
    /\ \A c, d \in qhUsers : c # d => uiSession[c] # uiSession[d]
    /\ \A n \in 1 .. NumIds : n \in Range(qqIds) <=> ~ \E c \in qhUsers : uiSession[c] = n

\* No more than iMaxUsers users but for SuperUser get in, though the handlers
\* of other logins run between the start of a login and the test of the limit
\* (msgAuthenticate).
NeverTooMany == Cardinality({c \in Authenticated : iId[c] # 0}) <= MaxUsers

\* All users who are in speak the codec the server prefers: whatever the order
\* of logins, departures and switches, the last CodecVersion each was sent
\* names it (recheckCodecVersions, msgAuthenticate).
CodecsAgree == \A c \in Authenticated : Preferred(told[c]) = Preferred(server)

\* A registered user, or a name, has one session: ghosts are kicked and names
\* in use refused (msgAuthenticate).  The loop that looks for the ghost stops
\* at the first match, so this holds until a login finds two.
OnePerName == \A c, d \in Authenticated :
    c # d /\ ~doubled => qsName[c] # qsName[d] /\ (iId[c] >= 0 => iId[c] # iId[d])

\* Counterexamples: the same without the exception; the call of authenticate
\* returns to a connection that is still there; every user knows the server's
\* two codecs, as a newcomer is told them.
OneSession == \A c, d \in Authenticated :
    c # d => qsName[c] # qsName[d] /\ (iId[c] >= 0 => iId[c] # iId[d])
SessionThere == ~orphaned
SlotsAgree == \A c \in Authenticated : told[c] = server

=============================================================================
