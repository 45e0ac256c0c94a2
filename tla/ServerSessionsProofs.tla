------------------------ MODULE ServerSessionsProofs ------------------------
(***************************************************************************)
(* Proofs about ServerSessions for any number of connections, users and    *)
(* session numbers, whether or not the authenticator lets other handlers   *)
(* run: numbers are conserved, the limit of users holds, nobody is in      *)
(* twice, and all who are in prefer the server's codec.                    *)
(***************************************************************************)
EXTENDS ServerSessions, FiniteSetTheorems, WellFoundedInduction, TLAPS

(* The parts of the types that the other invariants rest on.               *)
TypeCore ==
    /\ sState \in [Conns -> {"none", "connected", "authenticated", "closed"}]
    /\ uiSession \in [Conns -> 0 .. NumIds]
    /\ qqIds \in Seq(1 .. NumIds)
    /\ qsName \in [Conns -> Names \cup {NoName}]
    /\ iId \in [Conns -> Users \cup {-1}]
    /\ DOMAIN told = Conns
    /\ stack \in Seq(Conns)
    /\ doubled \in BOOLEAN

(* A connection waits in at most one call of authenticate, and is not in    *)
(* while it waits.                                                         *)
Waiting ==
    /\ \A i, j \in DOMAIN stack : i # j => stack[i] # stack[j]
    /\ \A c \in Range(stack) : sState[c] # "authenticated"

(* Connections that are listed have a number.                               *)
Numbered == \A c \in qhUsers : uiSession[c] \in 1 .. NumIds

IInv ==
    /\ TypeCore /\ Waiting /\ Numbered
    /\ IdsConserved /\ NeverTooMany /\ CodecsAgree /\ OnePerName

-----------------------------------------------------------------------------
(* Queues without repetition *)

(* What is taken off such a queue is not left in it.                        *)
LEMMA Dequeued ==
    ASSUME NEW S, NEW q \in Seq(S), q # <<>>,
           \A i, j \in DOMAIN q : i # j => q[i] # q[j]
    PROVE  /\ Head(q) \in S
           /\ Tail(q) \in Seq(S)
           /\ \A i, j \in DOMAIN Tail(q) : i # j => Tail(q)[i] # Tail(q)[j]
           /\ Range(Tail(q)) = Range(q) \ {Head(q)}
<1>1. Head(q) = q[1] /\ 1 \in DOMAIN q /\ Tail(q) \in Seq(S) /\ Head(q) \in S
  OBVIOUS
<1>2. \A i \in DOMAIN Tail(q) : i + 1 \in DOMAIN q /\ i + 1 # 1 /\ Tail(q)[i] = q[i + 1] /\ i \in Nat
  OBVIOUS
<1>3. \A j \in DOMAIN q : j # 1 => j - 1 \in DOMAIN Tail(q) /\ Tail(q)[j - 1] = q[j]
  OBVIOUS
<1>4. \A i, j \in DOMAIN Tail(q) : i # j => Tail(q)[i] # Tail(q)[j]
  BY <1>2
<1>5. Range(Tail(q)) \subseteq Range(q) \ {Head(q)}
  BY <1>1, <1>2 DEF Range
<1>6. Range(q) \ {Head(q)} \subseteq Range(Tail(q))
  BY <1>1, <1>3 DEF Range
<1> QED BY <1>1, <1>4, <1>5, <1>6

(* What is put into a queue that does not hold it is there once.            *)
LEMMA Enqueued ==
    ASSUME NEW S, NEW q \in Seq(S), NEW x \in S, x \notin Range(q),
           \A i, j \in DOMAIN q : i # j => q[i] # q[j]
    PROVE  /\ Append(q, x) \in Seq(S)
           /\ \A i, j \in DOMAIN Append(q, x) : i # j => Append(q, x)[i] # Append(q, x)[j]
           /\ Range(Append(q, x)) = Range(q) \cup {x}
<1> DEFINE r == Append(q, x)
<1>1. r \in Seq(S) /\ DOMAIN q = 1 .. Len(q) /\ DOMAIN r = 1 .. Len(q) + 1 /\ Len(q) \in Nat
  OBVIOUS
<1>2. (\A i \in DOMAIN q : r[i] = q[i]) /\ r[Len(q) + 1] = x
  OBVIOUS
<1>3. \A i \in DOMAIN q : q[i] # x
  BY DEF Range
<1>4. ASSUME NEW i \in DOMAIN r, NEW j \in DOMAIN r, i # j PROVE r[i] # r[j]
  <2>1. CASE i \in DOMAIN q /\ j \in DOMAIN q
    BY <2>1, <1>2, <1>4
  <2>2. CASE i \notin DOMAIN q
    <3>1. i = Len(q) + 1 /\ j \in DOMAIN q
      BY <2>2, <1>1, <1>4
    <3> QED BY <3>1, <1>2, <1>3
  <2>3. CASE j \notin DOMAIN q
    <3>1. j = Len(q) + 1 /\ i \in DOMAIN q
      BY <2>3, <1>1, <1>4
    <3> QED BY <3>1, <1>2, <1>3
  <2> QED BY <2>1, <2>2, <2>3
<1>5. Range(r) \subseteq Range(q) \cup {x}
  <2> SUFFICES ASSUME NEW i \in DOMAIN r PROVE r[i] \in Range(q) \cup {x}
    BY DEF Range
  <2> QED BY <1>1, <1>2 DEF Range
<1>6. Range(q) \subseteq Range(r)
  BY <1>1, <1>2 DEF Range
<1>7. x \in Range(r)
  BY <1>1, <1>2 DEF Range
<1> QED BY <1>1, <1>4, <1>5, <1>6, <1>7

-----------------------------------------------------------------------------
(* Session numbers *)

(* A number given back becomes free, and stays conserved.                   *)
LEMMA GivenBack ==
    ASSUME TypeCore, Numbered, IdsConserved, NEW c \in qhUsers,
           qhUsers' = qhUsers \ {c}, UNCHANGED uiSession,
           qqIds' = Append(qqIds, uiSession[c])
    PROVE  qqIds' \in Seq(1 .. NumIds) /\ Numbered' /\ IdsConserved'
<1> DEFINE n == uiSession[c]
<1>1. n \in 1 .. NumIds /\ n \notin Range(qqIds)
  BY DEF Numbered, IdsConserved
<1>2. /\ qqIds' \in Seq(1 .. NumIds)
      /\ \A i, j \in DOMAIN qqIds' : i # j => qqIds'[i] # qqIds'[j]
      /\ Range(qqIds') = Range(qqIds) \cup {n}
  <2>1. qqIds \in Seq(1 .. NumIds) /\ \A i, j \in DOMAIN qqIds : i # j => qqIds[i] # qqIds[j]
    BY DEF TypeCore, IdsConserved
  <2>2. /\ Append(qqIds, n) \in Seq(1 .. NumIds)
        /\ \A i, j \in DOMAIN Append(qqIds, n) :
             i # j => Append(qqIds, n)[i] # Append(qqIds, n)[j]
        /\ Range(Append(qqIds, n)) = Range(qqIds) \cup {n}
    BY <1>1, <2>1, Enqueued
  <2> QED BY <2>2
<1>3. Numbered'
  BY DEF Numbered
<1>4. \A d, e \in qhUsers' : d # e => uiSession'[d] # uiSession'[e]
  BY DEF IdsConserved
<1>5. \A d \in qhUsers' : uiSession'[d] # n
  BY DEF IdsConserved
<1>6. ASSUME NEW m \in 1 .. NumIds
      PROVE  m \in Range(qqIds') <=> ~ \E d \in qhUsers' : uiSession'[d] = m
  <2>1. CASE m = n
    BY <2>1, <1>2, <1>5
  <2>2. CASE m # n
    <3>1. m \in Range(qqIds') <=> m \in Range(qqIds)
      BY <2>2, <1>2
    <3>2. (\E d \in qhUsers' : uiSession'[d] = m) <=> \E d \in qhUsers : uiSession[d] = m
      BY <2>2
    <3> QED BY <3>1, <3>2 DEF IdsConserved
  <2> QED BY <2>1, <2>2
<1> QED BY <1>2, <1>3, <1>4, <1>6 DEF IdsConserved

(* A number taken is no longer free.                                        *)
LEMMA TakenOff ==
    ASSUME TypeCore, Numbered, IdsConserved, NEW c \in Conns, newClient(c)
    PROVE  qqIds' \in Seq(1 .. NumIds) /\ Numbered' /\ IdsConserved'
<1> DEFINE n == Head(qqIds)
<1>1. /\ qqIds # <<>> /\ qqIds' = Tail(qqIds) /\ c \notin qhUsers
      /\ qhUsers' = qhUsers \cup {c}
      /\ uiSession'[c] = n /\ \A d \in qhUsers : uiSession'[d] = uiSession[d]
  BY DEF newClient, TypeCore, qhUsers
<1>2. /\ n \in 1 .. NumIds /\ qqIds' \in Seq(1 .. NumIds)
      /\ \A i, j \in DOMAIN qqIds' : i # j => qqIds'[i] # qqIds'[j]
      /\ Range(qqIds') = Range(qqIds) \ {n}
  <2>1. qqIds \in Seq(1 .. NumIds) /\ \A i, j \in DOMAIN qqIds : i # j => qqIds[i] # qqIds[j]
    BY DEF TypeCore, IdsConserved
  <2>2. /\ n \in 1 .. NumIds
        /\ Tail(qqIds) \in Seq(1 .. NumIds)
        /\ \A i, j \in DOMAIN Tail(qqIds) : i # j => Tail(qqIds)[i] # Tail(qqIds)[j]
        /\ Range(Tail(qqIds)) = Range(qqIds) \ {n}
    BY <1>1, <2>1, Dequeued
  <2> QED BY <1>1, <2>2
<1>3. n \in Range(qqIds)
  <2>1. n = qqIds[1] /\ 1 \in DOMAIN qqIds
    BY <1>1 DEF TypeCore
  <2> QED BY <2>1 DEF Range
<1>4. \A d \in qhUsers : uiSession[d] # n
  BY <1>2, <1>3 DEF IdsConserved
<1>5. Numbered'
  BY <1>1, <1>2 DEF Numbered
<1>6. \A d, e \in qhUsers' : d # e => uiSession'[d] # uiSession'[e]
  BY <1>1, <1>4 DEF IdsConserved
<1>7. ASSUME NEW m \in 1 .. NumIds
      PROVE  m \in Range(qqIds') <=> ~ \E d \in qhUsers' : uiSession'[d] = m
  <2>1. CASE m = n
    BY <2>1, <1>1, <1>2
  <2>2. CASE m # n
    <3>1. m \in Range(qqIds') <=> m \in Range(qqIds)
      BY <2>2, <1>2
    <3>2. (\E d \in qhUsers' : uiSession'[d] = m) <=> \E d \in qhUsers : uiSession[d] = m
      BY <2>2, <1>1
    <3> QED BY <3>1, <3>2 DEF IdsConserved
  <2> QED BY <2>1, <2>2
<1> QED BY <1>2, <1>5, <1>6, <1>7 DEF IdsConserved

(* Nothing happens to the numbers when no connection comes or goes.         *)
LEMMA NumbersKept ==
    ASSUME Numbered, IdsConserved, UNCHANGED qqIds, qhUsers' = qhUsers,
           \A d \in qhUsers : uiSession'[d] = uiSession[d]
    PROVE  Numbered' /\ IdsConserved'
BY DEF Numbered, IdsConserved

-----------------------------------------------------------------------------
(* Those who are in *)

Limited == {c \in Authenticated : iId[c] # 0}

LEMMA ListedFinite ==
    /\ IsFiniteSet(qhUsers) /\ Cardinality(qhUsers) \in Nat
    /\ IsFiniteSet(Limited) /\ Cardinality(Limited) \in Nat
<1>1. IsFiniteSet(Conns) /\ qhUsers \in SUBSET Conns /\ Limited \in SUBSET Conns
  BY SessionsAssumption DEF qhUsers, Limited, Authenticated
<1> QED BY <1>1, FS_Subset, FS_CardinalityType

(* Whatever happens to connections that are not in, those who stay in keep  *)
(* what was so of them.                                                    *)
LEMMA InsKept ==
    ASSUME NeverTooMany, CodecsAgree, OnePerName,
           Authenticated' \subseteq Authenticated,
           \A d \in Authenticated' : /\ qsName'[d] = qsName[d] /\ iId'[d] = iId[d]
                                    /\ told'[d] = told[d],
           UNCHANGED <<server, doubled>>
    PROVE  NeverTooMany' /\ CodecsAgree' /\ OnePerName'
<1>1. Limited' \in SUBSET Limited
  BY DEF Limited
<1>2. Cardinality(Limited') <= Cardinality(Limited)
  BY <1>1, ListedFinite, FS_Subset
<1>3. IsFiniteSet(Limited')
  BY <1>1, ListedFinite, FS_Subset
<1>4. Cardinality(Limited') \in Nat
  BY <1>3, FS_CardinalityType
<1>5. NeverTooMany'
  BY <1>2, <1>4, ListedFinite, SessionsAssumption DEF NeverTooMany, Limited
<1>6. CodecsAgree'
  BY DEF CodecsAgree, Preferred
<1>7. OnePerName'
  BY DEF OnePerName
<1> QED BY <1>5, <1>6, <1>7

(* Two ghosts are more than one.                                            *)
LEMMA TwoGhosts ==
    ASSUME NEW G \in SUBSET Conns, NEW d \in G, NEW e \in G, d # e
    PROVE  Cardinality(G) > 1
<1>1. IsFiniteSet(G) /\ Cardinality(G) \in Nat
  BY SessionsAssumption, FS_Subset, FS_CardinalityType
<1>2. Cardinality(G) # 0
  BY <1>1, FS_EmptySet
<1>3. Cardinality(G) # 1
  <2>1. SUFFICES ASSUME Cardinality(G) = 1 PROVE FALSE
    OBVIOUS
  <2>2. PICK x : G = {x}
    BY <1>1, <2>1, FS_Singleton
  <2> QED BY <2>2
<1> QED BY <1>1, <1>2, <1>3

(* Who is in after c was let in: c, and those in before but for the ghost.  *)
LEMMA Accepted ==
    ASSUME TypeCore, NEW c \in qhUsers, sState[c] = "connected",
           NEW result, NEW cs, NEW uOld \in (qhUsers \ {c}) \cup {Nobody},
           Accept(c, result, uOld, cs)
    PROVE  /\ Authenticated' = (Authenticated \ Kicked(uOld)) \cup {c}
           /\ qhUsers' = qhUsers \ Kicked(uOld)
           /\ qsName'[c] = result.name /\ iId'[c] = IdOf(result)
           /\ \A d \in Authenticated' \ {c} :
                qsName'[d] = qsName[d] /\ iId'[d] = iId[d]
<1>1. c \in Conns /\ c \notin Kicked(uOld)
  BY SessionsAssumption DEF qhUsers, Kicked
<1>2. \A d \in Conns :
        /\ sState'[d] = IF d = c THEN "authenticated"
                        ELSE IF d \in Kicked(uOld) THEN "closed" ELSE sState[d]
        /\ qsName'[d] = IF d = c THEN result.name
                        ELSE IF d \in Kicked(uOld) THEN NoName ELSE qsName[d]
        /\ iId'[d] = IF d = c THEN IdOf(result)
                     ELSE IF d \in Kicked(uOld) THEN -1 ELSE iId[d]
  <2>1. /\ sState' = [d \in Conns |-> CASE d = c -> "authenticated"
                                        [] d \in Kicked(uOld) -> "closed"
                                        [] OTHER -> sState[d]]
        /\ qsName' = [d \in Conns |-> CASE d = c -> result.name
                                        [] d \in Kicked(uOld) -> NoName
                                        [] OTHER -> qsName[d]]
        /\ iId' = [d \in Conns |-> CASE d = c -> IdOf(result)
                                     [] d \in Kicked(uOld) -> -1
                                     [] OTHER -> iId[d]]
    BY DEF Accept
  <2> TAKE d \in Conns
  <2> QED BY <1>1, <2>1
<1>3. Authenticated' = (Authenticated \ Kicked(uOld)) \cup {c}
  <2>1. \A d \in Conns : sState'[d] = "authenticated"
                         <=> d = c \/ (d \notin Kicked(uOld) /\ sState[d] = "authenticated")
    BY <1>1, <1>2
  <2> QED BY <1>1, <2>1 DEF Authenticated
<1>4. qhUsers' = qhUsers \ Kicked(uOld)
  <2>1. \A d \in Conns : sState'[d] \in {"connected", "authenticated"}
            <=> d \notin Kicked(uOld) /\ sState[d] \in {"connected", "authenticated"}
    BY <1>1, <1>2
  <2> QED BY <2>1 DEF qhUsers
<1>5. \A d \in Authenticated' \ {c} : d \in Conns /\ d \notin Kicked(uOld)
  BY <1>3 DEF Authenticated
<1> QED BY <1>1, <1>2, <1>3, <1>4, <1>5

(* The limit is tested before anybody but SuperUser gets in, with the       *)
(* newcomer counted, and the ghost that goes afterwards too.                *)
LEMMA AcceptedWithinLimit ==
    ASSUME TypeCore, NeverTooMany, NEW c \in qhUsers, sState[c] = "connected",
           NEW result, NEW cs, NEW uOld \in (qhUsers \ {c}) \cup {Nobody},
           result.id \in Int, ~ServerFull(result.id), Accept(c, result, uOld, cs)
    PROVE  NeverTooMany'
<1>0. /\ Authenticated' = (Authenticated \ Kicked(uOld)) \cup {c}
      /\ iId'[c] = IdOf(result)
      /\ \A d \in Authenticated' \ {c} : iId'[d] = iId[d]
  BY Accepted
<1>1. Authenticated \subseteq qhUsers /\ MaxUsers \in Nat
  BY SessionsAssumption DEF Authenticated, qhUsers
<1>2. CASE result.id = 0
  <2>1. Limited' \in SUBSET Limited
    BY <1>0, <1>2 DEF Limited, IdOf
  <2>2. Cardinality(Limited') <= Cardinality(Limited) /\ IsFiniteSet(Limited')
    BY <2>1, ListedFinite, FS_Subset
  <2>3. Cardinality(Limited') \in Nat
    BY <2>2, FS_CardinalityType
  <2> QED BY <2>2, <2>3, <1>1, ListedFinite DEF NeverTooMany, Limited
<1>3. CASE result.id # 0
  <2>1. Limited' \in SUBSET qhUsers
    BY <1>0, <1>1 DEF Limited
  <2>2. Cardinality(Limited') <= Cardinality(qhUsers) /\ IsFiniteSet(Limited')
    BY <2>1, ListedFinite, FS_Subset
  <2>3. Cardinality(Limited') \in Nat
    BY <2>2, FS_CardinalityType
  <2>4. Cardinality(qhUsers) <= MaxUsers
    BY <1>1, <1>3, ListedFinite DEF ServerFull
  <2> QED BY <2>2, <2>3, <2>4, <1>1, ListedFinite DEF NeverTooMany, Limited
<1> QED BY <1>2, <1>3

(* Whether or not the codec is switched, everybody who is in, and the one   *)
(* who gets in, was told last the one preferred from now on.                *)
LEMMA AcceptedWithCodec ==
    ASSUME TypeCore, CodecsAgree, NEW c \in qhUsers, sState[c] = "connected",
           NEW result, NEW cs, NEW uOld \in (qhUsers \ {c}) \cup {Nobody},
           Accept(c, result, uOld, cs)
    PROVE  CodecsAgree'
<1> DEFINE listed == qhUsers \ Kicked(uOld)
           version == BestCodec(c, cs, listed)
           switch == Preferred(server) # version
           next == IF switch THEN Switched(version) ELSE server
           both == [alpha |-> version, beta |-> version, prefer |-> next.prefer]
<1>0. Authenticated' = (Authenticated \ Kicked(uOld)) \cup {c}
  BY Accepted
<1>1. /\ server' = next
      /\ told' = [d \in Conns |-> CASE d = c -> next
                                    [] d \notin listed -> NoSlots
                                    [] switch /\ d \in Authenticated \cap listed -> both
                                    [] OTHER -> told[d]]
  BY DEF Accept, CodecsChosen, NewcomerTold
<1>2. Preferred(both) = version
  BY DEF Preferred
<1>3. /\ switch => Preferred(next) = version
      /\ ~switch => next = server
  BY DEF Preferred, Switched
<1> HIDE DEF both, version, next, switch, listed
<1>4. ASSUME NEW d \in Authenticated' PROVE Preferred(told'[d]) = Preferred(server')
  <2>1. d \in Conns
    BY <1>0 DEF Authenticated, qhUsers
  <2>2. CASE d = c
    <3>1. d \in listed /\ d \notin Authenticated
      BY <2>2, SessionsAssumption DEF listed, Kicked, qhUsers, Authenticated
    <3>2. told'[d] = next
      BY <1>1, <2>1, <2>2, <3>1
    <3> QED BY <1>1, <3>2
  <2>3. CASE d # c
    <3>1. d \in Authenticated /\ d \in listed
      BY <1>0, <2>3 DEF Authenticated, qhUsers, listed
    <3>2. CASE switch
      <4>1. told'[d] = both
        BY <1>1, <2>1, <2>3, <3>1, <3>2
      <4> QED BY <1>1, <1>2, <1>3, <3>2, <4>1
    <3>3. CASE ~switch
      <4>1. told'[d] = told[d]
        BY <1>1, <2>1, <2>3, <3>1, <3>3
      <4> QED BY <1>1, <1>3, <3>1, <3>3, <4>1 DEF CodecsAgree
    <3> QED BY <3>2, <3>3
  <2> QED BY <2>2, <2>3
<1>5. \A slots : Preferred(slots)' = Preferred(slots)
  BY DEF Preferred
<1> QED BY <1>4 DEF CodecsAgree, Preferred

(* If the one who gets in had one ghost, it was kicked; if it had two, the  *)
(* property makes no claim from then on.                                    *)
LEMMA AcceptedOnce ==
    ASSUME TypeCore, OnePerName, NEW c \in qhUsers, sState[c] = "connected",
           NEW result, NEW cs, NEW uOld,
           result.id \in Int,
           LET ghosts == Ghosts(c, result.id, result.name)
           IN  uOld \in IF ghosts = {} THEN {Nobody} ELSE ghosts,
           Accept(c, result, uOld, cs)
    PROVE  OnePerName'
<1> DEFINE G == Ghosts(c, result.id, result.name)
<1>1. G \in SUBSET Conns /\ G \subseteq qhUsers \ {c} /\ Nobody \notin Conns
  BY SessionsAssumption DEF Ghosts, qhUsers
<1>2. uOld \in (qhUsers \ {c}) \cup {Nobody}
  BY <1>1
<1>3. /\ Authenticated' = (Authenticated \ Kicked(uOld)) \cup {c}
      /\ qsName'[c] = result.name /\ iId'[c] = IdOf(result)
      /\ \A d \in Authenticated' \ {c} : qsName'[d] = qsName[d] /\ iId'[d] = iId[d]
  BY <1>2, Accepted
<1>4. doubled' = (doubled \/ Cardinality(G) > 1)
  BY DEF Accept
<1>5. SUFFICES ASSUME ~doubled' PROVE OnePerName'
  BY DEF OnePerName
<1>6. ASSUME NEW d \in Authenticated', d # c
      PROVE  qsName'[d] # qsName'[c] /\ (iId'[d] >= 0 => iId'[d] # iId'[c])
  <2>1. d \in Authenticated /\ d \in qhUsers /\ d \notin Kicked(uOld) /\ d \in Conns
    BY <1>3, <1>6 DEF Authenticated, qhUsers
  <2>2. iId[d] \in Int
    <3>1. iId[d] \in Users \cup {-1}
      BY <2>1 DEF TypeCore
    <3>2. \A u \in Users : u \in Int
      BY SessionsAssumption
    <3>3. -1 \in Int
      OBVIOUS
    <3> QED BY <3>1, <3>2, <3>3, Zenon
  <2>3. ASSUME d \in G PROVE FALSE
    <3>1. uOld \in G /\ uOld # d
      BY <1>1, <2>1, <2>3 DEF Kicked
    <3> QED BY <1>1, <1>4, <1>5, <2>3, <3>1, TwoGhosts
  <2>4. qsName[d] # result.name /\ ~(iId[d] >= 0 /\ iId[d] = result.id)
    BY <2>1, <1>6, <2>3 DEF Ghosts
  <2> QED BY <2>4, <1>3, <1>6, <2>2 DEF IdOf
<1>7. ASSUME NEW d \in Authenticated', NEW e \in Authenticated', d # e, d # c, e # c
      PROVE  qsName'[d] # qsName'[e] /\ (iId'[d] >= 0 => iId'[d] # iId'[e])
  <2>1. d \in Authenticated /\ e \in Authenticated /\ ~doubled
    BY <1>3, <1>4, <1>5, <1>7 DEF TypeCore
  <2> QED BY <2>1, <1>3, <1>7 DEF OnePerName
<1>8. ASSUME NEW d \in Authenticated', d # c
      PROVE  qsName'[c] # qsName'[d] /\ (iId'[c] >= 0 => iId'[c] # iId'[d])
  BY <1>6, <1>8
<1> QED BY <1>6, <1>7, <1>8 DEF OnePerName

-----------------------------------------------------------------------------
(* The invariant *)

LEMMA InvInit == Init => IInv
<1> SUFFICES ASSUME Init PROVE IInv
  OBVIOUS
<1>1. qhUsers = {} /\ Authenticated = {}
  BY DEF Init, qhUsers, Authenticated
<1>2. TypeCore
  <2>1. NumIds \in Nat
    BY SessionsAssumption
  <2>2. qqIds \in Seq(1 .. NumIds)
    BY <2>1 DEF Init
  <2>3. stack \in Seq(Conns)
    <3>1. stack = <<>>
      BY DEF Init
    <3> QED BY <3>1
  <2>4. DOMAIN told = Conns
    BY DEF Init
  <2>5. /\ sState \in [Conns -> {"none", "connected", "authenticated", "closed"}]
        /\ uiSession \in [Conns -> 0 .. NumIds]
        /\ qsName \in [Conns -> Names \cup {NoName}]
        /\ iId \in [Conns -> Users \cup {-1}]
    BY <2>1 DEF Init
  <2>6. doubled \in BOOLEAN
    BY DEF Init
  <2> QED BY <2>2, <2>3, <2>4, <2>5, <2>6 DEF TypeCore
<1>3. Waiting
  BY DEF Init, Waiting, Range
<1>4. IdsConserved
  <2>1. DOMAIN qqIds = 1 .. NumIds /\ \A i \in 1 .. NumIds : qqIds[i] = i
    BY DEF Init
  <2> QED BY <1>1, <2>1 DEF IdsConserved, Range
<1>5. NeverTooMany
  <2>1. Limited = {}
    BY <1>1 DEF Limited
  <2>2. Cardinality(Limited) = 0 /\ MaxUsers \in Nat
    BY <2>1, FS_EmptySet, SessionsAssumption
  <2>3. Cardinality(Limited) <= MaxUsers
    BY <2>2
  <2> QED BY <2>3 DEF NeverTooMany, Limited
<1> QED BY <1>1, <1>2, <1>3, <1>4, <1>5 DEF IInv, Numbered, CodecsAgree, OnePerName

(* What the calls under way look like when the innermost returns.           *)
LEMMA Returned ==
    ASSUME TypeCore, Waiting, NEW c \in Conns, stack # <<>>, Head(stack) = c,
           stack' = Tail(stack)
    PROVE  /\ stack' \in Seq(Conns)
           /\ \A i, j \in DOMAIN stack' : i # j => stack'[i] # stack'[j]
           /\ Range(stack') = Range(stack) \ {c}
           /\ sState[c] # "authenticated"
<1>1. stack \in Seq(Conns) /\ \A i, j \in DOMAIN stack : i # j => stack[i] # stack[j]
  BY DEF TypeCore, Waiting
<1>2. /\ Tail(stack) \in Seq(Conns)
      /\ \A i, j \in DOMAIN Tail(stack) : i # j => Tail(stack)[i] # Tail(stack)[j]
      /\ Range(Tail(stack)) = Range(stack) \ {c}
  BY <1>1, Dequeued
<1>3. c \in Range(stack)
  <2>1. c = stack[1] /\ 1 \in DOMAIN stack
    BY <1>1
  <2> QED BY <2>1 DEF Range
<1> QED BY <1>2, <1>3 DEF Waiting

(* What the calls under way look like when another one starts.              *)
LEMMA Called ==
    ASSUME TypeCore, Waiting, NEW c \in Conns, c \notin Range(stack),
           stack' = <<c>> \o stack
    PROVE  /\ stack' \in Seq(Conns)
           /\ \A i, j \in DOMAIN stack' : i # j => stack'[i] # stack'[j]
           /\ Range(stack') = Range(stack) \cup {c}
<1>1. /\ stack' \in Seq(Conns) /\ stack \in Seq(Conns) /\ Len(stack) \in Nat
      /\ DOMAIN stack' = 1 .. Len(stack) + 1 /\ DOMAIN stack = 1 .. Len(stack)
      /\ stack'[1] = c
  BY DEF TypeCore
<1>2. \A i \in DOMAIN stack' : i # 1 => i - 1 \in DOMAIN stack /\ stack'[i] = stack[i - 1]
  BY DEF TypeCore
<1>3. \A i \in DOMAIN stack : i + 1 \in DOMAIN stack' /\ stack'[i + 1] = stack[i]
  BY DEF TypeCore
<1>4. \A i \in DOMAIN stack : stack[i] # c
  BY DEF Range
<1>5. \A i, j \in DOMAIN stack : i # j => stack[i] # stack[j]
  BY DEF Waiting
<1>6. ASSUME NEW i \in DOMAIN stack', NEW j \in DOMAIN stack', i # j
      PROVE  stack'[i] # stack'[j]
  BY <1>1, <1>2, <1>4, <1>5, <1>6
<1>7. Range(stack') \subseteq Range(stack) \cup {c}
  BY <1>1, <1>2 DEF Range
<1>8. Range(stack) \subseteq Range(stack')
  BY <1>3 DEF Range
<1>9. c \in Range(stack')
  BY <1>1 DEF Range
<1> QED BY <1>1, <1>6, <1>7, <1>8, <1>9

(* What authenticate may answer.                                            *)
LEMMA Answers ==
    ASSUME TypeCore, NEW c \in Conns, NEW result \in AuthResults(qsName[c])
    PROVE  /\ result.id \in Int /\ result.name \in Names \cup {NoName}
           /\ IdOf(result) \in Users \cup {-1}
<1>1. qsName[c] \in Names \cup {NoName}
  BY DEF TypeCore
<1>2. \A u \in Users : u \in Int /\ u >= 0 /\ u \in Names
  BY SessionsAssumption DEF Names
<1>3. \/ result.id \in Users /\ result.name \in Users
      \/ result.id = -1 /\ result.name = qsName[c]
      \/ result.id = -2 /\ result.name = qsName[c]
  BY DEF AuthResults
<1> QED BY <1>1, <1>2, <1>3 DEF IdOf

LEMMA StepNewClient ==
    ASSUME IInv, NEW c \in Conns, newClient(c)
    PROVE  IInv'
<1> USE DEF IInv
<1>1. sState' = [sState EXCEPT ![c] = "connected"] /\ sState[c] = "none"
  BY DEF newClient
<1>2. qqIds' \in Seq(1 .. NumIds) /\ Numbered' /\ IdsConserved'
  BY TakenOff
<1>3. Authenticated' = Authenticated
  BY <1>1 DEF Authenticated, TypeCore
<1>4. NeverTooMany' /\ CodecsAgree' /\ OnePerName'
  BY <1>3, InsKept DEF newClient
<1>5. Head(qqIds) \in 1 .. NumIds /\ NumIds \in Nat
  BY SessionsAssumption DEF newClient, TypeCore
<1>6. TypeCore'
  BY <1>2, <1>5 DEF newClient, TypeCore
<1>7. Waiting'
  BY DEF newClient, Waiting, TypeCore
<1> QED BY <1>2, <1>4, <1>6, <1>7

LEMMA StepClosed ==
    ASSUME IInv, NEW c \in Conns, connectionClosed(c)
    PROVE  IInv'
<1> USE DEF IInv
<1>1. /\ c \in qhUsers /\ UNCHANGED <<uiSession, server, stack, doubled>>
      /\ sState' = [sState EXCEPT ![c] = "closed"]
      /\ qqIds' = Append(qqIds, uiSession[c])
      /\ qsName' = [qsName EXCEPT ![c] = NoName]
      /\ iId' = [iId EXCEPT ![c] = -1]
      /\ told' = [told EXCEPT ![c] = NoSlots]
  BY DEF connectionClosed, ReportsEnd
<1>2. qhUsers' = qhUsers \ {c}
  BY <1>1 DEF qhUsers, TypeCore
<1>3. qqIds' \in Seq(1 .. NumIds) /\ Numbered' /\ IdsConserved'
  BY <1>1, <1>2, GivenBack
<1>4. Authenticated' = Authenticated \ {c}
  BY <1>1 DEF Authenticated, TypeCore
<1>5. \A d \in Authenticated' : /\ qsName'[d] = qsName[d] /\ iId'[d] = iId[d]
                                /\ told'[d] = told[d]
  BY <1>1, <1>4 DEF Authenticated, TypeCore
<1>6. NeverTooMany' /\ CodecsAgree' /\ OnePerName'
  BY <1>1, <1>4, <1>5, InsKept
<1>7. TypeCore'
  BY <1>1, <1>3 DEF TypeCore
<1>8. Waiting'
  BY <1>1 DEF Waiting, TypeCore
<1> QED BY <1>3, <1>6, <1>7, <1>8

LEMMA StepDelete ==
    ASSUME IInv, NEW c \in Conns, Delete(c)
    PROVE  IInv'
<1> USE DEF IInv
<1>1. /\ sState[c] = "closed" /\ sState' = [sState EXCEPT ![c] = "none"]
      /\ uiSession' = [uiSession EXCEPT ![c] = 0]
      /\ UNCHANGED <<qqIds, qsName, iId, told, server, stack, doubled>>
  BY DEF Delete
<1>2. qhUsers' = qhUsers /\ Authenticated' = Authenticated /\ c \notin qhUsers
  BY <1>1 DEF qhUsers, Authenticated, TypeCore
<1>3. \A d \in qhUsers : uiSession'[d] = uiSession[d]
  BY <1>1, <1>2 DEF TypeCore, qhUsers
<1>4. Numbered' /\ IdsConserved'
  BY <1>1, <1>2, <1>3, NumbersKept
<1>5. NeverTooMany' /\ CodecsAgree' /\ OnePerName'
  BY <1>1, <1>2, InsKept
<1>6. TypeCore'
  BY <1>1, SessionsAssumption DEF TypeCore
<1>7. Waiting'
  BY <1>1 DEF Waiting, TypeCore
<1> QED BY <1>4, <1>5, <1>6, <1>7

LEMMA StepCall ==
    ASSUME IInv, NEW c \in Conns, NEW name \in Names, msgAuthenticate(c, name)
    PROVE  IInv'
<1> USE DEF IInv
<1>1. /\ sState[c] = "connected" /\ c \notin Range(stack)
      /\ stack' = <<c>> \o stack /\ qsName' = [qsName EXCEPT ![c] = name]
      /\ UNCHANGED <<sState, uiSession, qqIds, iId, told, server, doubled>>
  BY DEF msgAuthenticate
<1>2. qhUsers' = qhUsers /\ Authenticated' = Authenticated /\ c \notin Authenticated
  BY <1>1 DEF qhUsers, Authenticated
<1>3. /\ stack' \in Seq(Conns) /\ Range(stack') = Range(stack) \cup {c}
      /\ \A i, j \in DOMAIN stack' : i # j => stack'[i] # stack'[j]
  BY <1>1, Called
<1>4. Numbered' /\ IdsConserved'
  BY <1>1, <1>2, NumbersKept
<1>5. \A d \in Authenticated' : qsName'[d] = qsName[d]
  BY <1>1, <1>2 DEF TypeCore, Authenticated
<1>6. NeverTooMany' /\ CodecsAgree' /\ OnePerName'
  BY <1>1, <1>2, <1>5, InsKept
<1>7. TypeCore'
  BY <1>1, <1>3 DEF TypeCore
<1>8. Waiting'
  BY <1>1, <1>3 DEF Waiting
<1> QED BY <1>4, <1>6, <1>7, <1>8

LEMMA StepOrphan ==
    ASSUME IInv, NEW c \in Conns, Orphan(c)
    PROVE  IInv'
<1> USE DEF IInv
<1>1. /\ stack # <<>> /\ Head(stack) = c /\ stack' = Tail(stack)
      /\ UNCHANGED <<sState, uiSession, qqIds, qsName, iId, told, server, doubled>>
  BY DEF Orphan
<1>2. qhUsers' = qhUsers /\ Authenticated' = Authenticated
  BY <1>1 DEF qhUsers, Authenticated
<1>3. /\ stack' \in Seq(Conns) /\ Range(stack') = Range(stack) \ {c}
      /\ \A i, j \in DOMAIN stack' : i # j => stack'[i] # stack'[j]
  BY <1>1, Returned
<1>4. Numbered' /\ IdsConserved'
  BY <1>1, <1>2, NumbersKept
<1>5. NeverTooMany' /\ CodecsAgree' /\ OnePerName'
  BY <1>1, <1>2, InsKept
<1>6. TypeCore'
  BY <1>1, <1>3 DEF TypeCore
<1>7. Waiting'
  BY <1>1, <1>3 DEF Waiting
<1> QED BY <1>4, <1>5, <1>6, <1>7

(* A refusal changes the name and the number of one that is not in.         *)
LEMMA StepReject ==
    ASSUME IInv, NEW c \in Conns, stack # <<>>, Head(stack) = c, stack' = Tail(stack),
           NEW result \in AuthResults(qsName[c]), Reject(c, result)
    PROVE  IInv'
<1> USE DEF IInv
<1>1. /\ qsName' = [qsName EXCEPT ![c] = result.name]
      /\ iId' = [iId EXCEPT ![c] = IdOf(result)]
      /\ UNCHANGED <<sState, uiSession, qqIds, told, server, doubled>>
  BY DEF Reject
<1>2. /\ stack' \in Seq(Conns) /\ Range(stack') = Range(stack) \ {c}
      /\ \A i, j \in DOMAIN stack' : i # j => stack'[i] # stack'[j]
      /\ sState[c] # "authenticated"
  BY Returned
<1>3. qhUsers' = qhUsers /\ Authenticated' = Authenticated /\ c \notin Authenticated
  BY <1>1, <1>2 DEF qhUsers, Authenticated
<1>4. Numbered' /\ IdsConserved'
  BY <1>1, <1>3, NumbersKept
<1>5. \A d \in Authenticated' : qsName'[d] = qsName[d] /\ iId'[d] = iId[d]
  BY <1>1, <1>3 DEF TypeCore, Authenticated
<1>6. NeverTooMany' /\ CodecsAgree' /\ OnePerName'
  BY <1>1, <1>3, <1>5, InsKept
<1>7. TypeCore'
  BY <1>1, <1>2, Answers DEF TypeCore
<1>8. Waiting'
  BY <1>1, <1>2 DEF Waiting
<1> QED BY <1>4, <1>6, <1>7, <1>8

LEMMA StepAccept ==
    ASSUME IInv, NEW c \in qhUsers, stack # <<>>, Head(stack) = c, stack' = Tail(stack),
           NEW result \in AuthResults(qsName[c]), NEW cs, NEW uOld,
           LET ghosts == Ghosts(c, result.id, result.name)
           IN  uOld \in IF ghosts = {} THEN {Nobody} ELSE ghosts,
           ~ServerFull(result.id), Accept(c, result, uOld, cs)
    PROVE  IInv'
<1> USE DEF IInv
<1>1. c \in Conns /\ Nobody \notin Conns /\ sState[c] \in {"connected", "authenticated"}
  BY SessionsAssumption DEF qhUsers
<1>2. /\ stack' \in Seq(Conns) /\ Range(stack') = Range(stack) \ {c}
      /\ \A i, j \in DOMAIN stack' : i # j => stack'[i] # stack'[j]
      /\ sState[c] # "authenticated"
  BY <1>1, Returned
<1>3. sState[c] = "connected"
  BY <1>1, <1>2
<1>4. uOld \in (qhUsers \ {c}) \cup {Nobody}
  BY DEF Ghosts
<1>5. /\ result.id \in Int /\ result.name \in Names \cup {NoName}
      /\ IdOf(result) \in Users \cup {-1}
  BY <1>1, Answers
<1>6. NeverTooMany'
  BY <1>3, <1>4, <1>5, AcceptedWithinLimit
<1>7. CodecsAgree'
  BY <1>3, <1>4, AcceptedWithCodec
<1>8. OnePerName'
  BY <1>3, <1>5, AcceptedOnce
<1>9. /\ Authenticated' = (Authenticated \ Kicked(uOld)) \cup {c}
      /\ qhUsers' = qhUsers \ Kicked(uOld)
  BY <1>3, <1>4, Accepted
<1>10. /\ uiSession' = uiSession
       /\ qqIds' = IF Kicked(uOld) = {} THEN qqIds ELSE Append(qqIds, uiSession[uOld])
  BY DEF Accept
<1>11. qqIds' \in Seq(1 .. NumIds) /\ Numbered' /\ IdsConserved'
  <2>1. CASE uOld = Nobody
    <3>1. qhUsers' = qhUsers /\ qqIds' = qqIds
      BY <2>1, <1>9, <1>10 DEF Kicked
    <3> QED BY <3>1, <1>10, NumbersKept DEF TypeCore
  <2>2. CASE uOld # Nobody
    <3>1. /\ uOld \in qhUsers /\ qhUsers' = qhUsers \ {uOld}
          /\ qqIds' = Append(qqIds, uiSession[uOld])
      BY <2>2, <1>4, <1>9, <1>10 DEF Kicked
    <3> QED BY <3>1, <1>10, GivenBack
  <2> QED BY <2>1, <2>2
<1>12. TypeCore'
  <2>1. /\ sState' = [d \in Conns |-> CASE d = c -> "authenticated"
                                        [] d \in Kicked(uOld) -> "closed"
                                        [] OTHER -> sState[d]]
        /\ qsName' = [d \in Conns |-> CASE d = c -> result.name
                                        [] d \in Kicked(uOld) -> NoName
                                        [] OTHER -> qsName[d]]
        /\ iId' = [d \in Conns |-> CASE d = c -> IdOf(result)
                                     [] d \in Kicked(uOld) -> -1
                                     [] OTHER -> iId[d]]
    BY DEF Accept
  <2>2. c \notin Kicked(uOld)
    BY <1>1, <1>4 DEF Kicked
  <2>3. sState' \in [Conns -> {"none", "connected", "authenticated", "closed"}]
    BY <2>1, <2>2 DEF TypeCore
  <2>4. qsName' \in [Conns -> Names \cup {NoName}]
    BY <2>1, <2>2, <1>5 DEF TypeCore
  <2>5. iId' \in [Conns -> Users \cup {-1}]
    BY <2>1, <2>2, <1>5 DEF TypeCore
  <2>6. DOMAIN told' = Conns
    BY DEF Accept, CodecsChosen
  <2>7. doubled' \in BOOLEAN
    BY DEF Accept
  <2> QED BY <1>2, <1>10, <1>11, <2>3, <2>4, <2>5, <2>6, <2>7 DEF TypeCore
<1>13. Waiting'
  <2>1. \A d \in Range(stack') : d # c /\ d \notin Authenticated
    BY <1>2 DEF Waiting, Authenticated
  <2>2. \A d \in Range(stack') : d \in Conns
    BY <1>2 DEF Range
  <2> QED BY <1>2, <1>9, <2>1, <2>2 DEF Waiting, Authenticated
<1> QED BY <1>6, <1>7, <1>8, <1>11, <1>12, <1>13

LEMMA InvStep == IInv /\ [Next]_vars => IInv'
<1> SUFFICES ASSUME IInv, [Next]_vars PROVE IInv'
  OBVIOUS
<1>1. ASSUME NEW c \in Conns, newClient(c) PROVE IInv'
  BY <1>1, StepNewClient
<1>2. ASSUME NEW c \in Conns, connectionClosed(c) PROVE IInv'
  BY <1>2, StepClosed
<1>3. ASSUME NEW c \in Conns, Delete(c) PROVE IInv'
  BY <1>3, StepDelete
<1>4. ASSUME NEW c \in Conns, NEW name \in Names, msgAuthenticate(c, name) PROVE IInv'
  BY <1>4, StepCall
<1>5. ASSUME NEW c \in Conns, Authenticate(c) PROVE IInv'
  <2>1. /\ stack # <<>> /\ Head(stack) = c /\ stack' = Tail(stack)
        /\ c \in qhUsers
    BY <1>5 DEF Authenticate
  <2>2. PICK result \in AuthResults(qsName[c]) :
          LET ghosts == Ghosts(c, result.id, result.name)
          IN  \E uOld \in IF ghosts = {} THEN {Nobody} ELSE ghosts :
                \/ Reject(c, result)
                \/ ~ServerFull(result.id) /\ \E cs \in CodecSets : Accept(c, result, uOld, cs)
    BY <1>5 DEF Authenticate
  <2>3. CASE Reject(c, result)
    BY <2>1, <2>3, StepReject
  <2>4. ASSUME NEW uOld, NEW cs,
               LET ghosts == Ghosts(c, result.id, result.name)
               IN  uOld \in IF ghosts = {} THEN {Nobody} ELSE ghosts,
               ~ServerFull(result.id), Accept(c, result, uOld, cs)
        PROVE  IInv'
    BY <2>1, <2>4, StepAccept
  <2> QED BY <2>2, <2>3, <2>4
<1>6. ASSUME NEW c \in Conns, Orphan(c) PROVE IInv'
  BY <1>6, StepOrphan
<1>7. CASE UNCHANGED vars
  BY <1>7 DEF vars, IInv, TypeCore, Waiting, Numbered, IdsConserved, NeverTooMany,
              CodecsAgree, OnePerName, qhUsers, Authenticated
<1> QED BY <1>1, <1>2, <1>3, <1>4, <1>5, <1>6, <1>7 DEF Next

LEMMA Invariant == Spec => []IInv
BY InvInit, InvStep, PTL DEF Spec

(* No session number is lost or held twice, however logins nest, sockets    *)
(* report their end and ghosts are kicked (newClient, connectionClosed).    *)
THEOREM NumbersConserved == Spec => []IdsConserved
<1>1. IInv => IdsConserved
  BY DEF IInv
<1> QED BY <1>1, Invariant, PTL

(* The limit of users holds, although other logins run between the start of *)
(* a login and its test (msgAuthenticate).                                  *)
THEOREM LimitHolds == Spec => []NeverTooMany
<1>1. IInv => NeverTooMany
  BY DEF IInv
<1> QED BY <1>1, Invariant, PTL

(* All who are in were told last the codec that the server prefers          *)
(* (recheckCodecVersions, msgAuthenticate).                                 *)
THEOREM OneCodec == Spec => []CodecsAgree
<1>1. IInv => CodecsAgree
  BY DEF IInv
<1> QED BY <1>1, Invariant, PTL

(* Until a login finds two ghosts, nobody has two sessions under one name   *)
(* or number (msgAuthenticate).                                             *)
THEOREM OneSessionEach == Spec => []OnePerName
<1>1. IInv => OnePerName
  BY DEF IInv
<1> QED BY <1>1, Invariant, PTL

-----------------------------------------------------------------------------
(* The choice of a codec, and the rest of the types *)

(* w has the better claim to be chosen: more votes, or as many and higher.  *)
Beats(w, v, c, cs, listed) ==
    \/ Votes(w, c, cs, listed) > Votes(v, c, cs, listed)
    \/ Votes(w, c, cs, listed) = Votes(v, c, cs, listed) /\ w > v

(* A set of numbers has a smallest.                                         *)
LEMMA Least ==
    ASSUME NEW S \in SUBSET Nat, S # {}
    PROVE  \E x \in S : \A y \in S : x <= y
<1> DEFINE R == OpToRel(<, Nat)
<1>1. IsWellFoundedOn(R, Nat)
  BY NatLessThanWellFounded
<1>2. PICK x \in S : \A y \in S : <<y, x>> \notin R
  <2> HIDE DEF R
  <2> QED BY <1>1, WFMin
<1>3. \A y \in S : x \in Nat /\ y \in Nat /\ (y < x => <<y, x>> \in R)
  BY DEF OpToRel
<1> HIDE DEF R
<1>4. \A y \in S : ~(y < x)
  BY <1>2, <1>3, Zenon
<1>5. \A n, m \in Nat : ~(m < n) => n <= m
  OBVIOUS
<1> QED BY <1>3, <1>4, <1>5

(* The versions are finitely many numbers, of which there is one at least.  *)
LEMMA VersionsFinite ==
    Versions \in SUBSET Nat /\ IsFiniteSet(Versions) /\ Compat \in Versions
<1>1. \A v \in UNION CodecSets : v \in Nat
  BY SessionsAssumption
<1>2. IsFiniteSet(UNION CodecSets)
  BY SessionsAssumption, FS_UNION
<1>3. IsFiniteSet(Versions)
  BY <1>2, FS_AddElement DEF Versions
<1> QED BY <1>1, <1>3, SessionsAssumption DEF Versions

(* A version is chosen, and nothing beats it.  There is such a version: the *)
(* one that the fewest beat, as what beats one that beats it beats it.      *)
LEMMA BestExists ==
    ASSUME NEW c, NEW cs, NEW listed \in SUBSET Conns
    PROVE  /\ BestCodec(c, cs, listed) \in Versions
           /\ \A w \in Versions : ~Beats(w, BestCodec(c, cs, listed), c, cs, listed)
<1> DEFINE votes(v) == Votes(v, c, cs, listed)
           beaters(v) == {w \in Versions : Beats(w, v, c, cs, listed)}
           counts == {Cardinality(beaters(v)) : v \in Versions}
<1>1. \A v : votes(v) \in Nat
  <2> TAKE v
  <2>1. IsFiniteSet(listed)
    BY SessionsAssumption, FS_Subset
  <2>2. {d \in listed : v \in IF d = c THEN cs ELSE qlCodecs[d]} \in SUBSET listed
    OBVIOUS
  <2>3. IsFiniteSet({d \in listed : v \in IF d = c THEN cs ELSE qlCodecs[d]})
    BY <2>1, <2>2, FS_Subset
  <2> QED BY <2>3, FS_CardinalityType DEF Votes
<1>2. \A v : IsFiniteSet(beaters(v)) /\ Cardinality(beaters(v)) \in Nat
  <2> TAKE v
  <2>1. beaters(v) \in SUBSET Versions
    OBVIOUS
  <2> QED BY <2>1, VersionsFinite, FS_Subset, FS_CardinalityType
<1>3. counts \in SUBSET Nat /\ counts # {}
  BY <1>2, VersionsFinite
<1>4. PICK v \in Versions : \A w \in Versions : Cardinality(beaters(v)) <= Cardinality(beaters(w))
  <2>1. PICK n \in counts : \A m \in counts : n <= m
    <3> HIDE DEF counts
    <3> QED BY <1>3, Least
  <2> QED BY <2>1
<1>5. \A x, y \in Versions : x \in Nat /\ y \in Nat
  BY VersionsFinite
<1>6. ASSUME NEW w \in Versions, Beats(w, v, c, cs, listed) PROVE FALSE
  <2>1. beaters(w) \in SUBSET beaters(v)
    <3> SUFFICES ASSUME NEW x \in beaters(w) PROVE x \in beaters(v)
      OBVIOUS
    <3>1. votes(x) \in Nat /\ votes(w) \in Nat /\ votes(v) \in Nat
      BY <1>1
    <3>2. x \in Nat /\ w \in Nat /\ v \in Nat
      BY <1>5
    <3> QED BY <1>6, <3>1, <3>2 DEF Beats
  <2>2. w \in beaters(v)
    BY <1>6
  <2>3. w \notin beaters(w)
    <3>1. votes(w) \in Nat /\ w \in Nat
      BY <1>1, <1>5
    <3> QED BY <3>1 DEF Beats
  <2>4. beaters(v) # beaters(w)
    BY <2>2, <2>3
  <2> HIDE DEF beaters
  <2>5. Cardinality(beaters(w)) <= Cardinality(beaters(v))
    BY <2>1, <1>2, FS_Subset
  <2>6. Cardinality(beaters(v)) = Cardinality(beaters(w))
    BY <2>5, <1>2, <1>4
  <2> QED BY <2>1, <2>4, <2>6, <1>2, FS_Subset
<1>7. \A w \in Versions : \/ votes(v) > votes(w)
                          \/ votes(v) = votes(w) /\ v >= w
  <2> TAKE w \in Versions
  <2>1. votes(w) \in Nat /\ votes(v) \in Nat /\ w \in Nat /\ v \in Nat
    BY <1>1, <1>5
  <2>2. ~Beats(w, v, c, cs, listed)
    BY <1>6
  <2> QED BY <2>1, <2>2 DEF Beats
<1> DEFINE best == BestCodec(c, cs, listed)
<1>8. /\ best \in Versions
      /\ \A w \in Versions : \/ votes(best) > votes(w)
                             \/ votes(best) = votes(w) /\ best >= w
  BY <1>7 DEF BestCodec
<1>9. \A w \in Versions : ~Beats(w, best, c, cs, listed)
  <2> TAKE w \in Versions
  <2>1. votes(w) \in Nat /\ votes(best) \in Nat /\ w \in Nat /\ best \in Nat
    BY <1>1, <1>5, <1>8
  <2> HIDE DEF best
  <2> QED BY <1>8, <2>1 DEF Beats
<1> QED BY <1>8, <1>9

(* What the server and the clients know of codecs.                          *)
CodecTypes ==
    /\ qlCodecs \in [Conns -> CodecSets \cup {{}}]
    /\ told \in [Conns -> Slots]
    /\ server \in Slots
    /\ orphaned \in BOOLEAN

LEMMA NoSlotsTyped == NoSlots \in Slots
BY DEF NoSlots, Slots

(* Whoever gets in, versions that somebody announced are told.              *)
LEMMA AcceptedTypes ==
    ASSUME CodecTypes, NEW c \in qhUsers, NEW result, NEW cs \in CodecSets,
           NEW uOld \in (qhUsers \ {c}) \cup {Nobody},
           Accept(c, result, uOld, cs)
    PROVE  /\ qlCodecs' \in [Conns -> CodecSets \cup {{}}]
           /\ told' \in [Conns -> Slots]
           /\ server' \in Slots
<1> DEFINE listed == qhUsers \ Kicked(uOld)
           version == BestCodec(c, cs, listed)
           switch == Preferred(server) # version
           next == IF switch THEN Switched(version) ELSE server
           both == [alpha |-> version, beta |-> version, prefer |-> next.prefer]
<1>0. listed \in SUBSET Conns /\ c \in listed
  BY SessionsAssumption DEF qhUsers, Kicked
<1>1. /\ server' = next
      /\ told' = [d \in Conns |-> CASE d = c -> next
                                    [] d \notin listed -> NoSlots
                                    [] switch /\ d \in Authenticated \cap listed -> both
                                    [] OTHER -> told[d]]
      /\ qlCodecs' = [d \in Conns |-> CASE d = c -> cs
                                        [] d \notin listed -> {}
                                        [] OTHER -> qlCodecs[d]]
  BY DEF Accept, CodecsChosen, NewcomerTold
<1>2. version \in Versions
  <2> HIDE DEF listed
  <2> QED BY <1>0, BestExists
<1> HIDE DEF version
<1>3. Switched(version) \in Slots
  BY <1>2 DEF CodecTypes, Switched, Slots
<1>4. next \in Slots
  BY <1>3 DEF CodecTypes
<1>5. both \in Slots
  <2>1. next.prefer \in BOOLEAN
    BY <1>4 DEF Slots
  <2> QED BY <1>2, <2>1 DEF Slots
<1> HIDE DEF both, next, switch, listed
<1>6. told' \in [Conns -> Slots]
  <2>1. ASSUME NEW d \in Conns PROVE told'[d] \in Slots
    <3>1. told[d] \in Slots
      BY DEF CodecTypes
    <3> QED BY <1>0, <1>1, <1>4, <1>5, <3>1, NoSlotsTyped
  <2> QED BY <1>1, <2>1
<1>7. qlCodecs' \in [Conns -> CodecSets \cup {{}}]
  <2>1. ASSUME NEW d \in Conns PROVE qlCodecs'[d] \in CodecSets \cup {{}}
    <3>1. qlCodecs[d] \in CodecSets \cup {{}}
      BY DEF CodecTypes
    <3> QED BY <1>0, <1>1, <3>1
  <2> QED BY <1>1, <2>1
<1> QED BY <1>1, <1>4, <1>6, <1>7

LEMMA CodecTypesInit == Init => CodecTypes
BY NoSlotsTyped DEF Init, CodecTypes

LEMMA CodecTypesStep == CodecTypes /\ [Next]_vars => CodecTypes'
<1> SUFFICES ASSUME CodecTypes, [Next]_vars PROVE CodecTypes'
  OBVIOUS
<1>1. ASSUME NEW c \in Conns, newClient(c) PROVE CodecTypes'
  BY <1>1 DEF newClient, CodecTypes
<1>2. ASSUME NEW c \in Conns, connectionClosed(c) PROVE CodecTypes'
  BY <1>2, NoSlotsTyped DEF connectionClosed, CodecTypes
<1>3. ASSUME NEW c \in Conns, Delete(c) PROVE CodecTypes'
  BY <1>3 DEF Delete, CodecTypes
<1>4. ASSUME NEW c \in Conns, NEW name \in Names, msgAuthenticate(c, name) PROVE CodecTypes'
  BY <1>4 DEF msgAuthenticate, CodecTypes
<1>5. ASSUME NEW c \in Conns, Authenticate(c) PROVE CodecTypes'
  <2>1. c \in qhUsers /\ UNCHANGED orphaned
    BY <1>5 DEF Authenticate
  <2>2. PICK result \in AuthResults(qsName[c]) :
          LET ghosts == Ghosts(c, result.id, result.name)
          IN  \E uOld \in IF ghosts = {} THEN {Nobody} ELSE ghosts :
                \/ Reject(c, result)
                \/ \E cs \in CodecSets : Accept(c, result, uOld, cs)
    BY <1>5 DEF Authenticate
  <2>3. CASE Reject(c, result)
    BY <2>1, <2>3 DEF Reject, CodecTypes
  <2>4. ASSUME NEW uOld,
               LET ghosts == Ghosts(c, result.id, result.name)
               IN  uOld \in IF ghosts = {} THEN {Nobody} ELSE ghosts,
               NEW cs \in CodecSets, Accept(c, result, uOld, cs)
        PROVE  CodecTypes'
    <3>1. uOld \in (qhUsers \ {c}) \cup {Nobody}
      BY <2>4 DEF Ghosts
    <3>2. /\ qlCodecs' \in [Conns -> CodecSets \cup {{}}]
          /\ told' \in [Conns -> Slots]
          /\ server' \in Slots
      BY <2>1, <2>4, <3>1, AcceptedTypes
    <3> QED BY <2>1, <3>2 DEF CodecTypes
  <2> QED BY <2>2, <2>3, <2>4
<1>6. ASSUME NEW c \in Conns, Orphan(c) PROVE CodecTypes'
  BY <1>6 DEF Orphan, CodecTypes
<1>7. CASE UNCHANGED vars
  BY <1>7 DEF vars, CodecTypes
<1> QED BY <1>1, <1>2, <1>3, <1>4, <1>5, <1>6, <1>7 DEF Next

(* The variables have their types; in particular the codec that             *)
(* recheckCodecVersions chooses is always one, however few announced any.   *)
THEOREM TypeCorrect == Spec => []TypeOK
<1>1. IInv /\ CodecTypes => TypeOK
  BY DEF IInv, TypeCore, CodecTypes, TypeOK
<1> QED BY <1>1, Invariant, CodecTypesInit, CodecTypesStep, PTL DEF Spec

=============================================================================
