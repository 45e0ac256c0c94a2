------------------------ MODULE ServerChannelsProofs ------------------------
(***************************************************************************)
(* The channel tree for any number of channels, names and users: with RPC  *)
(* it stays a tree whose links are known at both ends; without, a restart  *)
(* brings back what is permanent, and temporary channels go.               *)
(***************************************************************************)
EXTENDS ServerChannels, FiniteSetTheorems, WellFoundedInduction, TLAPS

-----------------------------------------------------------------------------
(* Subtrees *)

\* S holds the sub-channels of its channels.
Closed(S, channels, parent) == \A y \in channels : parent[y] \in S => y \in S

\* A subtree is in every closed set that holds its top ...
LEMMA SubtreeLeast ==
  ASSUME NEW top, NEW channels, NEW parent, NEW S \in SUBSET channels,
         top \in S, Closed(S, channels, parent)
  PROVE  Subtree(top, channels, parent) \subseteq S
  BY DEF Subtree, Closed

\* ... and is one itself.
LEMMA SubtreeClosed ==
  ASSUME NEW top, NEW channels, NEW parent, top \in channels
  PROVE  /\ top \in Subtree(top, channels, parent)
         /\ Subtree(top, channels, parent) \subseteq channels
         /\ Closed(Subtree(top, channels, parent), channels, parent)
  <1> DEFINE T == Subtree(top, channels, parent)
  <1>1. top \in T /\ T \subseteq channels
    BY DEF Subtree
  <1>2. ASSUME NEW y \in channels, parent[y] \in T PROVE y \in T
    <2> SUFFICES ASSUME NEW S \in SUBSET channels, top \in S,
                        \A z \in channels : parent[z] \in S => z \in S
                 PROVE  y \in S
      BY DEF Subtree
    <2>1. parent[y] \in S
      BY <1>2 DEF Subtree
    <2> QED BY <2>1
  <1> QED BY <1>1, <1>2 DEF Closed

\* Whatever is in a subtree, but its top, has its parent there.
LEMMA SubtreeParent ==
  ASSUME NEW top, NEW channels, NEW parent, top \in channels,
         NEW y \in Subtree(top, channels, parent), y # top
  PROVE  parent[y] \in Subtree(top, channels, parent)
  <1> DEFINE T == Subtree(top, channels, parent)
  <1> SUFFICES ASSUME parent[y] \notin T PROVE FALSE
    OBVIOUS
  <1>1. top \in T /\ T \subseteq channels /\ Closed(T, channels, parent) /\ y \in T
    BY SubtreeClosed
  <1> HIDE DEF T
  <1>2. top \in T \ {y} /\ T \ {y} \in SUBSET channels
    BY <1>1
  <1>3. Closed(T \ {y}, channels, parent)
    BY <1>1 DEF Closed
  <1>4. T \subseteq T \ {y}
    BY <1>2, <1>3, SubtreeLeast DEF T
  <1> QED BY <1>1, <1>4

-----------------------------------------------------------------------------
(* The number of a new channel *)

\* NextId chooses one that exists.
LEMMA Least ==
  ASSUME NEW S \in SUBSET Nat, S # {}
  PROVE  \E x \in S : \A y \in S : x <= y
  <1> DEFINE R == OpToRel(<, Nat)
  <1>1. IsWellFoundedOn(R, Nat)
    BY NatLessThanWellFounded
  <1>2. PICK x \in S : \A y \in S : <<y, x>> \notin R
    <2> HIDE DEF R
    <2> QED BY <1>1, WFMin
  <1>3. \A y \in S : x \in Nat /\ y \in Nat /\ (y < x => <<y, x>> \in R)
    BY DEF OpToRel
  <1> HIDE DEF R
  <1>4. \A y \in S : ~(y < x)
    BY <1>2, <1>3, Zenon
  <1>5. \A n, m \in Nat : ~(m < n) => n <= m
    OBVIOUS
  <1>6. \A y \in S : x <= y
    BY <1>3, <1>4, <1>5
  <1> QED BY <1>6

LEMMA IdsNat == Ids \subseteq Nat /\ Root \in Ids /\ None \notin Ids /\ None # Root
  BY ChannelsAssumption DEF Ids, Root, None

\* It is that of no channel, in memory or in the database.
LEMMA NewId ==
  ASSUME IdLeft
  PROVE  NextId \in Ids /\ NextId \notin qhChannels /\ \A d \in DOMAIN dbParent : d < NextId
  <1> DEFINE free == {i \in Ids : i \notin qhChannels /\ \A d \in DOMAIN dbParent : d < i}
  <1>1. free \in SUBSET Nat /\ free # {}
    BY IdsNat DEF IdLeft
  <1>2. \E i \in free : \A j \in free : i <= j
    <2> HIDE DEF free
    <2> QED BY <1>1, Least
  <1>3. NextId \in free
    BY <1>2 DEF NextId
  <1> QED BY <1>3
-----------------------------------------------------------------------------
(* Types, and the shape of the tree, with and without RPC                    *)

TreeTypes ==
    /\ qhChannels \subseteq Ids /\ Root \in qhChannels
    /\ cParent \in [qhChannels -> qhChannels \cup {None}]
    /\ qsName \in [qhChannels -> Names]
    /\ bTemporary \in [qhChannels -> BOOLEAN]
LinkTypes == qhLinks \in [qhChannels -> SUBSET qhChannels]
UserTypes == cChannel \in [Users -> qhChannels \cup {None}]
PostTypes == posted \in Seq(Ids) /\ \A i \in DOMAIN posted : posted[i] # Root
DbTypes ==
    /\ DOMAIN dbParent \subseteq Ids /\ Root \in DOMAIN dbParent
    /\ dbParent \in [DOMAIN dbParent -> Ids \cup {None}]
    /\ dbName \in [DOMAIN dbParent -> Names]

RootStays == cParent[Root] = None /\ bTemporary[Root] = FALSE /\ dbParent[Root] = None

\* TreeOK as a principle of induction.
Tree ==
    \A S \in SUBSET qhChannels : Root \in S /\ Closed(S, qhChannels, cParent) => S = qhChannels

Shape ==
    /\ TreeTypes /\ LinkTypes /\ UserTypes /\ PostTypes /\ Len(posted) <= MaxEvents /\ DbTypes
    /\ RootStays /\ Tree /\ LinksSymmetric

\* It says the same as the smallest closed set.
LEMMA TreeIsTree == TreeTypes => (Tree <=> qhChannels = Below(Root))
  <1> SUFFICES ASSUME TreeTypes PROVE Tree <=> qhChannels = Below(Root)
    OBVIOUS
  <1>1. /\ Root \in Below(Root) /\ Below(Root) \subseteq qhChannels
        /\ Closed(Below(Root), qhChannels, cParent)
    BY SubtreeClosed DEF Below, TreeTypes
  <1>2. ASSUME Tree PROVE qhChannels = Below(Root)
    BY <1>1, <1>2 DEF Tree
  <1>3. ASSUME qhChannels = Below(Root) PROVE Tree
    <2> SUFFICES ASSUME NEW S \in SUBSET qhChannels, Root \in S, Closed(S, qhChannels, cParent)
                 PROVE  S = qhChannels
      BY DEF Tree
    <2>1. Below(Root) \subseteq S
      BY SubtreeLeast DEF Below
    <2> QED BY <1>3, <2>1
  <1> QED BY <1>2, <1>3

\* Every channel but the root has a parent.
LEMMA ParentThere ==
  ASSUME TreeTypes, Tree, NEW c \in qhChannels \ {Root}
  PROVE  cParent[c] \in qhChannels
  <1>1. qhChannels = Below(Root)
    BY TreeIsTree
  <1>2. c \in Below(Root)
    BY <1>1
  <1>3. cParent[c] \in Below(Root)
    BY <1>2, SubtreeParent DEF Below, TreeTypes
  <1> QED BY <1>1, <1>3

\* What is below a channel that is not the root: not the root, and not the
\* parent of the channel.
LEMMA BelowFacts ==
  ASSUME TreeTypes, RootStays, Tree, NEW c \in qhChannels \ {Root}
  PROVE  /\ c \in Below(c) /\ Below(c) \subseteq qhChannels
         /\ Closed(Below(c), qhChannels, cParent)
         /\ Root \notin Below(c)
         /\ cParent[c] \in qhChannels \ Below(c)
  <1>1. /\ c \in Below(c) /\ Below(c) \subseteq qhChannels
        /\ Closed(Below(c), qhChannels, cParent)
    BY SubtreeClosed DEF Below
  <1>2. Root \notin Below(c)
    <2> DEFINE S == qhChannels \ {Root}
    <2>1. Closed(S, qhChannels, cParent) /\ c \in S /\ S \in SUBSET qhChannels
      BY IdsNat DEF Closed, RootStays, TreeTypes
    <2>2. Below(c) \subseteq S
      <3> HIDE DEF S
      <3> QED BY <2>1, SubtreeLeast DEF Below
    <2> QED BY <2>2
  <1>3. cParent[c] \in qhChannels
    BY ParentThere
  <1>4. cParent[c] \notin Below(c)
    <2> SUFFICES ASSUME cParent[c] \in Below(c) PROVE FALSE
      OBVIOUS
    <2> DEFINE S == qhChannels \ Below(c)
    <2>1. Closed(S, qhChannels, cParent)
      <3> SUFFICES ASSUME NEW y \in qhChannels, cParent[y] \in S, y \in Below(c) PROVE FALSE
        BY DEF Closed
      <3>1. y # c
        OBVIOUS
      <3>2. cParent[y] \in Below(c)
        BY <3>1, SubtreeParent DEF Below
      <3> QED BY <3>2
    <2>2. Root \in S
      BY <1>2 DEF TreeTypes
    <2>3. S = qhChannels
      <3>1. S \in SUBSET qhChannels
        OBVIOUS
      <3> HIDE DEF S
      <3> QED BY <2>1, <2>2, <3>1 DEF Tree
    <2> QED BY <2>3, <1>1
  <1> QED BY <1>1, <1>2, <1>3, <1>4
-----------------------------------------------------------------------------
(* Every step keeps the shape                                                *)

\* A new channel hangs below one that is there, and nothing hangs below it.
LEMMA AddStep ==
  ASSUME TreeTypes, LinkTypes, DbTypes, RootStays, Tree, LinksSymmetric,
         NEW p \in qhChannels, NEW n \in Names, NEW temporary \in BOOLEAN,
         addChannel(p, n, temporary)
  PROVE  /\ TreeTypes' /\ LinkTypes' /\ DbTypes' /\ RootStays' /\ Tree' /\ LinksSymmetric'
         /\ qhChannels' = qhChannels \cup {NextId} /\ NextId \notin qhChannels
  <1> DEFINE id == NextId
  <1>1. id \in Ids /\ id \notin qhChannels /\ id # Root
    BY NewId DEF addChannel, TreeTypes
  <1>2. /\ qhChannels' = qhChannels \cup {id}
        /\ cParent' = With(cParent, id, p)
        /\ qsName' = With(qsName, id, n)
        /\ bTemporary' = With(bTemporary, id, temporary)
        /\ qhLinks' = With(qhLinks, id, {})
        /\ \/ UNCHANGED <<dbParent, dbName>>
           \/ dbParent' = With(dbParent, id, p) /\ dbName' = With(dbName, id, n)
    BY DEF addChannel
  <1> HIDE DEF id
  <1>3. TreeTypes'
    BY <1>1, <1>2 DEF TreeTypes, With
  <1>4. LinkTypes'
    BY <1>1, <1>2 DEF LinkTypes, TreeTypes, With
  <1>5. DbTypes'
    BY <1>1, <1>2 DEF DbTypes, TreeTypes, With
  <1>6. RootStays'
    BY <1>1, <1>2, IdsNat DEF RootStays, TreeTypes, DbTypes, With
  <1>7. Tree'
    <2> SUFFICES ASSUME NEW S \in SUBSET qhChannels', Root \in S,
                        Closed(S, qhChannels', cParent')
                 PROVE  S = qhChannels'
      BY DEF Tree
    <2>1. /\ DOMAIN cParent = qhChannels
          /\ cParent'[id] = p /\ \A y \in qhChannels : cParent'[y] = cParent[y]
      BY <1>1, <1>2 DEF TreeTypes, With
    <2>2. Closed(S \cap qhChannels, qhChannels, cParent)
      BY <1>2, <2>1 DEF Closed
    <2>3. S \cap qhChannels = qhChannels
      BY <2>2 DEF Tree, TreeTypes
    <2>4. id \in S
      BY <1>2, <2>1, <2>3 DEF Closed
    <2> QED BY <1>2, <2>3, <2>4
  <1>8. LinksSymmetric'
    <2>1. /\ qhLinks'[id] = {} /\ \A y \in qhChannels : qhLinks'[y] = qhLinks[y]
          /\ \A y \in qhChannels : id \notin qhLinks[y]
      BY <1>1, <1>2 DEF LinkTypes, With
    <2> QED BY <1>1, <1>2, <2>1 DEF LinksSymmetric
  <1> QED BY <1>1, <1>2, <1>3, <1>4, <1>5, <1>6, <1>7, <1>8 DEF id

\* c gets a parent that is not below it, or keeps its own.
LEMMA ChangeStep ==
  ASSUME TreeTypes, DbTypes, RootStays, Tree,
         NEW c \in qhChannels, NEW p, NEW n \in Names,
         p = cParent[c] \/ (p \in qhChannels /\ p \notin Below(c)),
         Changed(c, p, n)
  PROVE  TreeTypes' /\ DbTypes' /\ RootStays' /\ Tree'
  <1>1. /\ cParent' = [cParent EXCEPT ![c] = p]
        /\ qsName' = [qsName EXCEPT ![c] = n]
        /\ \/ UNCHANGED <<dbParent, dbName>>
           \/ /\ dbParent' = [dbParent EXCEPT ![c] = p]
              /\ dbName' = [dbName EXCEPT ![c] = n]
        /\ UNCHANGED <<qhChannels, bTemporary>>
    BY DEF Changed, updateChannel
  <1>2. p \in qhChannels \cup {None}
    BY DEF TreeTypes
  <1>3. TreeTypes'
    BY <1>1, <1>2 DEF TreeTypes
  <1>4. DbTypes'
    BY <1>1, <1>2 DEF DbTypes, TreeTypes
  <1>5. qhChannels = Below(Root)
    BY TreeIsTree
  <1>6. c = Root => p = None
    BY <1>5 DEF RootStays
  <1>7. RootStays'
    BY <1>1, <1>6 DEF RootStays, TreeTypes, DbTypes
  <1>8. Tree'
    <2>1. CASE p = cParent[c]
      <3>1. cParent' = cParent
        BY <1>1, <2>1 DEF TreeTypes
      <3> QED BY <1>1, <3>1 DEF Tree, Closed
    <2>2. CASE p # cParent[c]
      <3> SUFFICES ASSUME NEW S \in SUBSET qhChannels, Root \in S,
                          Closed(S, qhChannels, cParent')
                   PROVE  S = qhChannels
        BY <1>1 DEF Tree
      <3>1. /\ cParent'[c] = p /\ \A y \in qhChannels \ {c} : cParent'[y] = cParent[y]
            /\ p \in qhChannels /\ p \notin Below(c) /\ c # Root
        BY <1>1, <1>6, <2>2 DEF TreeTypes, RootStays
      <3>2. /\ c \in Below(c) /\ Below(c) \subseteq qhChannels
            /\ Closed(Below(c), qhChannels, cParent)
        BY <3>1, BelowFacts
      <3>3. Closed(S \cup Below(c), qhChannels, cParent)
        BY <3>1, <3>2 DEF Closed
      <3>4. S \cup Below(c) = qhChannels
        BY <3>2, <3>3 DEF Tree
      <3>5. c \in S
        BY <3>1, <3>4 DEF Closed
      <3>6. Closed(S, qhChannels, cParent)
        BY <3>1, <3>5 DEF Closed
      <3> QED BY <3>6 DEF Tree
    <2> QED BY <2>1, <2>2
  <1> QED BY <1>3, <1>4, <1>7, <1>8

\* A whole subtree goes, in memory, in the database and from the links.
LEMMA RemoveStep ==
  ASSUME TreeTypes, LinkTypes, UserTypes, DbTypes, RootStays, Tree, LinksSymmetric,
         NEW c \in qhChannels \ {Root}, NEW pending, removeChannel(c, pending)
  PROVE  /\ TreeTypes' /\ LinkTypes' /\ UserTypes' /\ DbTypes' /\ RootStays' /\ Tree'
         /\ LinksSymmetric'
  <1> DEFINE gone == Below(c)
  <1>1. /\ c \in gone /\ gone \subseteq qhChannels /\ Closed(gone, qhChannels, cParent)
        /\ Root \notin gone /\ cParent[c] \in qhChannels \ gone
    BY BelowFacts
  <1>2. /\ qhChannels' = qhChannels \ gone
        /\ cParent' = Without(cParent, gone)
        /\ qsName' = Without(qsName, gone)
        /\ bTemporary' = Without(bTemporary, gone)
        /\ qhLinks' = [y \in qhChannels \ gone |-> qhLinks[y] \ gone]
        /\ cChannel' = [u \in Users |-> IF cChannel[u] \in gone THEN cParent[c] ELSE cChannel[u]]
        /\ dbParent' = Without(dbParent, gone)
        /\ dbName' = Without(dbName, gone)
    BY DEF removeChannel, LinksWithout, Refuge, RowsWithout
  <1> HIDE DEF gone
  <1>3. \A y \in qhChannels \ gone : cParent[y] \notin gone
    BY <1>1 DEF Closed
  <1>4. TreeTypes'
    BY <1>1, <1>2, <1>3 DEF TreeTypes, Without
  <1>5. LinkTypes' /\ UserTypes'
    BY <1>1, <1>2 DEF LinkTypes, UserTypes
  <1>6. DbTypes'
    BY <1>1, <1>2 DEF DbTypes, Without
  <1>7. RootStays'
    BY <1>1, <1>2 DEF RootStays, TreeTypes, DbTypes, Without
  <1>8. Tree'
    <2> SUFFICES ASSUME NEW S \in SUBSET qhChannels', Root \in S,
                        Closed(S, qhChannels', cParent')
                 PROVE  S = qhChannels'
      BY DEF Tree
    <2>1. \A y \in qhChannels \ gone : cParent'[y] = cParent[y]
      BY <1>2 DEF TreeTypes, Without
    <2>2. Closed(S \cup gone, qhChannels, cParent)
      BY <1>1, <1>2, <1>3, <2>1 DEF Closed
    <2>3. S \cup gone = qhChannels
      BY <1>1, <1>2, <2>2 DEF Tree
    <2> QED BY <1>2, <2>3
  <1>9. LinksSymmetric'
    BY <1>2 DEF LinksSymmetric, LinkTypes
  <1> QED BY <1>4, <1>5, <1>6, <1>7, <1>8, <1>9

LEMMA Concatenation ==
  ASSUME NEW T, NEW a \in Seq(T), NEW b \in Seq(T)
  PROVE  /\ a \o b \in Seq(T) /\ Len(a \o b) = Len(a) + Len(b)
         /\ \A i \in 1 .. Len(a \o b) :
                (a \o b)[i] = IF i <= Len(a) THEN a[i] ELSE b[i - Len(a)]
  OBVIOUS

\* The users of the channels that go bound the removals that are posted.
LEMMA RemovePosts ==
  ASSUME UserTypes, TreeTypes,
         NEW c \in qhChannels, Root \notin Below(c), NEW pending \in Seq(Ids),
         \A i \in DOMAIN pending : pending[i] # Root,
         removeChannel(c, pending)
  PROVE  PostTypes' /\ Len(posted') <= Len(pending) + Cardinality(Users)
  <1> DEFINE emptied == {x \in Below(c) : bTemporary[x] /\ UsersIn(x) # {}}
  <1>1. PICK order \in SetToSeqs(emptied) : posted' = pending \o order
    BY DEF removeChannel
  <1>2. emptied \subseteq Ids \ {Root}
    BY DEF Below, Subtree, TreeTypes
  <1>3. \A x \in emptied : \E u \in Users : cChannel[u] = x
    BY DEF UsersIn
  <1> HIDE DEF emptied
  <1>4. IsFiniteSet(emptied) /\ Cardinality(emptied) <= Cardinality(Users)
    <2> DEFINE us == {u \in Users : cChannel[u] \in emptied}
               f == [u \in us |-> cChannel[u]]
    <2>1. IsFiniteSet(us) /\ Cardinality(us) <= Cardinality(Users)
      BY FS_Subset, ChannelsAssumption
    <2>2. f \in Surjection(us, emptied)
      BY <1>3 DEF Surjection
    <2>3. IsFiniteSet(emptied) /\ Cardinality(emptied) <= Cardinality(us)
      <3> HIDE DEF f, us
      <3> QED BY <2>1, <2>2, FS_Surjection
    <2> HIDE DEF us
    <2>4. Cardinality(us) \in Nat /\ Cardinality(Users) \in Nat /\ Cardinality(emptied) \in Nat
      BY <2>1, <2>3, FS_CardinalityType, ChannelsAssumption
    <2> QED BY <2>1, <2>3, <2>4
  <1>5. Cardinality(emptied) \in Nat /\ Cardinality(Users) \in Nat
    BY <1>4, FS_CardinalityType, ChannelsAssumption
  <1>6. order \in [1 .. Cardinality(emptied) -> emptied]
    BY <1>1 DEF SetToSeqs
  <1>7. order \in Seq(Ids) /\ Len(order) = Cardinality(emptied)
        /\ \A i \in DOMAIN order : order[i] # Root
    BY <1>2, <1>5, <1>6
  <1>8. posted' \in Seq(Ids) /\ Len(posted') = Len(pending) + Len(order)
        /\ \A i \in 1 .. Len(posted') :
              posted'[i] = IF i <= Len(pending) THEN pending[i] ELSE order[i - Len(pending)]
    BY <1>1, <1>7, Concatenation
  <1>9. ASSUME NEW i \in DOMAIN posted' PROVE posted'[i] # Root
    <2>1. i \in 1 .. (Len(pending) + Len(order)) /\ Len(pending) \in Nat /\ Len(order) \in Nat
      BY <1>7, <1>8
    <2>2. CASE i <= Len(pending)
      <3>1. i \in DOMAIN pending /\ posted'[i] = pending[i]
        BY <1>8, <2>1, <2>2
      <3> QED BY <3>1
    <2>3. CASE ~(i <= Len(pending))
      <3>1. i - Len(pending) \in 1 .. Len(order)
        BY <2>1, <2>3
      <3>2. i - Len(pending) \in DOMAIN order /\ posted'[i] = order[i - Len(pending)]
        BY <1>7, <1>8, <2>1, <2>3, <3>1
      <3> QED BY <1>7, <3>2
    <2> QED BY <2>2, <2>3
  <1>10. Len(pending) \in Nat
    BY <1>8
  <1> QED BY <1>4, <1>5, <1>7, <1>8, <1>9, <1>10 DEF PostTypes

\* What is read back hangs together because it is read from the root on.
LEMMA StartedStep ==
  ASSUME DbTypes', dbParent'[Root] = None, Started
  PROVE  /\ TreeTypes' /\ LinkTypes' /\ UserTypes' /\ PostTypes' /\ Len(posted') <= MaxEvents
         /\ RootStays' /\ Tree' /\ LinksSymmetric'
  <1>1. /\ Root \in Stored' /\ Stored' \subseteq DOMAIN dbParent'
        /\ Closed(Stored', DOMAIN dbParent', dbParent')
    BY SubtreeClosed DEF Stored, DbTypes
  <1>2. \A y \in Stored' \ {Root} : dbParent'[y] \in Stored'
    BY SubtreeParent DEF Stored, DbTypes
  <1>3. /\ qhChannels' = Stored'
        /\ cParent' = [c \in Stored' |-> dbParent'[c]]
        /\ qsName' = [c \in Stored' |-> dbName'[c]]
        /\ bTemporary' = [c \in Stored' |-> FALSE]
        /\ qhLinks' = [c \in Stored' |->
               {l \in Stored' : <<c, l>> \in dbLinks' \/ <<l, c>> \in dbLinks'}]
        /\ cChannel' = [u \in Users |-> None]
        /\ posted' = <<>>
    BY DEF Started, Row
  <1>4. TreeTypes'
    BY <1>1, <1>2, <1>3 DEF TreeTypes, DbTypes
  <1>5. LinkTypes' /\ UserTypes'
    BY <1>3 DEF LinkTypes, UserTypes
  <1>6. PostTypes' /\ Len(posted') <= MaxEvents
    BY <1>3, ChannelsAssumption DEF PostTypes
  <1>7. RootStays'
    BY <1>1, <1>3 DEF RootStays
  <1>8. Tree'
    <2> SUFFICES ASSUME NEW S \in SUBSET Stored', Root \in S, Closed(S, Stored', cParent')
                 PROVE  S = Stored'
      BY <1>3 DEF Tree
    <2>1. Closed(S, DOMAIN dbParent', dbParent')
      BY <1>1, <1>3 DEF Closed
    <2>2. Stored' \subseteq S
      BY <1>1, <2>1, SubtreeLeast DEF Stored
    <2> QED BY <2>2
  <1>9. LinksSymmetric'
    BY <1>3 DEF LinksSymmetric
  <1> QED BY <1>4, <1>5, <1>6, <1>7, <1>8, <1>9

\* A removal cut short takes rows away, the root's never.
LEMMA CutStep ==
  ASSUME TreeTypes, DbTypes, RootStays, Tree,
         NEW c \in qhChannels \ {Root}, NEW gone \in CutRemoval(c), RowsWithout(gone)
  PROVE  DbTypes' /\ dbParent'[Root] = None
  <1>1. Root \notin gone
    BY BelowFacts DEF CutRemoval
  <1>2. dbParent' = Without(dbParent, gone) /\ dbName' = Without(dbName, gone)
    BY DEF RowsWithout
  <1> QED BY <1>1, <1>2 DEF DbTypes, RootStays, Without

\* The one user who goes makes room for at most one event, never for the root's.
LEMMA PostedFacts ==
  ASSUME TreeTypes, UserTypes, RootStays, PostTypes, Len(posted) < MaxEvents,
         NEW u \in Online, posted' = PostedIfEmptied(u)
  PROVE  PostTypes' /\ Len(posted') <= MaxEvents
  <1>1. posted \in Seq(Ids) /\ Len(posted) \in Nat /\ MaxEvents \in Nat
    BY ChannelsAssumption DEF PostTypes
  <1>2. CASE posted' = posted
    BY <1>1, <1>2 DEF PostTypes
  <1>3. CASE LeftBehind({u}, cChannel[u]) /\ posted' = Append(posted, cChannel[u])
    <2>1. u \in Users /\ cChannel[u] \in qhChannels
      BY DEF Online, UserTypes
    <2>2. cChannel[u] \in Ids /\ cChannel[u] # Root
      BY <1>3, <2>1 DEF LeftBehind, RootStays, TreeTypes
    <2>3. posted' \in Seq(Ids) /\ Len(posted') = Len(posted) + 1
      BY <1>1, <1>3, <2>2
    <2>4. \A i \in DOMAIN posted' : posted'[i] # Root
      BY <1>1, <1>3, <2>2 DEF PostTypes
    <2> QED BY <1>1, <2>3, <2>4 DEF PostTypes
  <1> QED BY <1>2, <1>3 DEF PostedIfEmptied

\* Links are made and broken at both ends, by clients ...
LEMMA LinkStep ==
  ASSUME TreeTypes, LinkTypes, LinksSymmetric, NEW c \in qhChannels, NEW l \in qhChannels,
         qhChannels' = qhChannels, qhLinks' = linked(c, l) \/ qhLinks' = unlinked(c, l)
  PROVE  LinkTypes' /\ LinksSymmetric'
  <1>1. CASE qhLinks' = linked(c, l)
    <2>1. LinkTypes'
      BY <1>1 DEF LinkTypes, linked
    <2>2. LinksSymmetric'
      BY <1>1 DEF LinkTypes, LinksSymmetric, linked
    <2> QED BY <2>1, <2>2
  <1>2. CASE qhLinks' = unlinked(c, l)
    <2>1. LinkTypes'
      BY <1>2 DEF LinkTypes, unlinked
    <2>2. LinksSymmetric'
      BY <1>2 DEF LinkTypes, LinksSymmetric, unlinked
    <2> QED BY <2>1, <2>2
  <1> QED BY <1>1, <1>2

\* ... and by setChannelState.
LEMMA RpcLinkStep ==
  ASSUME TreeTypes, LinkTypes, LinksSymmetric, NEW c \in qhChannels,
         NEW p, NEW n, NEW links \in SUBSET qhChannels, RpcSetState(c, p, n, links)
  PROVE  LinkTypes' /\ LinksSymmetric'
  <1> DEFINE add == links \ qhLinks[c]
  <1>1. /\ qhChannels' = qhChannels
        /\ qhLinks' = [x \in qhChannels |->
               (IF x = c THEN qhLinks[c] \cup add ELSE qhLinks[x])
               \cup (IF x \in add THEN {c} ELSE {})]
    BY DEF RpcSetState, Changed
  <1> HIDE DEF add
  <1>2. add \subseteq qhChannels
    BY DEF add
  <1>3. LinkTypes'
    BY <1>1, <1>2 DEF LinkTypes
  <1>4. LinksSymmetric'
    BY <1>1, <1>2 DEF LinkTypes, LinksSymmetric
  <1> QED BY <1>3, <1>4

-----------------------------------------------------------------------------
LEMMA ShapeInit == Init => Shape
  <1> SUFFICES ASSUME Init PROVE Shape
    OBVIOUS
  <1>1. TreeTypes /\ LinkTypes /\ UserTypes
    BY IdsNat DEF Init, TreeTypes, LinkTypes, UserTypes
  <1>2. PostTypes /\ Len(posted) <= MaxEvents
    BY ChannelsAssumption DEF Init, PostTypes
  <1>3. DbTypes /\ RootStays
    BY IdsNat DEF Init, DbTypes, RootStays
  <1>4. Tree
    BY DEF Init, Tree
  <1>5. LinksSymmetric
    BY DEF Init, LinksSymmetric
  <1> QED BY <1>1, <1>2, <1>3, <1>4, <1>5 DEF Shape

LEMMA ShapeStep == Shape /\ [Next]_vars => Shape'
  <1> SUFFICES ASSUME Shape, [Next]_vars PROVE Shape'
    OBVIOUS
  <1> USE DEF Shape
  <1>1. ASSUME NEW u \in Users, Disconnect(u) PROVE Shape'
    <2>1. UNCHANGED <<tree, qhLinks, db>> /\ u \in Online
      BY <1>1 DEF Disconnect
    <2>2. PostTypes' /\ Len(posted') <= MaxEvents
      BY <1>1, PostedFacts DEF Disconnect
    <2>3. UserTypes'
      BY <1>1, <2>1 DEF Disconnect, UserTypes, tree
    <2> QED BY <2>1, <2>2, <2>3
        DEF tree, db, TreeTypes, LinkTypes, DbTypes, RootStays, Tree, Closed, LinksSymmetric
  <1>2. ASSUME NEW u \in Users, NEW c \in qhChannels, Connect(u, c) PROVE Shape'
    <2>1. UNCHANGED <<tree, qhLinks, posted, db>> /\ UserTypes'
      BY <1>2 DEF Connect, UserTypes, tree
    <2> QED BY <2>1
        DEF tree, db, TreeTypes, LinkTypes, PostTypes, DbTypes, RootStays, Tree, Closed,
            LinksSymmetric
  <1>3. ASSUME NEW u \in Users, NEW c \in qhChannels, Enter(u, c) PROVE Shape'
    <2>1. UNCHANGED <<tree, qhLinks, db>> /\ u \in Online
      BY <1>3 DEF Enter
    <2>2. PostTypes' /\ Len(posted') <= MaxEvents
      BY <1>3, PostedFacts DEF Enter
    <2>3. UserTypes'
      BY <1>3, <2>1 DEF Enter, UserTypes, tree
    <2> QED BY <2>1, <2>2, <2>3
        DEF tree, db, TreeTypes, LinkTypes, DbTypes, RootStays, Tree, Closed, LinksSymmetric
  <1>4. ASSUME NEW u \in Users, NEW p \in qhChannels, NEW n \in Names, NEW temporary \in BOOLEAN,
               Create(u, p, n, temporary)
        PROVE  Shape'
    <2>1. addChannel(p, n, temporary)
      BY <1>4 DEF Create
    <2>2. /\ TreeTypes' /\ LinkTypes' /\ DbTypes' /\ RootStays' /\ Tree' /\ LinksSymmetric'
          /\ qhChannels' = qhChannels \cup {NextId}
      BY <2>1, AddStep
    <2>3. \/ cChannel' = [cChannel EXCEPT ![u] = NextId] /\ posted' = PostedIfEmptied(u)
          \/ UNCHANGED <<cChannel, posted>>
      BY <1>4 DEF Create
    <2>4. UserTypes'
      BY <2>2, <2>3 DEF UserTypes
    <2>5. PostTypes' /\ Len(posted') <= MaxEvents
      <3>1. CASE posted' = PostedIfEmptied(u)
        BY <1>4, <3>1, PostedFacts DEF Create
      <3>2. CASE UNCHANGED posted
        BY <3>2 DEF PostTypes
      <3> QED BY <2>3, <3>1, <3>2
    <2> QED BY <2>2, <2>4, <2>5
  <1>5. ASSUME NEW c \in qhChannels, ChannelRemove(c) PROVE Shape'
    <2>1. c \in qhChannels \ {Root} /\ removeChannel(c, posted)
      BY <1>5 DEF ChannelRemove
    <2>2. /\ TreeTypes' /\ LinkTypes' /\ UserTypes' /\ DbTypes' /\ RootStays' /\ Tree'
          /\ LinksSymmetric'
      BY <2>1, RemoveStep
    <2>3. Root \notin Below(c)
      BY <2>1, BelowFacts
    <2>4. PostTypes' /\ Len(posted') <= Len(posted) + Cardinality(Users)
      BY <2>1, <2>3, RemovePosts DEF PostTypes
    <2>5. Len(posted') <= MaxEvents
      <3>1. Len(posted) \in Nat /\ Len(posted') \in Nat /\ Cardinality(Users) \in Nat
        BY <2>4, FS_CardinalityType, ChannelsAssumption DEF PostTypes
      <3>2. Len(posted) + Cardinality(Users) <= MaxEvents
        BY <1>5 DEF ChannelRemove
      <3> QED BY <2>4, <3>1, <3>2, ChannelsAssumption
    <2> QED BY <2>2, <2>4, <2>5
  <1>6. ASSUME NEW c \in qhChannels, NEW n \in Names, Rename(c, n) PROVE Shape'
    <2>1. Changed(c, cParent[c], n) /\ UNCHANGED <<qhChannels, qhLinks, cChannel, posted>>
      BY <1>6 DEF Rename, Changed
    <2>2. TreeTypes' /\ DbTypes' /\ RootStays' /\ Tree'
      BY <2>1, ChangeStep
    <2> QED BY <2>1, <2>2 DEF LinkTypes, UserTypes, PostTypes, LinksSymmetric
  <1>7. ASSUME NEW c \in qhChannels, NEW p \in qhChannels, NEW n \in Names, Reparent(c, p, n)
        PROVE  Shape'
    <2>1. /\ Changed(c, p, n) /\ p \notin Below(c)
          /\ UNCHANGED <<qhChannels, qhLinks, cChannel, posted>>
      BY <1>7 DEF Reparent, Changed, MayMove
    <2>2. TreeTypes' /\ DbTypes' /\ RootStays' /\ Tree'
      BY <2>1, ChangeStep
    <2> QED BY <2>1, <2>2 DEF LinkTypes, UserTypes, PostTypes, LinksSymmetric
  <1>8. ASSUME NEW c \in qhChannels, NEW l \in qhChannels, AddLink(c, l) \/ RemoveLink(c, l)
        PROVE  Shape'
    <2>1. /\ qhLinks' = linked(c, l) \/ qhLinks' = unlinked(c, l)
          /\ UNCHANGED <<tree, cChannel, posted, dbParent, dbName>>
      BY <1>8 DEF AddLink, RemoveLink
    <2>2. LinkTypes' /\ LinksSymmetric'
      BY <2>1, LinkStep DEF tree
    <2> QED BY <2>1, <2>2
        DEF tree, TreeTypes, UserTypes, PostTypes, DbTypes, RootStays, Tree, Closed
  <1>9. ASSUME NEW p \in qhChannels, NEW n \in Names, RpcAddChannel(p, n) PROVE Shape'
    <2>1. addChannel(p, n, FALSE) /\ UNCHANGED <<cChannel, posted>>
      BY <1>9 DEF RpcAddChannel
    <2>2. /\ TreeTypes' /\ LinkTypes' /\ DbTypes' /\ RootStays' /\ Tree' /\ LinksSymmetric'
          /\ qhChannels' = qhChannels \cup {NextId}
      BY <2>1, AddStep
    <2> QED BY <2>1, <2>2 DEF UserTypes, PostTypes
  <1>10. ASSUME NEW c \in qhChannels, NEW p \in qhChannels, NEW n \in Names,
                RpcSetStateRefused(c, p, n)
         PROVE  Shape'
    <2>1. /\ qsName' = [qsName EXCEPT ![c] = n]
          /\ UNCHANGED <<qhChannels, cParent, bTemporary, qhLinks, cChannel, posted, db>>
      BY <1>10 DEF RpcSetStateRefused
    <2> QED BY <2>1 DEF db, TreeTypes, LinkTypes, UserTypes, PostTypes, DbTypes, RootStays,
                        Tree, Closed, LinksSymmetric
  <1>11. ASSUME NEW c \in qhChannels, NEW p \in qhChannels, NEW n \in Names,
                NEW links \in SUBSET (qhChannels \cap Linkable), RpcSetState(c, p, n, links)
         PROVE  Shape'
    <2> DEFINE to == IF c = Root \/ p = c THEN cParent[c] ELSE p
    <2>1. Changed(c, to, n) /\ UNCHANGED <<qhChannels, cChannel, posted>>
      BY <1>11 DEF RpcSetState, Changed
    <2>2. to = cParent[c] \/ (to \in qhChannels /\ to \notin Below(c))
      BY <1>11 DEF RpcSetState
    <2> HIDE DEF to
    <2>3. TreeTypes' /\ DbTypes' /\ RootStays' /\ Tree'
      BY <2>1, <2>2, ChangeStep
    <2>4. LinkTypes' /\ LinksSymmetric'
      BY <1>11, RpcLinkStep
    <2> QED BY <2>1, <2>3, <2>4 DEF UserTypes, PostTypes
  <1>12. ASSUME Exec PROVE Shape'
    <2>1. /\ posted \in Seq(Ids) /\ posted # <<>>
          /\ Len(posted) + Cardinality(Users) <= MaxEvents + 1
      BY <1>12 DEF Exec, PostTypes
    <2>2. /\ Head(posted) # Root /\ Tail(posted) \in Seq(Ids)
          /\ Len(Tail(posted)) = Len(posted) - 1 /\ Len(posted) \in Nat
          /\ \A i \in DOMAIN Tail(posted) : Tail(posted)[i] # Root
      BY <2>1 DEF PostTypes
    <2>3. Cardinality(Users) \in Nat /\ MaxEvents \in Nat
      BY FS_CardinalityType, ChannelsAssumption
    <2>4. CASE Head(posted) \in qhChannels
      <3>1. removeChannel(Head(posted), Tail(posted))
        BY <1>12, <2>4 DEF Exec
      <3>2. /\ TreeTypes' /\ LinkTypes' /\ UserTypes' /\ DbTypes' /\ RootStays' /\ Tree'
            /\ LinksSymmetric'
        BY <2>2, <2>4, <3>1, RemoveStep
      <3>3. Root \notin Below(Head(posted))
        BY <2>2, <2>4, BelowFacts
      <3>4. PostTypes' /\ Len(posted') <= Len(Tail(posted)) + Cardinality(Users)
        BY <2>2, <2>4, <3>1, <3>3, RemovePosts
      <3>5. Len(posted') \in Nat
        BY <3>4 DEF PostTypes
      <3> QED BY <2>1, <2>2, <2>3, <3>2, <3>4, <3>5
    <2>5. CASE posted' = Tail(posted) /\ UNCHANGED <<tree, qhLinks, cChannel, db>>
      <3>1. PostTypes' /\ Len(posted') <= MaxEvents
        BY <2>2, <2>3, <2>5 DEF PostTypes
      <3> QED BY <2>5, <3>1 DEF tree, db, TreeTypes, LinkTypes, UserTypes, DbTypes, RootStays,
                                Tree, Closed, LinksSymmetric
    <2> QED BY <1>12, <2>4, <2>5 DEF Exec
  <1>13. ASSUME Restart PROVE Shape'
    <2>1. DbTypes' /\ dbParent'[Root] = None /\ Started
      BY <1>13 DEF Restart, db, DbTypes, RootStays
    <2> QED BY <2>1, StartedStep
  <1>18. ASSUME NEW c \in qhChannels, RestartInRemoval(c) PROVE Shape'
    <2>1. c \in qhChannels \ {Root} /\ Started
      BY <1>18 DEF RestartInRemoval
    <2>2. PICK gone \in CutRemoval(c) : RowsWithout(gone)
      BY <1>18 DEF RestartInRemoval
    <2>3. DbTypes' /\ dbParent'[Root] = None
      BY <2>1, <2>2, CutStep
    <2> QED BY <2>1, <2>3, StartedStep
  <1>14. CASE UNCHANGED vars
    BY <1>14 DEF vars, tree, db, TreeTypes, LinkTypes, UserTypes, PostTypes, DbTypes, RootStays,
                 Tree, Closed, LinksSymmetric
  <1>15. CASE UserStep
    BY <1>15, <1>1, <1>2, <1>3, <1>4 DEF UserStep
  <1>16. CASE MessageStep
    BY <1>16, <1>5, <1>6, <1>7, <1>8 DEF MessageStep
  <1>17. CASE RpcStep
    BY <1>17, <1>9, <1>10, <1>11 DEF RpcStep
  <1> QED BY <1>12, <1>13, <1>14, <1>15, <1>16, <1>17, <1>18 DEF Next

LEMMA ShapeAlways == Spec => []Shape
  BY ShapeInit, ShapeStep, PTL DEF Spec

(* Whatever clients, RPC and restarts do: users, parents and links are on      *)
(* channels that exist, and what is posted is bounded.                         *)
THEOREM TypeCorrect == Spec => []TypeOK
  <1>1. Shape => TypeOK
    BY DEF Shape, TypeOK, TreeTypes, LinkTypes, UserTypes, PostTypes, DbTypes
  <1> QED BY <1>1, ShapeAlways, PTL

(* No operation of clients or RPC closes a cycle or cuts a part off the tree:  *)
(* every channel stays below the root.                                         *)
THEOREM AlwaysATree == Spec => []TreeOK
  <1>1. Shape => TreeOK
    BY TreeIsTree DEF Shape, TreeOK, RootStays
  <1> QED BY <1>1, ShapeAlways, PTL

(* Every link is known at both ends, whatever is linked, removed or read back. *)
THEOREM LinksBothWays == Spec => []LinksSymmetric
  <1>1. Shape => LinksSymmetric
    BY DEF Shape
  <1> QED BY <1>1, ShapeAlways, PTL
-----------------------------------------------------------------------------
(* Clients only: the database mirrors the permanent channels, names tell       *)
(* siblings apart, nothing hangs below a temporary channel, and an empty one   *)
(* goes.                                                                       *)

kept == {c \in qhChannels : ~bTemporary[c]}

Mirror ==
    /\ DOMAIN dbParent = kept
    /\ \A c \in kept : dbParent[c] = cParent[c] /\ dbName[c] = qsName[c]
SQLite == qsDBDriver = "QSQLITE"

MirrorLinks ==
    /\ SQLite => dbLinks \subseteq kept \X kept
    /\ \A c, l \in kept : /\ l \in qhLinks[c] => Row(c, l)
                          /\ SQLite /\ Row(c, l) => l \in qhLinks[c]

Orderly == Mirror /\ MirrorLinks /\ TempLeaf /\ NamesUnique /\ EmptyGoes

\* What readChannels finds is what is permanent: the temporary channels are
\* leaves, so that the tree without them hangs together.
LEMMA StoredIsKept ==
  ASSUME Shape, Mirror, TempLeaf
  PROVE  Stored = kept
  <1> USE DEF Shape
  <1>1. /\ Root \in Stored /\ Stored \subseteq kept
        /\ Closed(Stored, kept, dbParent)
    BY SubtreeClosed DEF Stored, DbTypes, Mirror
  <1> DEFINE S == Stored \cup (qhChannels \ kept)
  <1>2. S \in SUBSET qhChannels /\ Root \in S
    BY <1>1 DEF kept
  <1>3. Closed(S, qhChannels, cParent)
    <2> SUFFICES ASSUME NEW y \in qhChannels, cParent[y] \in S, y \in kept PROVE y \in Stored
      BY DEF Closed
    <2>1. y # Root
      BY <1>2, IdsNat DEF RootStays, TreeTypes
    <2>2. cParent[y] \in Stored
      BY <2>1 DEF TempLeaf, kept
    <2> QED BY <1>1, <2>2 DEF Closed, Mirror
  <1>4. S = qhChannels
    <2> HIDE DEF S
    <2> QED BY <1>2, <1>3 DEF Tree
  <1>5. kept \subseteq Stored
    BY <1>4 DEF kept
  <1> QED BY <1>1, <1>5

LEMMA AddOrderly ==
  ASSUME Shape, Mirror, MirrorLinks, TempLeaf, NamesUnique,
         NEW p \in qhChannels, NEW n \in Names, NEW temporary \in BOOLEAN,
         ~SiblingNamed(p, n), ~bTemporary[p], addChannel(p, n, temporary)
  PROVE  Mirror' /\ MirrorLinks' /\ TempLeaf' /\ NamesUnique'
  <1> USE DEF Shape
  <1> DEFINE id == NextId
  <1>1. id \notin qhChannels
    BY AddStep
  <1>2. /\ qhChannels' = qhChannels \cup {id}
        /\ cParent' = With(cParent, id, p)
        /\ qsName' = With(qsName, id, n)
        /\ bTemporary' = With(bTemporary, id, temporary)
        /\ qhLinks' = With(qhLinks, id, {})
        /\ dbLinks' = dbLinks /\ qsDBDriver' = qsDBDriver
        /\ temporary => UNCHANGED <<dbParent, dbName>>
        /\ ~temporary => dbParent' = With(dbParent, id, p) /\ dbName' = With(dbName, id, n)
    BY DEF addChannel
  <1> HIDE DEF id
  <1>3. /\ cParent'[id] = p /\ qsName'[id] = n /\ bTemporary'[id] = temporary /\ qhLinks'[id] = {}
        /\ \A c \in qhChannels : /\ cParent'[c] = cParent[c] /\ qsName'[c] = qsName[c]
                                 /\ bTemporary'[c] = bTemporary[c] /\ qhLinks'[c] = qhLinks[c]
    BY <1>1, <1>2 DEF TreeTypes, LinkTypes, With
  <1>4. kept' = IF temporary THEN kept ELSE kept \cup {id}
    BY <1>1, <1>2, <1>3 DEF kept
  <1>5. id \notin kept /\ kept \subseteq qhChannels
    BY <1>1 DEF kept
  <1>6. Mirror'
    <2>1. CASE temporary
      BY <1>2, <1>3, <1>4, <1>5, <2>1 DEF Mirror
    <2>2. CASE ~temporary
      <3>1. /\ DOMAIN dbParent' = DOMAIN dbParent \cup {id}
            /\ dbParent'[id] = p /\ dbName'[id] = n
            /\ \A c \in kept : dbParent'[c] = dbParent[c] /\ dbName'[c] = dbName[c]
        BY <1>2, <1>5, <2>2 DEF With, Mirror, DbTypes
      <3> QED BY <1>3, <1>4, <1>5, <2>2, <3>1 DEF Mirror
    <2> QED BY <2>1, <2>2
  <1>7. MirrorLinks'
    <2>1. /\ \A c \in qhChannels : id \notin qhLinks[c]
          /\ (SQLite' <=> SQLite) /\ \A c, l : Row(c, l)' <=> Row(c, l)
      BY <1>1, <1>2 DEF LinkTypes, SQLite, Row
    <2>2. SQLite => dbLinks' \subseteq kept' \X kept'
      BY <1>2, <1>4 DEF MirrorLinks
    <2>3. SQLite => \A c : ~Row(c, id) /\ ~Row(id, c)
      BY <1>5 DEF MirrorLinks, Row
    <2>4. ASSUME NEW c \in kept', NEW l \in kept'
          PROVE  (l \in qhLinks'[c] => Row(c, l)) /\ (SQLite /\ Row(c, l) => l \in qhLinks'[c])
      <3>1. CASE c \in kept /\ l \in kept
        BY <1>3, <1>5, <3>1 DEF MirrorLinks
      <3>2. CASE c = id
        BY <1>3, <2>3, <3>2
      <3>3. CASE c \in kept /\ l = id
        BY <1>3, <1>5, <2>1, <2>3, <3>3
      <3> QED BY <1>4, <3>1, <3>2, <3>3
    <2> QED BY <2>1, <2>2, <2>4 DEF MirrorLinks
  <1>8. TempLeaf'
    <2>1. \A c \in qhChannels \ {Root} : cParent[c] \in qhChannels /\ ~bTemporary[cParent[c]]
      BY ParentThere DEF TempLeaf
    <2> QED BY <1>2, <1>3, <2>1 DEF TempLeaf
  <1>9. NamesUnique'
    <2>1. \A c \in qhChannels : cParent[c] = p => qsName[c] # n
      BY DEF SiblingNamed
    <2> QED BY <1>1, <1>2, <1>3, <2>1 DEF NamesUnique
  <1> QED BY <1>6, <1>7, <1>8, <1>9

\* A channel gets a name that is free where it is or goes.
LEMMA ChangeOrderly ==
  ASSUME Shape, Mirror, MirrorLinks, TempLeaf, NamesUnique,
         NEW c \in qhChannels, NEW p \in qhChannels, NEW n \in Names,
         ~SiblingNamed(p, n), ~bTemporary[p], Changed(c, p, n),
         UNCHANGED <<qhLinks, dbLinks>>
  PROVE  Mirror' /\ MirrorLinks' /\ TempLeaf' /\ NamesUnique'
  <1> USE DEF Shape
  <1>1. /\ cParent' = [cParent EXCEPT ![c] = p]
        /\ qsName' = [qsName EXCEPT ![c] = n]
        /\ UNCHANGED <<qhChannels, bTemporary, qsDBDriver>>
        /\ bTemporary[c] => UNCHANGED <<dbParent, dbName>>
        /\ ~bTemporary[c] => /\ dbParent' = [dbParent EXCEPT ![c] = p]
                             /\ dbName' = [dbName EXCEPT ![c] = n]
    BY DEF Changed, updateChannel
  <1>2. /\ cParent'[c] = p /\ qsName'[c] = n
        /\ \A y \in qhChannels \ {c} : cParent'[y] = cParent[y] /\ qsName'[y] = qsName[y]
    BY <1>1 DEF TreeTypes
  <1>3. kept' = kept /\ kept \subseteq qhChannels
    BY <1>1 DEF kept
  <1>4. Mirror'
    <2>1. CASE bTemporary[c]
      BY <1>1, <1>2, <1>3, <2>1 DEF Mirror, kept
    <2>2. CASE ~bTemporary[c]
      <3>1. c \in kept
        BY <2>2 DEF kept
      <3>2. /\ DOMAIN dbParent' = kept /\ dbParent'[c] = p /\ dbName'[c] = n
            /\ \A y \in kept \ {c} : dbParent'[y] = dbParent[y] /\ dbName'[y] = dbName[y]
        BY <1>1, <2>2, <3>1 DEF Mirror, DbTypes
      <3> QED BY <1>2, <1>3, <3>1, <3>2 DEF Mirror
    <2> QED BY <2>1, <2>2
  <1>5. MirrorLinks'
    BY <1>1, <1>3 DEF MirrorLinks, SQLite, Row
  <1>6. TempLeaf'
    BY <1>1, <1>2 DEF TempLeaf
  <1>7. NamesUnique'
    <2>1. \A y \in qhChannels : cParent[y] = p => qsName[y] # n
      BY DEF SiblingNamed
    <2> QED BY <1>1, <1>2, <2>1 DEF NamesUnique
  <1> QED BY <1>4, <1>5, <1>6, <1>7

LEMMA LinkOrderly ==
  ASSUME Shape, Mirror, MirrorLinks, NEW c \in qhChannels, NEW l \in qhChannels,
         AddLink(c, l) \/ RemoveLink(c, l)
  PROVE  Mirror' /\ MirrorLinks'
  <1> USE DEF Shape
  <1>1. UNCHANGED <<tree, dbParent, dbName, qsDBDriver>>
    BY DEF AddLink, RemoveLink
  <1>2. kept' = kept /\ kept \subseteq qhChannels /\ (InDb(c, l) <=> c \in kept /\ l \in kept)
    BY <1>1 DEF kept, tree, InDb
  <1>3. Mirror'
    BY <1>1, <1>2 DEF Mirror, tree
  <1>4. CASE AddLink(c, l)
    <2>1. /\ qhLinks' = linked(c, l)
          /\ dbLinks' = IF InDb(c, l) THEN dbLinks \cup {<<c, l>>, <<l, c>>} ELSE dbLinks
      BY <1>4 DEF AddLink
    <2>2. SQLite => dbLinks' \subseteq kept \X kept
      BY <1>2, <2>1 DEF MirrorLinks
    <2>3. ASSUME NEW x \in kept, NEW y \in kept
          PROVE  (y \in qhLinks'[x] => Row(x, y)') /\ (SQLite /\ Row(x, y)' => y \in qhLinks'[x])
      <3>1. qhLinks'[x] = qhLinks[x] \cup (IF x = c THEN {l} ELSE {})
                                     \cup (IF x = l THEN {c} ELSE {})
        BY <1>2, <2>1 DEF linked
      <3>2. (y \in qhLinks[x] => Row(x, y)) /\ (SQLite /\ Row(x, y) => y \in qhLinks[x])
        BY DEF MirrorLinks
      <3>3. CASE InDb(c, l)
        BY <2>1, <3>1, <3>2, <3>3 DEF Row
      <3>4. CASE ~InDb(c, l)
        BY <1>2, <2>1, <3>1, <3>2, <3>4 DEF Row
      <3> QED BY <3>3, <3>4
    <2> QED BY <1>1, <1>2, <1>3, <2>2, <2>3 DEF MirrorLinks, SQLite
  <1>5. CASE RemoveLink(c, l)
    <2>1. /\ qhLinks' = unlinked(c, l)
          /\ dbLinks' = IF InDb(c, l) THEN dbLinks \ {<<c, l>>, <<l, c>>} ELSE dbLinks
      BY <1>5 DEF RemoveLink
    <2>2. SQLite => dbLinks' \subseteq kept \X kept
      BY <1>2, <2>1 DEF MirrorLinks
    <2>3. ASSUME NEW x \in kept, NEW y \in kept
          PROVE  (y \in qhLinks'[x] => Row(x, y)') /\ (SQLite /\ Row(x, y)' => y \in qhLinks'[x])
      <3>1. qhLinks'[x] = qhLinks[x] \ ((IF x = c THEN {l} ELSE {})
                                        \cup (IF x = l THEN {c} ELSE {}))
        BY <1>2, <2>1 DEF unlinked
      <3>2. (y \in qhLinks[x] => Row(x, y)) /\ (SQLite /\ Row(x, y) => y \in qhLinks[x])
        BY DEF MirrorLinks
      <3>3. CASE InDb(c, l)
        BY <2>1, <3>1, <3>2, <3>3 DEF Row
      <3>4. CASE ~InDb(c, l)
        BY <1>2, <2>1, <3>1, <3>2, <3>4 DEF Row
      <3> QED BY <3>3, <3>4
    <2> QED BY <1>1, <1>2, <1>3, <2>2, <2>3 DEF MirrorLinks, SQLite
  <1> QED BY <1>4, <1>5

LEMMA RemoveOrderly ==
  ASSUME Shape, Mirror, MirrorLinks, TempLeaf, NamesUnique,
         NEW c \in qhChannels \ {Root}, NEW pending, removeChannel(c, pending)
  PROVE  Mirror' /\ MirrorLinks' /\ TempLeaf' /\ NamesUnique'
  <1> USE DEF Shape
  <1> DEFINE gone == Below(c)
  <1>1. /\ gone \subseteq qhChannels /\ Closed(gone, qhChannels, cParent) /\ Root \notin gone
    BY BelowFacts
  <1>2. /\ qhChannels' = qhChannels \ gone
        /\ cParent' = Without(cParent, gone)
        /\ qsName' = Without(qsName, gone)
        /\ bTemporary' = Without(bTemporary, gone)
        /\ qhLinks' = [y \in qhChannels \ gone |-> qhLinks[y] \ gone]
        /\ dbParent' = Without(dbParent, gone)
        /\ dbName' = Without(dbName, gone)
        /\ dbLinks' = dbLinks \ LinkRowsGone(gone) /\ qsDBDriver' = qsDBDriver
    BY DEF removeChannel, LinksWithout, RowsWithout
  <1> HIDE DEF gone
  <1>3. \A y \in qhChannels \ gone :
            /\ cParent'[y] = cParent[y] /\ qsName'[y] = qsName[y]
            /\ bTemporary'[y] = bTemporary[y] /\ qhLinks'[y] = qhLinks[y] \ gone
    BY <1>2 DEF TreeTypes, Without
  <1>4. kept' = kept \ gone /\ kept \subseteq qhChannels
    BY <1>2, <1>3 DEF kept
  <1>5. Mirror'
    <2>1. /\ DOMAIN dbParent' = kept \ gone
          /\ \A y \in kept \ gone : dbParent'[y] = dbParent[y] /\ dbName'[y] = dbName[y]
      BY <1>2 DEF Mirror, DbTypes, Without
    <2> QED BY <1>3, <1>4, <2>1 DEF Mirror
  <1>6. MirrorLinks'
    <2>1. SQLite => dbLinks' \subseteq kept' \X kept'
      BY <1>2, <1>4 DEF MirrorLinks, LinkRowsGone, SQLite
    <2>2. ASSUME NEW x \in kept', NEW y \in kept'
          PROVE  (y \in qhLinks'[x] => Row(x, y)') /\ (SQLite /\ Row(x, y)' => y \in qhLinks'[x])
      <3>1. x \in kept \ gone /\ y \in kept \ gone
        BY <1>4
      <3>2. Row(x, y)' <=> Row(x, y)
        BY <1>2, <3>1 DEF Row, LinkRowsGone
      <3>3. y \in qhLinks'[x] <=> y \in qhLinks[x]
        BY <1>3, <1>4, <3>1
      <3>4. (y \in qhLinks[x] => Row(x, y)) /\ (SQLite /\ Row(x, y) => y \in qhLinks[x])
        BY <3>1 DEF MirrorLinks
      <3> QED BY <3>2, <3>3, <3>4
    <2> QED BY <1>2, <2>1, <2>2 DEF MirrorLinks, SQLite
  <1>7. TempLeaf'
    <2>1. \A y \in qhChannels \ {Root} : cParent[y] \in qhChannels /\ ~bTemporary[cParent[y]]
      BY ParentThere DEF TempLeaf
    <2>2. \A y \in qhChannels \ gone : cParent[y] \notin gone
      BY <1>1 DEF Closed
    <2> QED BY <1>2, <1>3, <2>1, <2>2 DEF TempLeaf
  <1>8. NamesUnique'
    BY <1>2, <1>3 DEF NamesUnique
  <1> QED BY <1>5, <1>6, <1>7, <1>8

\* The server starts with some subtrees of the permanent channels gone.
LEMMA StartedOrderly ==
  ASSUME Shape, Mirror, MirrorLinks, TempLeaf, NamesUnique,
         NEW gone \in SUBSET (qhChannels \ {Root}), Closed(gone, kept, cParent),
         RowsWithout(gone), Started
  PROVE  Orderly'
  <1> USE DEF Shape
  <1> DEFINE left == kept \ gone
  <1>1. /\ DOMAIN dbParent' = left
        /\ \A c \in left : dbParent'[c] = cParent[c] /\ dbName'[c] = qsName[c]
        /\ dbLinks' = dbLinks \ LinkRowsGone(gone) /\ qsDBDriver' = qsDBDriver
    BY DEF RowsWithout, Mirror, DbTypes, Without
  <1>2. DbTypes' /\ dbParent'[Root] = None /\ Root \in left
    BY IdsNat DEF DbTypes, RootStays, TreeTypes, RowsWithout, Without, Mirror, kept
  <1>3. Stored' = left
    <2>1. /\ Root \in Stored' /\ Stored' \subseteq left
          /\ Closed(Stored', left, dbParent')
      BY <1>1, <1>2, SubtreeClosed DEF Stored
    <2> DEFINE S == Stored' \cup (qhChannels \ left)
    <2>2. S \in SUBSET qhChannels /\ Root \in S
      BY <2>1 DEF kept
    <2>3. Closed(S, qhChannels, cParent)
      <3> SUFFICES ASSUME NEW y \in qhChannels, cParent[y] \in S, y \in left PROVE y \in Stored'
        BY DEF Closed
      <3>1. y # Root
        BY <2>2, IdsNat DEF RootStays, TreeTypes
      <3>2. cParent[y] \in kept
        BY <3>1, ParentThere DEF TempLeaf, kept
      <3>3. cParent[y] \notin gone
        BY DEF Closed
      <3>4. cParent[y] \in Stored'
        BY <3>2, <3>3
      <3> QED BY <1>1, <2>1, <3>4 DEF Closed
    <2>4. S = qhChannels
      <3> HIDE DEF S
      <3> QED BY <2>2, <2>3 DEF Tree
    <2> QED BY <2>1, <2>4 DEF kept
  <1> HIDE DEF left
  <1>4. /\ qhChannels' = left
        /\ cParent' = [c \in left |-> dbParent'[c]]
        /\ qsName' = [c \in left |-> dbName'[c]]
        /\ bTemporary' = [c \in left |-> FALSE]
        /\ qhLinks' = [c \in left |-> {l \in left : Row(c, l)'}]
    BY <1>3 DEF Started
  <1>5. kept' = left /\ left \subseteq kept /\ kept \subseteq qhChannels
    BY <1>4 DEF kept, left
  <1>6. Mirror'
    BY <1>1, <1>4, <1>5 DEF Mirror
  <1>7. MirrorLinks'
    <2>1. SQLite' => dbLinks' \subseteq left \X left
      BY <1>1 DEF MirrorLinks, LinkRowsGone, SQLite, left
    <2> QED BY <1>4, <1>5, <2>1 DEF MirrorLinks
  <1>8. TempLeaf'
    <2>1. ASSUME NEW c \in left \ {Root} PROVE cParent'[c] \in left
      <3>1. c \in kept \ gone /\ c \in qhChannels \ {Root}
        BY <1>5 DEF left
      <3>2. cParent[c] \in kept
        BY <3>1, ParentThere DEF TempLeaf, kept
      <3>3. cParent[c] \notin gone
        BY <3>1 DEF Closed
      <3> QED BY <1>1, <1>4, <3>2, <3>3 DEF left
    <2> QED BY <1>4, <2>1 DEF TempLeaf
  <1>9. NamesUnique'
    <2>1. \A c \in left : cParent'[c] = cParent[c] /\ qsName'[c] = qsName[c]
      BY <1>1, <1>4
    <2> QED BY <1>4, <1>5, <2>1 DEF NamesUnique
  <1>10. EmptyGoes'
    BY <1>4 DEF EmptyGoes
  <1> QED BY <1>6, <1>7, <1>8, <1>9, <1>10 DEF Orderly

\* Nothing is gone, or a part of what is below a channel that is removed.
LEMMA RestartOrderly ==
  ASSUME Shape, Mirror, MirrorLinks, TempLeaf, NamesUnique, Restart
  PROVE  Orderly'
  <1>1. RowsWithout({}) /\ Started
    <2>1. UNCHANGED db /\ Started
      BY DEF Restart
    <2>2. Without(dbParent, {}) = dbParent /\ Without(dbName, {}) = dbName
      BY DEF Without, Shape, DbTypes
    <2> QED BY <2>1, <2>2 DEF RowsWithout, LinkRowsGone, db
  <1>2. Closed({}, kept, cParent)
    BY DEF Closed
  <1> QED BY <1>1, <1>2, StartedOrderly

LEMMA CutOrderly ==
  ASSUME Shape, Mirror, MirrorLinks, TempLeaf, NamesUnique,
         NEW c \in qhChannels, RestartInRemoval(c)
  PROVE  Orderly'
  <1>1. c \in qhChannels \ {Root} /\ Started
    BY DEF RestartInRemoval
  <1>2. PICK gone \in CutRemoval(c) : RowsWithout(gone)
    BY DEF RestartInRemoval
  <1>3. /\ Below(c) \subseteq qhChannels \ {Root}
        /\ Closed(Below(c), qhChannels, cParent)
    BY <1>1, BelowFacts DEF Shape
  <1>4. gone \in SUBSET (qhChannels \ {Root})
    BY <1>3 DEF CutRemoval
  <1>5. Closed(gone, kept, cParent)
    BY <1>3 DEF CutRemoval, Closed, kept
  <1> QED BY <1>1, <1>2, <1>4, <1>5, StartedOrderly

\* A user goes somewhere else: the removal of the channel it leaves is posted, if
\* nobody is there any more.
LEMMA MoveEmptyGoes ==
  ASSUME Shape, EmptyGoes, NEW u \in Online, NEW to,
         cChannel' = [cChannel EXCEPT ![u] = to], posted' = PostedIfEmptied(u),
         \A c \in qhChannels' : \/ c \in qhChannels /\ (bTemporary'[c] <=> bTemporary[c])
                                \/ c = to
  PROVE  EmptyGoes'
  <1> USE DEF Shape
  <1>1. u \in Users /\ cChannel[u] \in qhChannels
    BY DEF Online, UserTypes
  <1>2. /\ cChannel'[u] = to
        /\ \A v \in Users \ {u} : cChannel'[v] = cChannel[v]
    BY <1>1 DEF UserTypes
  <1>3. posted \in Seq(Ids)
    BY DEF PostTypes
  <1>4. \A x : (\E i \in DOMAIN posted : posted[i] = x) => (\E i \in DOMAIN posted' : posted'[i] = x)
    <2>1. CASE posted' = posted
      BY <2>1
    <2>2. CASE posted' = Append(posted, cChannel[u])
      BY <1>3, <2>2
    <2> QED BY <2>1, <2>2 DEF PostedIfEmptied
  <1> SUFFICES ASSUME NEW c \in qhChannels', bTemporary'[c], UsersIn(c)' = {}
               PROVE  \E i \in DOMAIN posted' : posted'[i] = c
    BY DEF EmptyGoes
  <1>5. c # to
    BY <1>1, <1>2 DEF UsersIn
  <1>6. c \in qhChannels /\ bTemporary[c]
    BY <1>5
  <1>7. UsersIn(c) \subseteq {u}
    BY <1>2 DEF UsersIn
  <1>8. CASE UsersIn(c) = {}
    BY <1>4, <1>6, <1>8 DEF EmptyGoes
  <1>9. CASE UsersIn(c) = {u}
    <2>1. cChannel[u] = c
      BY <1>9 DEF UsersIn
    <2>2. posted' = Append(posted, c)
      BY <1>6, <1>9, <2>1, IdsNat DEF PostedIfEmptied, LeftBehind, TreeTypes
    <2>3. c \in Ids
      BY <1>6 DEF TreeTypes
    <2>4. Len(posted) + 1 \in DOMAIN posted' /\ posted'[Len(posted) + 1] = c
      BY <1>3, <2>2, <2>3
    <2> QED BY <2>4
  <1> QED BY <1>7, <1>8, <1>9

\* A removal takes no user out of a channel that stays, and no event but its own.
LEMMA RemoveEmptyGoes ==
  ASSUME Shape, NEW c \in qhChannels \ {Root}, NEW pending \in Seq(Ids),
         removeChannel(c, pending),
         \A x \in qhChannels \ {c} : bTemporary[x] /\ UsersIn(x) = {}
                                        => \E i \in DOMAIN pending : pending[i] = x
  PROVE  EmptyGoes'
  <1> USE DEF Shape
  <1> DEFINE gone == Below(c)
             emptied == {x \in gone : bTemporary[x] /\ UsersIn(x) # {}}
  <1>1. c \in gone /\ gone \subseteq qhChannels
    BY BelowFacts
  <1>2. /\ qhChannels' = qhChannels \ gone
        /\ bTemporary' = Without(bTemporary, gone)
        /\ cChannel' = [u \in Users |-> IF cChannel[u] \in gone THEN cParent[c] ELSE cChannel[u]]
    BY DEF removeChannel, Refuge
  <1>3. PICK order \in SetToSeqs(emptied) : posted' = pending \o order
    BY DEF removeChannel
  <1>4. emptied \subseteq Ids
    BY <1>1 DEF TreeTypes
  <1>5. order \in [1 .. Cardinality(emptied) -> emptied]
    BY DEF SetToSeqs
  <1>6. order \in Seq(Ids)
    <2>1. IsFiniteSet(qhChannels)
      <3>1. IsFiniteSet(Ids)
        BY FS_Interval, ChannelsAssumption DEF Ids, Root
      <3> QED BY <3>1, FS_Subset DEF TreeTypes
    <2>2. Cardinality(emptied) \in Nat
      BY <1>1, <2>1, FS_Subset, FS_CardinalityType
    <2> HIDE DEF emptied
    <2> QED BY <1>4, <1>5, <2>2
  <1> HIDE DEF gone, emptied
  <1>7. /\ Len(pending \o order) = Len(pending) + Len(order)
        /\ Len(pending) \in Nat /\ Len(order) \in Nat
        /\ pending \o order \in Seq(Ids)
        /\ \A i \in 1 .. Len(pending \o order) :
              (pending \o order)[i] = IF i <= Len(pending) THEN pending[i] ELSE order[i - Len(pending)]
    BY <1>6, Concatenation
  <1>8. \A i \in DOMAIN pending : i \in DOMAIN posted' /\ posted'[i] = pending[i]
    BY <1>3, <1>7
  <1> SUFFICES ASSUME NEW x \in qhChannels', bTemporary'[x], UsersIn(x)' = {}
               PROVE  \E i \in DOMAIN posted' : posted'[i] = x
    BY DEF EmptyGoes
  <1>9. x \in qhChannels \ {c} /\ bTemporary[x] /\ x \notin gone
    BY <1>1, <1>2 DEF TreeTypes, Without
  <1>10. UsersIn(x) = {}
    BY <1>2, <1>9 DEF UsersIn
  <1> QED BY <1>8, <1>9, <1>10

LEMMA OrderlyInit == Init => Orderly
  <1> SUFFICES ASSUME Init PROVE Orderly
    OBVIOUS
  <1>1. kept = {Root}
    BY DEF Init, kept
  <1>2. Mirror /\ MirrorLinks
    BY <1>1 DEF Init, Mirror, MirrorLinks, SQLite, Row
  <1>3. TempLeaf /\ NamesUnique /\ EmptyGoes
    BY DEF Init, TempLeaf, NamesUnique, EmptyGoes
  <1> QED BY <1>2, <1>3 DEF Orderly

LEMMA OrderlyStep ==
  ASSUME ~Rpc
  PROVE  Shape /\ Orderly /\ [Next]_vars => Orderly'
  <1> SUFFICES ASSUME Shape, Orderly, [Next]_vars PROVE Orderly'
    OBVIOUS
  <1>0. Mirror /\ MirrorLinks /\ TempLeaf /\ NamesUnique /\ EmptyGoes
    BY DEF Orderly
  <1>1. ASSUME UNCHANGED <<tree, qhLinks, db>> PROVE Mirror' /\ MirrorLinks' /\ TempLeaf' /\ NamesUnique'
    BY <1>0, <1>1 DEF tree, db, kept, Mirror, MirrorLinks, TempLeaf, NamesUnique, SQLite, Row
  <1>2. ASSUME UNCHANGED <<qhChannels, bTemporary, cChannel, posted>> PROVE EmptyGoes'
    BY <1>0, <1>2 DEF EmptyGoes, UsersIn
  <1>3. ASSUME NEW u \in Users, NEW to, u \in Online, UNCHANGED <<tree, qhLinks, db>>,
               cChannel' = [cChannel EXCEPT ![u] = to], posted' = PostedIfEmptied(u)
        PROVE  Orderly'
    <2>1. EmptyGoes'
      BY <1>0, <1>3, MoveEmptyGoes DEF tree
    <2> QED BY <1>1, <1>3, <2>1 DEF Orderly
  <1>4. ASSUME NEW u \in Users, Disconnect(u) PROVE Orderly'
    BY <1>3, <1>4 DEF Disconnect
  <1>5. ASSUME NEW u \in Users, NEW c \in qhChannels, Connect(u, c) PROVE Orderly'
    <2>1. /\ UNCHANGED <<tree, qhLinks, posted, db>>
          /\ cChannel' = [cChannel EXCEPT ![u] = c]
      BY <1>5 DEF Connect
    <2>2. \A x \in qhChannels : bTemporary[x] /\ UsersIn(x)' = {} => UsersIn(x) = {}
      <3>1. cChannel[u] = None /\ None \notin qhChannels
        BY <1>5, IdsNat DEF Connect, Shape, TreeTypes
      <3> QED BY <2>1, <3>1 DEF UsersIn, Shape, UserTypes
    <2>3. EmptyGoes'
      BY <1>0, <2>1, <2>2 DEF EmptyGoes, tree
    <2> QED BY <1>1, <2>1, <2>3 DEF Orderly
  <1>6. ASSUME NEW u \in Users, NEW c \in qhChannels, Enter(u, c) PROVE Orderly'
    BY <1>3, <1>6 DEF Enter
  <1>7. ASSUME NEW u \in Users, NEW p \in qhChannels, NEW n \in Names, NEW temporary \in BOOLEAN,
               Create(u, p, n, temporary)
        PROVE  Orderly'
    <2>1. addChannel(p, n, temporary) /\ u \in Online /\ ~SiblingNamed(p, n) /\ ~bTemporary[p]
      BY <1>7 DEF Create
    <2>2. Mirror' /\ MirrorLinks' /\ TempLeaf' /\ NamesUnique'
      BY <1>0, <2>1, AddOrderly
    <2>3. /\ qhChannels' = qhChannels \cup {NextId} /\ NextId \notin qhChannels
          /\ bTemporary'[NextId] = temporary
          /\ \A c \in qhChannels : bTemporary'[c] = bTemporary[c]
      <3>1. qhChannels' = qhChannels \cup {NextId} /\ NextId \notin qhChannels
        BY <2>1, AddStep DEF Shape
      <3>2. bTemporary' = With(bTemporary, NextId, temporary) /\ DOMAIN bTemporary = qhChannels
        BY <2>1 DEF addChannel, Shape, TreeTypes
      <3> QED BY <3>1, <3>2 DEF With
    <2>4. EmptyGoes'
      <3>1. CASE temporary
        <4>1. cChannel' = [cChannel EXCEPT ![u] = NextId] /\ posted' = PostedIfEmptied(u)
          BY <1>7, <3>1 DEF Create
        <4> QED BY <1>0, <2>1, <2>3, <4>1, MoveEmptyGoes
      <3>2. CASE ~temporary
        <4>1. UNCHANGED <<cChannel, posted>>
          BY <1>7, <3>2 DEF Create
        <4> QED BY <1>0, <2>3, <3>2, <4>1 DEF EmptyGoes, UsersIn
      <3> QED BY <3>1, <3>2
    <2> QED BY <2>2, <2>4 DEF Orderly
  <1>8. ASSUME NEW c \in qhChannels, ChannelRemove(c) PROVE Orderly'
    <2>1. c \in qhChannels \ {Root} /\ removeChannel(c, posted)
      BY <1>8 DEF ChannelRemove
    <2>2. Mirror' /\ MirrorLinks' /\ TempLeaf' /\ NamesUnique'
      BY <1>0, <2>1, RemoveOrderly
    <2>3. EmptyGoes'
      BY <1>0, <2>1, RemoveEmptyGoes DEF Shape, PostTypes, EmptyGoes
    <2> QED BY <2>2, <2>3 DEF Orderly
  <1>9. ASSUME NEW c \in qhChannels, NEW p \in qhChannels, NEW n \in Names,
               ~SiblingNamed(p, n), ~bTemporary[p], Changed(c, p, n),
               UNCHANGED <<qhLinks, cChannel, posted, dbLinks>>
        PROVE  Orderly'
    <2>1. Mirror' /\ MirrorLinks' /\ TempLeaf' /\ NamesUnique'
      BY <1>0, <1>9, ChangeOrderly
    <2>2. EmptyGoes'
      BY <1>2, <1>9 DEF Changed
    <2> QED BY <2>1, <2>2 DEF Orderly
  <1>10. ASSUME NEW c \in qhChannels, NEW n \in Names, Rename(c, n) PROVE Orderly'
    <2>1. cParent[c] \in qhChannels /\ ~bTemporary[cParent[c]]
      BY <1>0, <1>10, ParentThere DEF Rename, TempLeaf, Shape
    <2> QED BY <1>9, <1>10, <2>1 DEF Rename
  <1>11. ASSUME NEW c \in qhChannels, NEW p \in qhChannels, NEW n \in Names, Reparent(c, p, n)
         PROVE  Orderly'
    BY <1>9, <1>11 DEF Reparent, MayMove, NameTaken
  <1>12. ASSUME NEW c \in qhChannels, NEW l \in qhChannels, AddLink(c, l) \/ RemoveLink(c, l)
         PROVE  Orderly'
    <2>1. Mirror' /\ MirrorLinks'
      BY <1>0, <1>12, LinkOrderly
    <2>2. UNCHANGED <<tree, cChannel, posted>>
      BY <1>12 DEF AddLink, RemoveLink
    <2>3. TempLeaf' /\ NamesUnique'
      BY <1>0, <2>2 DEF tree, TempLeaf, NamesUnique
    <2>4. EmptyGoes'
      BY <1>2, <2>2 DEF tree
    <2> QED BY <2>1, <2>3, <2>4 DEF Orderly
  <1>13. ASSUME Exec PROVE Orderly'
    <2>1. posted \in Seq(Ids) /\ posted # <<>>
      BY <1>13 DEF Exec, Shape, PostTypes
    <2>2. /\ Head(posted) # Root /\ Tail(posted) \in Seq(Ids)
      BY <2>1 DEF Shape, PostTypes
    <2>3. ASSUME NEW x, x # Head(posted), NEW i \in DOMAIN posted, posted[i] = x
          PROVE  \E j \in DOMAIN Tail(posted) : Tail(posted)[j] = x
      <3>1. i # 1 /\ i \in 1 .. Len(posted) /\ Len(posted) \in Nat
        BY <2>1, <2>3
      <3>2. i - 1 \in 1 .. Len(Tail(posted)) /\ Tail(posted)[i - 1] = posted[i]
        BY <2>1, <3>1
      <3>3. DOMAIN Tail(posted) = 1 .. Len(Tail(posted))
        BY <2>2
      <3> QED BY <2>3, <3>2, <3>3
    <2>4. CASE Head(posted) \in qhChannels
      <3>1. removeChannel(Head(posted), Tail(posted))
        BY <1>13, <2>4 DEF Exec
      <3>2. Mirror' /\ MirrorLinks' /\ TempLeaf' /\ NamesUnique'
        BY <1>0, <2>2, <2>4, <3>1, RemoveOrderly
      <3>3. \A x \in qhChannels \ {Head(posted)} : bTemporary[x] /\ UsersIn(x) = {}
                => \E i \in DOMAIN Tail(posted) : Tail(posted)[i] = x
        BY <1>0, <2>3 DEF EmptyGoes
      <3>4. EmptyGoes'
        BY <2>2, <2>4, <3>1, <3>3, RemoveEmptyGoes
      <3> QED BY <3>2, <3>4 DEF Orderly
    <2>5. CASE /\ Head(posted) \notin qhChannels /\ posted' = Tail(posted)
               /\ UNCHANGED <<tree, qhLinks, cChannel, db>>
      <3>1. EmptyGoes'
        BY <1>0, <2>3, <2>5 DEF EmptyGoes, UsersIn, tree
      <3> QED BY <1>1, <2>5, <3>1 DEF Orderly
    <2> QED BY <1>13, <2>4, <2>5 DEF Exec
  <1>14. CASE Restart
    BY <1>0, <1>14, RestartOrderly
  <1>18. ASSUME NEW c \in qhChannels, RestartInRemoval(c) PROVE Orderly'
    BY <1>0, <1>18, CutOrderly
  <1>15. CASE UNCHANGED vars
    <2>1. EmptyGoes'
      BY <1>2, <1>15 DEF vars, tree
    <2> QED BY <1>1, <1>15, <2>1 DEF vars, Orderly
  <1>16. CASE UserStep
    BY <1>16, <1>4, <1>5, <1>6, <1>7 DEF UserStep
  <1>17. CASE MessageStep
    BY <1>17, <1>8, <1>10, <1>11, <1>12 DEF MessageStep
  <1> QED BY <1>13, <1>14, <1>15, <1>16, <1>17, <1>18 DEF Next, RpcStep

LEMMA OrderlyAlways ==
  ASSUME ~Rpc
  PROVE  Spec => []Orderly
  BY OrderlyInit, OrderlyStep, ShapeAlways, PTL DEF Spec

(* As long as the RPC interfaces are not used, a restart between two handlers, *)
(* or between two calls of the database in one, brings back the permanent      *)
(* channels as they were, those that a removal has not reached included, and   *)
(* no link is lost; with SQLite none comes back that was not there.            *)
THEOREM RestartIsFaithful ==
  ASSUME ~Rpc
  PROVE  Spec => []RestartRestores
  <1>1. Shape /\ Orderly => RestartRestores
    BY StoredIsKept DEF Orderly, Mirror, MirrorLinks, SQLite, kept, RestartRestores
  <1> QED BY <1>1, ShapeAlways, OrderlyAlways, PTL

(* ... nothing is made in or moved into a temporary channel ...                *)
THEOREM TemporaryIsLeaf ==
  ASSUME ~Rpc
  PROVE  Spec => []TempLeaf
  <1>1. Orderly => TempLeaf
    BY DEF Orderly
  <1> QED BY <1>1, OrderlyAlways, PTL

(* ... no two channels with the same parent get the same name ...              *)
THEOREM SiblingsDiffer ==
  ASSUME ~Rpc
  PROVE  Spec => []NamesUnique
  <1>1. Orderly => NamesUnique
    BY DEF Orderly
  <1> QED BY <1>1, OrderlyAlways, PTL

(* ... and the removal of an empty temporary channel is always on its way.     *)
THEOREM EmptyChannelsGo ==
  ASSUME ~Rpc
  PROVE  Spec => []EmptyGoes
  <1>1. Orderly => EmptyGoes
    BY DEF Orderly
  <1> QED BY <1>1, OrderlyAlways, PTL
=============================================================================
