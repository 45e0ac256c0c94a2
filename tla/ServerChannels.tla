--------------------------- MODULE ServerChannels ---------------------------
(***************************************************************************)
(* The channel tree of a murmur server: channels made, moved, renamed,     *)
(* linked and removed by clients (msgChannelState, msgChannelRemove) and   *)
(* by the RPC interfaces, users entering and leaving, temporary channels,  *)
(* and the copy of it all in the database, read again when the server      *)
(* starts.  Everything runs in the main thread; the interleaving that      *)
(* matters is that of the handlers with the removals of temporary          *)
(* channels, which are posted to the event loop by number.                 *)
(*                                                                         *)
(* Each call of the database is a transaction of its own, and the server   *)
(* may stop between two of them.  What a handler that is cut short leaves  *)
(* behind is what a shorter one leaves: addChannel without updateChannel   *)
(* writes the same row, links are written one call at a time, as AddLink   *)
(* does.  Only a removal, one call for each channel from the lowest up,    *)
(* leaves something else: RestartInRemoval.                                *)
(***************************************************************************)
EXTENDS Integers, FiniteSets, SequencesExt

CONSTANTS
    MaxId,      \* bound: highest channel number handed out
    Names,
    Users,
    MaxEvents,  \* bound: removals posted and not carried out yet
    Linkable,   \* bound: the channels that get linked
    Rpc         \* whether the RPC interfaces are used

ASSUME ChannelsAssumption ==
    /\ MaxId \in Nat /\ MaxEvents \in Nat
    /\ Rpc \in BOOLEAN
    /\ Names # {} /\ IsFiniteSet(Users)

Root == 0
Ids == Root .. MaxId
None == -1      \* no channel: the parent of the root, where absent users are

VARIABLES
    qhChannels,  \* the numbers of the channels there are
    cParent, qsName, bTemporary, qhLinks,
    cChannel,    \* the channel of each user
    posted,      \* ExecEvents that will call removeChannel(id)
    qsDBDriver,  \* configured: the two drivers delete different rows of links
    dbParent, dbName, dbLinks   \* tables channels and channel_links

tree == <<qhChannels, cParent, qsName, bTemporary>>
db == <<qsDBDriver, dbParent, dbName, dbLinks>>
vars == <<tree, qhLinks, cChannel, posted, db>>

-----------------------------------------------------------------------------
UsersIn(c) == {u \in Users : cChannel[u] = c}
Online == {u \in Users : cChannel[u] # None}

\* Top, its sub-channels, theirs, and so on: what is in every set that contains
\* top and, with a channel, its sub-channels.
Subtree(top, channels, parent) ==
    {x \in channels : \A S \in SUBSET channels :
        top \in S /\ (\A y \in channels : parent[y] \in S => y \in S) => x \in S}

Below(c) == Subtree(c, qhChannels, cParent)

\* The number addChannel gives: after the last in the database, skipping those
\* that temporary channels have.
NextId ==
    LET free == {i \in Ids : i \notin qhChannels /\ \A d \in DOMAIN dbParent : d < i}
    IN  CHOOSE i \in free : \A j \in free : i <= j
IdLeft == \E i \in Ids : i \notin qhChannels /\ \A d \in DOMAIN dbParent : d < i

With(f, id, v) == [c \in DOMAIN f \cup {id} |-> IF c = id THEN v ELSE f[c]]
Without(f, S) == [c \in DOMAIN f \ S |-> f[c]]

Init ==
    /\ qhChannels = {Root}
    /\ cParent = [c \in {Root} |-> None]
    /\ \E n \in Names : qsName = [c \in {Root} |-> n]
    /\ bTemporary = [c \in {Root} |-> FALSE]
    /\ qhLinks = [c \in {Root} |-> {}]
    /\ cChannel = [u \in Users |-> None]
    /\ posted = <<>>
    /\ qsDBDriver \in {"QSQLITE", "QMYSQL"}
    /\ dbParent = cParent /\ dbName = qsName /\ dbLinks = {}

-----------------------------------------------------------------------------
(* Users *)

\* Faulty variant: nothing is done about the channel that was left.
LeftBehind_Never(users, old) == FALSE

\* Taking these users away leaves a temporary channel with nobody in it.
LeftBehind(users, old) ==
    old # None /\ bTemporary[old] /\ UsersIn(old) = users

PostedIfEmptied(u) ==
    IF LeftBehind({u}, cChannel[u]) THEN Append(posted, cChannel[u]) ELSE posted

\* msgAuthenticate: the user enters the channel whose number is recorded as its
\* last, if there is one, the default one or the root.  A temporary channel is
\* not recorded, but may have been given a number that is.
Connect(u, c) ==
    /\ cChannel[u] = None
    /\ c \in qhChannels
    /\ cChannel' = [cChannel EXCEPT ![u] = c]
    /\ UNCHANGED <<tree, qhLinks, posted, db>>

\* userEnterChannel, for a user that msgUserState or setUserState moves.
Enter(u, c) ==
    /\ Len(posted) < MaxEvents
    /\ u \in Online /\ c \in qhChannels /\ c # cChannel[u]
    /\ cChannel' = [cChannel EXCEPT ![u] = c]
    /\ posted' = PostedIfEmptied(u)
    /\ UNCHANGED <<tree, qhLinks, db>>

\* connectionClosed
Disconnect(u) ==
    /\ Len(posted) < MaxEvents
    /\ u \in Online
    /\ cChannel' = [cChannel EXCEPT ![u] = None]
    /\ posted' = PostedIfEmptied(u)
    /\ UNCHANGED <<tree, qhLinks, db>>

-----------------------------------------------------------------------------
(* Channels *)

SiblingNamed(p, n) == \E s \in qhChannels : cParent[s] = p /\ qsName[s] = n

\* addChannel: a permanent channel goes to the database at once.
addChannel(p, n, temporary) ==
    LET id == NextId
    IN  /\ IdLeft
        /\ qhChannels' = qhChannels \cup {id}
        /\ cParent' = With(cParent, id, p)
        /\ qsName' = With(qsName, id, n)
        /\ bTemporary' = With(bTemporary, id, temporary)
        /\ qhLinks' = With(qhLinks, id, {})
        /\ IF temporary
           THEN UNCHANGED <<dbParent, dbName>>
           ELSE dbParent' = With(dbParent, id, p) /\ dbName' = With(dbName, id, n)
        /\ UNCHANGED <<dbLinks, qsDBDriver>>

\* msgChannelState without a channel: the maker of a temporary channel enters it.
Create(u, p, n, temporary) ==
    /\ Len(posted) < MaxEvents
    /\ u \in Online /\ p \in qhChannels
    /\ ~SiblingNamed(p, n)
    /\ ~bTemporary[p]
    /\ addChannel(p, n, temporary)
    /\ IF temporary
       THEN /\ cChannel' = [cChannel EXCEPT ![u] = NextId]
            /\ posted' = PostedIfEmptied(u)
       ELSE UNCHANGED <<cChannel, posted>>

\* Faulty variant: the database is not told.
updateChannel_Not(c, p, n) == UNCHANGED <<dbParent, dbName>>

\* updateChannel, after c got parent p and name n.
updateChannel(c, p, n) ==
    IF bTemporary[c] THEN UNCHANGED <<dbParent, dbName>>
    ELSE /\ dbParent' = [dbParent EXCEPT ![c] = p]
         /\ dbName' = [dbName EXCEPT ![c] = n]

Changed(c, p, n) ==
    /\ cParent' = [cParent EXCEPT ![c] = p]
    /\ qsName' = [qsName EXCEPT ![c] = n]
    /\ updateChannel(c, p, n)
    /\ UNCHANGED <<qhChannels, bTemporary, qsDBDriver>>

\* msgChannelState with a new name only.
Rename(c, n) ==
    /\ c \in qhChannels \ {Root}
    /\ ~SiblingNamed(cParent[c], n)
    /\ Changed(c, cParent[c], n)
    /\ UNCHANGED <<qhLinks, cChannel, posted, dbLinks>>

\* Faulty variant: a channel may be moved anywhere.
MayMove_Anywhere(c, p) == p # cParent[c] /\ ~bTemporary[p]

\* Faulty variant: a channel may be moved under a temporary one.
MayMove_Temporary(c, p) == p # cParent[c] /\ p \notin Below(c)

MayMove(c, p) == p # cParent[c] /\ p \notin Below(c) /\ ~bTemporary[p]

\* Faulty variant: the name is looked for where the channel comes from.
NameTaken_Before(c, p, n) == SiblingNamed(cParent[c], n)

NameTaken(c, p, n) == SiblingNamed(p, n)

\* msgChannelState with a new parent, perhaps with a new name.
Reparent(c, p, n) ==
    /\ c \in qhChannels /\ p \in qhChannels
    /\ n # qsName[c] => c # Root
    /\ MayMove(c, p)
    /\ ~NameTaken(c, p, n)
    /\ Changed(c, p, n)
    /\ UNCHANGED <<qhLinks, cChannel, posted, dbLinks>>

\* Faulty variant: one end only.
linked_OneWay(c, l) == [qhLinks EXCEPT ![c] = @ \cup {l}]

\* Channel::link: both ends.
linked(c, l) ==
    [x \in qhChannels |-> qhLinks[x] \cup (IF x = c THEN {l} ELSE {})
                                     \cup (IF x = l THEN {c} ELSE {})]
unlinked(c, l) ==
    [x \in qhChannels |-> qhLinks[x] \ ((IF x = c THEN {l} ELSE {})
                                        \cup (IF x = l THEN {c} ELSE {}))]

InDb(c, l) == ~bTemporary[c] /\ ~bTemporary[l]

\* addLink and removeLink, for msgChannelState: rows for both directions.
AddLink(c, l) ==
    /\ {c, l} \subseteq qhChannels \cap Linkable
    /\ qhLinks' = linked(c, l)
    /\ dbLinks' = IF InDb(c, l) THEN dbLinks \cup {<<c, l>>, <<l, c>>} ELSE dbLinks
    /\ UNCHANGED <<tree, cChannel, posted, dbParent, dbName, qsDBDriver>>

RemoveLink(c, l) ==
    /\ {c, l} \subseteq qhChannels
    /\ qhLinks' = unlinked(c, l)
    /\ dbLinks' = IF InDb(c, l) THEN dbLinks \ {<<c, l>>, <<l, c>>} ELSE dbLinks
    /\ UNCHANGED <<tree, cChannel, posted, dbParent, dbName, qsDBDriver>>

\* Faulty variant: each level of the recursion moves its users one level up.
Refuge_OneUp(c, x) == cParent[x]

\* Where the users of x go when c, at or above x, is removed.
Refuge(c, x) == cParent[c]

LinksWithout(gone) == [c \in qhChannels \ gone |-> qhLinks[c] \ gone]

\* The rows of the links that go with the channels removed: SQLite's trigger looks
\* at both ends, MySQL's foreign key at the first.
LinkRowsGone(gone) ==
    {l \in dbLinks : l[1] \in gone \/ (qsDBDriver = "QSQLITE" /\ l[2] \in gone)}

RowsWithout(gone) ==
    /\ dbParent' = Without(dbParent, gone)
    /\ dbName' = Without(dbName, gone)
    /\ dbLinks' = dbLinks \ LinkRowsGone(gone)
    /\ UNCHANGED qsDBDriver

\* removeChannel: with all channels below c, whose users go to the parent of c.
\* Leaving a temporary channel empty posts its removal although it is under way;
\* the order of those follows the order of sub-channels, which is not modelled.
removeChannel(c, pending) ==
    LET gone == Below(c)
        emptied == {x \in gone : bTemporary[x] /\ UsersIn(x) # {}}
    IN  /\ qhChannels' = qhChannels \ gone
        /\ cParent' = Without(cParent, gone)
        /\ qsName' = Without(qsName, gone)
        /\ bTemporary' = Without(bTemporary, gone)
        /\ qhLinks' = LinksWithout(gone)
        /\ cChannel' = [u \in Users |-> IF cChannel[u] \in gone THEN Refuge(c, cChannel[u])
                                                                ELSE cChannel[u]]
        /\ \E order \in SetToSeqs(emptied) : posted' = pending \o order
        /\ RowsWithout(gone)

\* msgChannelRemove, and removeChannel of the RPC interfaces.
ChannelRemove(c) ==
    /\ Len(posted) + Cardinality(Users) <= MaxEvents
    /\ c \in qhChannels \ {Root}
    /\ removeChannel(c, posted)

\* customEvent: the removal posted first is carried out, if there is a channel
\* of that number.
Exec ==
    /\ posted # <<>>
    /\ Len(posted) + Cardinality(Users) <= MaxEvents + 1
    /\ IF Head(posted) \in qhChannels
       THEN removeChannel(Head(posted), Tail(posted))
       ELSE posted' = Tail(posted) /\ UNCHANGED <<tree, qhLinks, cChannel, db>>

-----------------------------------------------------------------------------
(* RPC.cpp, MurmurIce.cpp, DBus.cpp *)

\* MySQL wants the row of the parent: a permanent channel put into a temporary one
\* is an SQL error, on which the server aborts (which is Restart).
MayBeParent(p) == qsDBDriver = "QSQLITE" \/ p \in DOMAIN dbParent

RpcAddChannel(p, n) ==
    /\ p \in qhChannels /\ MayBeParent(p)
    /\ addChannel(p, n, FALSE)
    /\ UNCHANGED <<cChannel, posted>>

\* setChannelState with the parent, the name and the links it is to have.  The
\* loop that removes links goes over the new set, and never finds one to remove.
RpcSetState(c, p, n, links) ==
    LET add == links \ qhLinks[c]
        to == IF c = Root \/ p = c THEN cParent[c] ELSE p
    IN  /\ c \in qhChannels /\ p \in qhChannels /\ links \subseteq qhChannels
        /\ p # c => p \notin Below(c)
        /\ bTemporary[c] \/ to = None \/ MayBeParent(to)
        /\ Changed(c, to, n)
        /\ qhLinks' = [x \in qhChannels |->
               (IF x = c THEN qhLinks[c] \cup add ELSE qhLinks[x])
               \cup (IF x \in add THEN {c} ELSE {})]
        /\ dbLinks' = dbLinks \cup UNION {{<<c, l>>, <<l, c>>} : l \in {x \in add : InDb(c, x)}}
        /\ UNCHANGED <<cChannel, posted>>

\* ... refused because of the parent, after the name was set.
RpcSetStateRefused(c, p, n) ==
    /\ c \in qhChannels /\ p \in Below(c) \ {c}
    /\ qsName' = [qsName EXCEPT ![c] = n]
    /\ UNCHANGED <<qhChannels, cParent, bTemporary, qhLinks, cChannel, posted, db>>

-----------------------------------------------------------------------------
\* The rows reachable from the root: what readChannels will find.
Stored == Subtree(Root, DOMAIN dbParent, dbParent)

Row(c, l) == <<c, l>> \in dbLinks \/ <<l, c>> \in dbLinks

\* The server starts, with what the database now holds.
Started ==
    /\ qhChannels' = Stored'
    /\ cParent' = [c \in Stored' |-> dbParent'[c]]
    /\ qsName' = [c \in Stored' |-> dbName'[c]]
    /\ bTemporary' = [c \in Stored' |-> FALSE]
    /\ qhLinks' = [c \in Stored' |-> {l \in Stored' : Row(c, l)'}]
    /\ cChannel' = [u \in Users |-> None]
    /\ posted' = <<>>

\* The server stops, however it does, and starts again.
Restart == UNCHANGED db /\ Started

\* The channels whose rows are gone when a removal of c is cut short: with each one
\* all below it, and one sub-channel after the other.
CutRemoval(c) ==
    {gone \in SUBSET Below(c) :
        /\ \A x \in Below(c) : cParent[x] \in gone => x \in gone
        /\ \A x, y \in Below(c) \ gone :
              cParent[x] = cParent[y] /\ Below(x) \cap gone # {} /\ Below(y) \cap gone # {} => x = y}

\* The server stops between two calls of a removal, and starts again.
RestartInRemoval(c) ==
    /\ c \in qhChannels \ {Root}
    /\ Online # {} \/ Rpc \/ (posted # <<>> /\ Head(posted) = c)
    /\ \E gone \in CutRemoval(c) : RowsWithout(gone)
    /\ Started

UserStep == \E u \in Users :
    \/ Disconnect(u)
    \/ \E c \in qhChannels : Connect(u, c) \/ Enter(u, c)
    \/ \E p \in qhChannels, n \in Names, temporary \in BOOLEAN : Create(u, p, n, temporary)

\* Only users who are there send messages.
MessageStep ==
    /\ Online # {}
    /\ \E c \in qhChannels :
          \/ ChannelRemove(c)
          \/ \E n \in Names : Rename(c, n) \/ \E p \in qhChannels : Reparent(c, p, n)
          \/ \E l \in qhChannels : AddLink(c, l) \/ RemoveLink(c, l)

RpcStep ==
    /\ Rpc
    /\ \E c \in qhChannels, n \in Names :
          \/ RpcAddChannel(c, n)
          \/ \E p \in qhChannels : RpcSetStateRefused(c, p, n)
          \/ \E p \in qhChannels, links \in SUBSET (qhChannels \cap Linkable) :
                RpcSetState(c, p, n, links)

Next ==
    \/ UserStep \/ MessageStep \/ RpcStep \/ Exec
    \/ Restart \/ \E c \in qhChannels : RestartInRemoval(c)

Spec == Init /\ [][Next]_vars

-----------------------------------------------------------------------------
(* Types; parents, links and users are on channels that exist.                 *)
TypeOK ==
    /\ qhChannels \subseteq Ids /\ Root \in qhChannels
    /\ cParent \in [qhChannels -> qhChannels \cup {None}]
    /\ qsName \in [qhChannels -> Names]
    /\ bTemporary \in [qhChannels -> BOOLEAN]
    /\ qhLinks \in [qhChannels -> SUBSET qhChannels]
    /\ cChannel \in [Users -> qhChannels \cup {None}]
    /\ posted \in Seq(Ids) /\ Len(posted) <= MaxEvents
    /\ DOMAIN dbParent \subseteq Ids /\ Root \in DOMAIN dbParent
    /\ dbParent \in [DOMAIN dbParent -> Ids \cup {None}]
    /\ dbName \in [DOMAIN dbParent -> Names]

(* Whatever is moved where, by clients or by RPC, every channel hangs on the   *)
(* root: permission checks walk up the parents and would not end on a cycle.   *)
TreeOK == cParent[Root] = None /\ qhChannels = Below(Root)

(* Links go both ways, so that removing either end leaves no dangling pointer  *)
(* for allLinks to follow.                                                     *)
LinksSymmetric == \A c, l \in qhChannels : l \in qhLinks[c] <=> c \in qhLinks[l]

(* "There can not be two channels with the same parent that has the same name" *)
NamesUnique ==
    \A c, d \in qhChannels : c # d /\ cParent[c] = cParent[d] => qsName[c] # qsName[d]

(* A temporary channel has no sub-channels: removing it when it is empty takes *)
(* nothing else away.                                                          *)
TempLeaf == \A c \in qhChannels \ {Root} : ~bTemporary[cParent[c]]

(* A temporary channel never stays behind empty: its removal is on the way.    *)
EmptyGoes ==
    \A c \in qhChannels : bTemporary[c] /\ UsersIn(c) = {} => \E i \in DOMAIN posted : posted[i] = c

(* A restart brings back the permanent channels, where they were, with their   *)
(* names and their links to each other, and no row is left that no restart     *)
(* reads: also when the server stopped in the midst of a removal.  With SQLite *)
(* no other link comes back.                                                   *)
RestartRestores ==
    LET kept == {c \in qhChannels : ~bTemporary[c]}
    IN  /\ Stored = kept /\ DOMAIN dbParent = kept
        /\ \A c \in kept : dbParent[c] = cParent[c] /\ dbName[c] = qsName[c]
        /\ \A c, l \in kept : /\ l \in qhLinks[c] => Row(c, l)
                              /\ qsDBDriver = "QSQLITE" /\ Row(c, l) => l \in qhLinks[c]

(* With MySQL one may: the row of a link to a channel that was removed stays,  *)
(* and links whatever channel is given its number next.                        *)
NoLinkRevived ==
    \A c, l \in qhChannels : ~bTemporary[c] /\ ~bTemporary[l] /\ Row(c, l) => l \in qhLinks[c]

(* "will be removed when the last user leaves it": a posted removal finds the  *)
(* channel still without users ...                                             *)
RemovedWhenEmpty ==
    [][Exec => \A u \in Users : cChannel[u] = Head(posted) => cChannel'[u] = cChannel[u]]_vars

(* ... and, as numbers are used again, removes temporary channels only.        *)
RemovedIfTemporary ==
    [][Exec /\ Head(posted) \in qhChannels => bTemporary[Head(posted)]]_vars

(* "You can use this to move or relink channels": after setChannelState the    *)
(* channel has the links it was given.                                         *)
RelinkedAsAsked ==
    [][\A c, p \in qhChannels, n \in Names, links \in SUBSET (qhChannels \cap Linkable) :
           Rpc /\ RpcSetState(c, p, n, links) => qhLinks'[c] = links]_vars
=============================================================================
