----------------------------- MODULE ServerACL -----------------------------
(***************************************************************************)
(* Access control of murmur: how the ACL entries and groups of the         *)
(* channels decide what a user may do (ChanACL::hasPermission,             *)
(* Group::isMember), the cache of these decisions (acCache), the copy of   *)
(* them each client was sent (qmPermissionSent), and the handlers that     *)
(* change what the decisions depend on, some of which flush the cache.     *)
(***************************************************************************)
EXTENDS Integers, Sequences, FiniteSets, SequencesExt

CONSTANTS
    Channels,    \* numbers; 0 is the root
    Users,       \* ServerUser objects; a later user may get the address of an earlier one
    Session,     \* the session number of each
    Hashed,      \* the users with a certificate
    Registered,  \* numbers of registered users; 0 is SuperUser
    GroupNames,
    Initial,     \* the ACL of each channel at first
    Settings,    \* bound: per channel, what its ACL is set to
    TempIn,      \* bound: the channels where temporary members are made
    TempIds,     \* bound: the numbers that setTempGroups is given, by DBus any
    Movable,     \* bound: the channels that are moved
    NoGroup, Uncached,  \* in place of a group, and of cached permissions
    MaxSent      \* the client's copy is dropped once it has so many channels (20)

Root == 0
None == -1       \* no channel; as a user number: not registered
Perms == {"Write", "Traverse", "Enter", "Speak"}
Default == {"Traverse", "Enter", "Speak"}

\* Who an entry is about: a user number, or a group with its prefixes ! and ~.
\* A name that is a user stands for $hash, the group of that certificate.
Whos == [userId : Registered \cup {None},
         group : GroupNames \cup {"none", "all", "auth", "in", "out"} \cup Users,
         invert : BOOLEAN, local : BOOLEAN]
Entries == [who : Whos, here : BOOLEAN, subs : BOOLEAN, allow : SUBSET Perms, deny : SUBSET Perms]
TempKeys == TempIds \cup {-Session[u] : u \in Users}
Groups == [inherit : BOOLEAN, inheritable : BOOLEAN, add : SUBSET Registered,
           remove : SUBSET Registered, temp : SUBSET TempKeys]
ACLs == [inherit : BOOLEAN, list : Seq(Entries), groups : [GroupNames -> Groups \cup {NoGroup}]]

ASSUME ACLAssumption ==
    /\ IsFiniteSet(Channels) /\ Channels \subseteq Nat /\ Root \in Channels
    /\ IsFiniteSet(Users) /\ Hashed \subseteq Users
    /\ Registered \subseteq Nat /\ TempIds \subseteq Int
    /\ \A u \in Users : Session[u] \in Nat \ {0}
    /\ Users \cap (GroupNames \cup {"none", "all", "auth", "in", "out"}) = {}
    /\ Initial \in [Channels -> ACLs]
    /\ \A c \in Channels : Settings[c] \subseteq ACLs
    /\ \A g \in Groups : NoGroup # g
    /\ \A set \in SUBSET Perms : Uncached # set
    /\ TempIn \subseteq Channels /\ Movable \subseteq Channels \ {Root}
    /\ MaxSent \in Nat

VARIABLES
    cParent,
    acl,         \* per channel bInheritACL, qlACL and qhGroups
    cChannel,    \* the channel of a user, None when not connected
    iId,         \* the number of a user, None when not registered
    acCache,     \* per user and channel
    sent,        \* qmPermissionSent: what the client was told, per user
    unflushed    \* history: users for whom something may have changed without a flush

vars == <<cParent, acl, cChannel, iId, acCache, sent, unflushed>>

Online == {u \in Users : cChannel[u] # None}

-----------------------------------------------------------------------------
(* Groups (Group::isMember) *)

\* The channels from the root down to c.
Line(parent, c) ==
    LET line[d \in Channels] == IF parent[d] = None THEN <<d>> ELSE Append(line[parent[d]], d)
    IN  line[c]

\* The group of that name in the i-th channel of a line counts in the last one:
\* it is the last one's own, or inheritable, and no group below it cuts it off.
Counts(A, line, name, i) ==
    LET group(j) == A[line[j]].groups[name]
        reaches(j) == j = Len(line) \/ group(j).inheritable
    IN  /\ group(i) # NoGroup
        /\ reaches(i)
        /\ \A j \in i + 1 .. Len(line) : group(j) # NoGroup => group(j).inherit /\ reaches(j)

\* The groups that count are replayed from the top: the last word on u holds.
\* Temporary members are user numbers, or session numbers with a minus sign.
InGroup(A, line, name, u, id) ==
    LET counting == {i \in DOMAIN line : Counts(A, line, name, i)}
        group(i) == A[line[i]].groups[name]
    IN  \E i \in counting :
          /\ id \in group(i).add \cup group(i).temp \/ -Session[u] \in group(i).temp
          /\ \A j \in counting : j >= i => id \notin group(j).remove

\* u, whose number is id and whose channel is at, belongs to who, in an entry
\* of aclChan evaluated for the last channel of line.
isMember(A, line, aclChan, who, u, id, at) ==
    LET n == IF who.local THEN CHOOSE i \in DOMAIN line : line[i] = aclChan ELSE Len(line)
        m == CASE who.group = "none" -> FALSE
               [] who.group = "all" -> TRUE
               [] who.group = "auth" -> id >= 0
               [] who.group = "in" -> at = line[n]
               [] who.group = "out" -> at # line[n]
               [] who.group \in Users -> who.group = u /\ u \in Hashed
               [] OTHER -> InGroup(A, SubSeq(line, 1, n), who.group, u, id)
    IN  m # who.invert

-----------------------------------------------------------------------------
(* Permissions (ChanACL::hasPermission) *)

\* Faulty variant: within one entry, what is allowed prevails.
Heard_AllowLast(set, e) == (set \ e.deny) \cup e.allow

\* Within one entry, what is denied prevails.
Heard(set, e) == (set \cup e.allow) \ e.deny

\* Entry e of channel ch, which matches.  Traverse and Write are followed
\* whether or not the entry applies to chan.
Apply(state, e, ch, chan) ==
    [state EXCEPT !.granted = IF (IF ch = chan THEN e.here ELSE e.subs) THEN Heard(@, e) ELSE @,
                  !.path = Heard(@, e) \cap {"Traverse", "Write"}]

\* Entry e of channel ch is about u.
Matches(A, line, ch, e, u, id, at) ==
    \/ e.who.userId # None /\ e.who.userId = id
    \/ isMember(A, line, ch, e.who, u, id, at)

\* The entries of channel ch in turn, from what holds above.
Heed(A, line, ch, list, above, u, id, at) ==
    LET heed[n \in 0 .. Len(list)] ==
          IF n = 0 THEN above
          ELSE LET before == heed[n - 1]
               IN  IF Matches(A, line, ch, list[n], u, id, at)
                   THEN Apply(before, list[n], ch, Last(line)) ELSE before
    IN  heed[Len(list)]

\* What is granted above a, which may not inherit it.
Above(a, state) == IF a.inherit THEN state ELSE [state EXCEPT !.granted = Default]

\* What the walk from the root to the last channel of line grants.
Walk(A, line, u, id, at) ==
    LET walk[n \in 0 .. Len(line)] ==
          IF n = 0 THEN [granted |-> Default, path |-> {"Traverse"}]
          ELSE LET state == walk[n - 1]
                   ch == line[n]
               IN  IF state.path = {} THEN state
                   ELSE Heed(A, line, ch, A[ch].list, Above(A[ch], state), u, id, at)
        end == walk[Len(line)]
    IN  IF end.path = {} THEN {} ELSE end.granted

\* For every channel, what u may do there as user number id, being in channel at.
Grants(parent, A, u, id, at) == [c \in Channels |-> Walk(A, Line(parent, c), u, id, at)]

Granted(u) == Grants(cParent, acl, u, iId[u], cChannel[u])

\* hasPermission for a row of the cache: SuperUser may do anything but speak.
Allowed(id, cached, granted, c, perm) ==
    LET set == IF cached[c] # Uncached THEN cached[c] ELSE granted[c]
    IN  IF id = 0 THEN perm # "Speak"
        ELSE IF perm = "Speak" THEN perm \in set
        ELSE set \cap {perm, "Write"} # {}

-----------------------------------------------------------------------------
(* The cache *)

Rows == [Channels -> (SUBSET Perms) \cup {Uncached}]
NoRow == [c \in Channels |-> Uncached]

\* What a client may have been told, at first nothing.
Copies == UNION {[told -> SUBSET Perms] : told \in SUBSET Channels}
Nothing == [c \in {} |-> Uncached]

\* SuperUser's decisions are neither cached nor sent.
Kept(id, channels) == IF id = 0 THEN {} ELSE channels \ {None}

\* hasPermission leaves its decisions for these channels in the cache.
Filled(row, granted, channels) ==
    [c \in Channels |-> IF c \in channels /\ row[c] = Uncached THEN granted[c] ELSE row[c]]

\* sendClientPermission tells the client what the cache holds.
Told(copy, row, channels) ==
    [c \in DOMAIN copy \cup channels |-> IF c \in channels THEN row[c] ELSE copy[c]]

\* Faulty variant: only the size of the copy is looked at.
StillTrue_Size(copy, granted) == Cardinality(DOMAIN copy) < MaxSent

\* All that the client was told is as before.
StillTrue(copy, granted) ==
    /\ Cardinality(DOMAIN copy) < MaxSent
    /\ \A c \in DOMAIN copy : copy[c] = granted[c]

\* Faulty variant: the row is looked at, but not taken out.
Taken_Not(row) == row

\* acCache.take: nothing is left of the row.
Taken(row) == NoRow

\* flushClientPermissionCache, the row just taken: the channels are compared in
\* order up to the first that changed; then the client forgets all and is told
\* about one, that it asked for last (which may be any).
Flushed(row, copy, granted) ==
    LET Same(c) == copy[c] = granted[c]
        compared == IF Cardinality(DOMAIN copy) >= MaxSent THEN {}
                    ELSE {c \in DOMAIN copy : \A d \in DOMAIN copy : d < c => Same(d)}
    IN  IF StillTrue(copy, granted)
        THEN {[row |-> Filled(Taken(row), granted, compared), sent |-> copy]}
        ELSE {LET filled == Filled(Taken(row), granted, compared \cup {last})
              IN  [row |-> filled, sent |-> [c \in {last} |-> filled[c]]] : last \in Channels}

\* clearACLCache(u), when u is to have these grants.
ClearUser(u, granted) ==
    \E f \in Flushed(acCache[u], sent[u], granted) :
       /\ acCache' = [acCache EXCEPT ![u] = f.row]
       /\ sent' = [sent EXCEPT ![u] = f.sent]

\* clearACLCache(NULL): all rows go and those connected are told.
ClearAll(A, copies) ==
    LET flushed == [u \in Users |->
          IF u \notin Online THEN {[row |-> NoRow, sent |-> copies[u]]}
          ELSE Flushed(NoRow, copies[u], Grants(cParent, A, u, iId[u], cChannel[u]))]
    IN  {all \in [Users -> UNION Range(flushed)] : \A u \in Users : all[u] \in flushed[u]}

Init ==
    /\ cParent = [c \in Channels |-> IF c = Root THEN None ELSE Root]
    /\ acl = Initial
    /\ cChannel = [u \in Users |-> None]
    /\ iId = [u \in Users |-> None]
    /\ acCache = [u \in Users |-> NoRow]
    /\ sent = [u \in Users |-> Nothing]
    /\ unflushed = {}

-----------------------------------------------------------------------------
(* Users coming, moving and going *)

\* msgAuthenticate: u, authenticated as id, gets into its last channel c if it
\* may, by what the cache holds for that address.
Login(u, id, c) ==
    LET before == Grants(cParent, acl, u, id, None)
        entered == IF Allowed(id, acCache[u], before, c, "Enter") THEN c ELSE Root
        granted == Grants(cParent, acl, u, id, entered)
        here == Kept(id, {entered, cParent[entered]})
        row == Filled(NoRow, granted, here)
    IN  /\ u \notin Online
        /\ id = None \/ \A v \in Online : iId[v] # id
        /\ cChannel' = [cChannel EXCEPT ![u] = entered]
        /\ iId' = [iId EXCEPT ![u] = id]
        /\ acCache' = [acCache EXCEPT ![u] = row]
        /\ sent' = [sent EXCEPT ![u] = Told(Nothing, row, here)]
        /\ unflushed' = unflushed \ {u}
        /\ UNCHANGED <<cParent, acl>>

userEnterChannel(u, c) ==
    /\ u \in Online
    /\ cChannel' = [cChannel EXCEPT ![u] = c]
    /\ LET granted == Grants(cParent, acl, u, iId[u], c)
           here == Kept(iId[u], {c, cParent[c]})
       IN  \E f \in Flushed(acCache[u], sent[u], granted) :
             LET row == Filled(f.row, granted, here)
             IN  /\ acCache' = [acCache EXCEPT ![u] = row]
                 /\ sent' = [sent EXCEPT ![u] = Told(f.sent, row, here)]
    /\ unflushed' = unflushed \ {u}
    /\ UNCHANGED <<cParent, acl, iId>>

\* connectionClosed: the flush fills the row of u again before u is deleted.
connectionClosed(u) ==
    /\ u \in Online
    /\ \E f \in Flushed(acCache[u], sent[u], Granted(u)) : acCache' = [acCache EXCEPT ![u] = f.row]
    /\ cChannel' = [cChannel EXCEPT ![u] = None]
    /\ iId' = [iId EXCEPT ![u] = None]
    /\ sent' = [sent EXCEPT ![u] = Nothing]
    /\ unflushed' = unflushed \cup {u}
    /\ UNCHANGED <<cParent, acl>>

\* Any handler that needs a permission of u in c.
hasPermission(u, c) ==
    /\ u \in Online
    /\ acCache' = [acCache EXCEPT ![u] = Filled(@, Granted(u), Kept(iId[u], {c}))]
    /\ UNCHANGED <<cParent, acl, cChannel, iId, sent, unflushed>>

\* msgPermissionQuery
sendClientPermission(u, c) ==
    LET here == Kept(iId[u], {c})
        row == Filled(acCache[u], Granted(u), here)
    IN  /\ u \in Online
        /\ acCache' = [acCache EXCEPT ![u] = row]
        /\ sent' = [sent EXCEPT ![u] = Told(@, row, here)]
        /\ UNCHANGED <<cParent, acl, cChannel, iId, unflushed>>

-----------------------------------------------------------------------------
(* Changes to the ACLs and groups *)

\* What is set for c, whose groups keep their temporary members.
Replaced(c, s) ==
    [acl EXCEPT ![c] = [s EXCEPT !.groups = [g \in GroupNames |->
        IF s.groups[g] = NoGroup \/ acl[c].groups[g] = NoGroup THEN s.groups[g]
        ELSE [s.groups[g] EXCEPT !.temp = acl[c].groups[g].temp]]]]

\* The entry that gives Write on a channel back to u, by number or certificate.
OwnEntry(u) ==
    [who |-> [userId |-> iId[u], group |-> IF iId[u] = None THEN u ELSE "none",
              invert |-> FALSE, local |-> FALSE],
     here |-> TRUE, subs |-> FALSE, allow |-> {"Write", "Traverse"}, deny |-> {}]

\* Faulty variant: whether u may still write is asked before the flush.
MayWrite_Stale(u, c, A) ==
    Allowed(iId[u], acCache[u], Grants(cParent, A, u, iId[u], cChannel[u]), c, "Write")

MayWrite(u, c, A) ==
    Allowed(iId[u], NoRow, Grants(cParent, A, u, iId[u], cChannel[u]), c, "Write")

\* The entry is needed: u has a number or a certificate, and asked lost it Write.
GivenBack(u, c, asked) == ~MayWrite(u, c, asked) /\ (iId[u] >= 0 \/ u \in Hashed)

\* u may edit the ACL of c, which becomes s and, if need be, the entry for u.
Edit(u, c, s) ==
    LET May(d) == d # None /\ Allowed(iId[u], acCache[u], Granted(u), d, "Write")
        asked == Replaced(c, s)
    IN  /\ u \in Online
        /\ May(c) \/ May(cParent[c])
        /\ acl' = IF GivenBack(u, c, asked) THEN [asked EXCEPT ![c].list = Append(@, OwnEntry(u))]
                  ELSE asked

\* Everything is flushed after the edit, and again after the entry for u.
msgACL(u, c, s) ==
    /\ Edit(u, c, s)
    /\ UNCHANGED <<cParent, cChannel, iId>>
    /\ LET asked == Replaced(c, s)
           again == acl' # asked
           granted == Granted(u)'
           own == IF again THEN {} ELSE Kept(iId[u], {c})
       IN  \E first \in ClearAll(asked, sent) :
           \E last \in IF again THEN ClearAll(acl', [v \in Users |-> first[v].sent]) ELSE {first} :
             /\ acCache' = [v \in Users |->
                   IF v = u THEN Filled(last[v].row, granted, own) ELSE last[v].row]
             /\ sent' = [v \in Users |-> last[v].sent]
    /\ unflushed' = {}

\* setACL of the RPC interfaces.
setACL(c, s) ==
    /\ acl' = Replaced(c, s)
    /\ \E cleared \in ClearAll(acl', sent) :
         /\ acCache' = [v \in Users |-> cleared[v].row]
         /\ sent' = [v \in Users |-> cleared[v].sent]
    /\ unflushed' = {}
    /\ UNCHANGED <<cParent, cChannel, iId>>

\* A group with these temporary members, made if it is not there.
WithTemp(group, temp) ==
    IF group # NoGroup THEN [group EXCEPT !.temp = temp]
    ELSE [inherit |-> TRUE, inheritable |-> TRUE, add |-> {}, remove |-> {}, temp |-> temp]

TempOf(c, g) == IF acl[c].groups[g] = NoGroup THEN {} ELSE acl[c].groups[g].temp

\* Faulty variant: the user number in place of the session.
TempKey_User(u) == iId[u]

TempKey(u) == -Session[u]

\* A temporary member with that key is v, or counts as v.
Concerned(v, key) == iId[v] = key \/ -Session[v] = key

Concerning(key) == {v \in Online : Concerned(v, key)}

\* addUserToGroup and removeUserFromGroup, for the session of u.
TempGroup(u, c, g) ==
    /\ u \in Online /\ c \in TempIn
    /\ \E temp \in {TempOf(c, g) \cup {TempKey(u)}, TempOf(c, g) \ {TempKey(u)}} :
         acl' = [acl EXCEPT ![c].groups[g] = WithTemp(@, temp)]
    /\ ClearUser(u, Grants(cParent, acl', u, iId[u], cChannel[u]))
    /\ unflushed' = (unflushed \cup Concerning(TempKey(u))) \ {u}
    /\ UNCHANGED <<cParent, cChannel, iId>>

\* setTempGroups puts user number id into these groups of c and no others, and
\* flushes the user whose session has that number.  Over DBus id is any number.
setTempGroups(id, c, groups) ==
    LET temp(g) == (TempOf(c, g) \ {id}) \cup (IF g \in groups THEN {id} ELSE {})
        found == {u \in Online : Session[u] = id}
    IN  /\ c \in TempIn
        /\ acl' = [acl EXCEPT ![c].groups = [g \in GroupNames |->
                     IF acl[c].groups[g] = NoGroup /\ g \notin groups THEN NoGroup
                     ELSE WithTemp(acl[c].groups[g], temp(g))]]
        /\ \/ /\ found = {}
              /\ unflushed' = unflushed \cup Concerning(id)
              /\ UNCHANGED <<acCache, sent>>
           \/ \E u \in found :
                 /\ ClearUser(u, Grants(cParent, acl', u, iId[u], cChannel[u]))
                 /\ unflushed' = (unflushed \cup Concerning(id)) \ {u}
        /\ UNCHANGED <<cParent, cChannel, iId>>

-----------------------------------------------------------------------------
(* Changes that flush nothing, or too early *)

\* Registration in msgUserState.
Register(u, id) ==
    /\ u \in Online /\ iId[u] = None
    /\ id > 0 /\ \A v \in Users : iId[v] # id
    /\ iId' = [iId EXCEPT ![u] = id]
    /\ unflushed' = unflushed \cup {u}
    /\ UNCHANGED <<cParent, acl, cChannel, acCache, sent>>

\* A list without the entries about user number id.
Without(list, id) ==
    LET kept[n \in 0 .. Len(list)] ==
          IF n = 0 THEN <<>>
          ELSE IF list[n].who.userId = id THEN kept[n - 1] ELSE Append(kept[n - 1], list[n])
    IN  kept[Len(list)]

\* An ACL without the entries about user number id and its memberships.
Forgot(a, id) ==
    [a EXCEPT !.list = Without(@, id),
              !.groups = [g \in GroupNames |-> IF a.groups[g] = NoGroup THEN NoGroup
                  ELSE [a.groups[g] EXCEPT !.add = @ \ {id}, !.remove = @ \ {id}]]]

\* The entries about user number id are about nobody else.  RPC may set others,
\* that are about a group as well.
OnlyNames(id) == \A c \in Channels : \A n \in DOMAIN acl[c].list :
    LET who == acl[c].list[n].who
    IN  who.userId = id => who.group = "none" /\ ~who.invert

\* The user is flushed while it still has the number.
unregisterUser(id) ==
    LET found == {u \in Online : iId[u] = id}
    IN  /\ id > 0
        /\ acl' = [c \in Channels |-> Forgot(acl[c], id)]
        /\ IF found = {} THEN UNCHANGED <<acCache, sent, iId>>
           ELSE \E u \in found :
                  /\ ClearUser(u, Grants(cParent, acl', u, id, cChannel[u]))
                  /\ iId' = [iId EXCEPT ![u] = None]
        /\ unflushed' = unflushed \cup (IF OnlyNames(id) THEN found ELSE Online)
        /\ UNCHANGED <<cParent, cChannel>>

\* A channel gets another parent, by msgChannelState or setChannelState.
MoveChannel(c, p) ==
    /\ c \in Movable /\ p # cParent[c]
    /\ c \notin Range(Line(cParent, p))
    /\ cParent' = [cParent EXCEPT ![c] = p]
    /\ unflushed' = Users
    /\ UNCHANGED <<acl, cChannel, iId, acCache, sent>>

Next ==
    \/ \E u \in Users, c \in Channels :
         \/ \E id \in Registered \cup {None} : Login(u, id, c)
         \/ userEnterChannel(u, c)
         \/ hasPermission(u, c)
         \/ sendClientPermission(u, c)
         \/ \E s \in Settings[c] : msgACL(u, c, s)
         \/ \E g \in GroupNames : TempGroup(u, c, g)
    \/ \E u \in Users : connectionClosed(u) \/ \E id \in Registered : Register(u, id)
    \/ \E c \in Channels : \E s \in Settings[c] : setACL(c, s)
    \/ \E id \in TempIds, c \in Channels, groups \in SUBSET GroupNames :
         setTempGroups(id, c, groups)
    \/ \E id \in Registered : unregisterUser(id)
    \/ \E c, p \in Channels : MoveChannel(c, p)

Spec == Init /\ [][Next]_vars

-----------------------------------------------------------------------------
(* Properties *)

\* Types of the variables.
TypeOK ==
    /\ cParent \in [Channels -> Channels \cup {None}]
    /\ acl \in [Channels -> ACLs]
    /\ cChannel \in [Users -> Channels \cup {None}]
    /\ iId \in [Users -> Registered \cup {None}]
    /\ acCache \in [Users -> Rows]
    /\ sent \in [Users -> Copies]
    /\ unflushed \subseteq Users

\* An entry on the way to a channel is <<position in line, position in list>>.
At(line, x) == acl[line[x[1]]].list[x[2]]

\* The entries about u on that way.
About(u, line) ==
    {x \in UNION {{i} \X DOMAIN acl[line[i]].list : i \in DOMAIN line} :
       Matches(acl, line, line[x[1]], At(line, x), u, iId[u], cChannel[u])}

Before(x, y) == x[1] < y[1] \/ (x[1] = y[1] /\ x[2] < y[2])

\* Of these entries, the last that mentions perm allows it; default if none does.
LastWord(perm, entries, line, default) ==
    LET mention == {x \in entries : perm \in At(line, x).allow \cup At(line, x).deny}
    IN  IF mention = {} THEN default
        ELSE \E x \in mention :
               perm \notin At(line, x).deny /\ \A y \in mention \ {x} : Before(y, x)

\* What hasPermission finds in one pass is the last word of each entry about
\* oneself: one has what the last says that applies to the channel, from the last
\* channel that does not inherit on, and else the default, if up to each channel
\* on the way the last words leave Traverse or Write.  For these two the last
\* entry counts whether or not it applies to the channel.
LastWordWins == \A u \in Online : LET granted == Granted(u) IN \A chan \in Channels :
    LET line == Line(cParent, chan)
        about == About(u, line)
        Up(n) == {x \in about : x[1] <= n}
        reached == \A n \in DOMAIN line :
            LastWord("Traverse", Up(n), line, TRUE) \/ LastWord("Write", Up(n), line, FALSE)
        applies == {x \in about :
            /\ \A i \in DOMAIN line : i > x[1] => acl[line[i]].inherit
            /\ IF x[1] = Len(line) THEN At(line, x).here ELSE At(line, x).subs}
    IN  granted[chan] = {perm \in Perms : reached /\ LastWord(perm, applies, line, perm \in Default)}

\* The cache holds what hasPermission would find now, in whatever order ACLs
\* are edited and users come, move and go, but for users to whom one of the
\* changes above applied that flush nothing (clearACLCache and its callers).
CacheFresh == \A u \in Online \ unflushed : LET granted == Granted(u) IN
    \A c \in Channels : acCache[u][c] \in {Uncached, granted[c]}

\* The same for what the clients were told (flushClientPermissionCache).
ToldRight == \A u \in Online \ unflushed : LET granted == Granted(u) IN
    \A c \in DOMAIN sent[u] : sent[u][c] = granted[c]

\* u, who is registered or has a certificate, edits the ACL of c.
Edits(u, c) ==
    /\ acl'[c] # acl[c] /\ iId'[u] = iId[u]
    /\ iId[u] >= 0 \/ u \in Hashed
    /\ \E s \in Settings[c] : Edit(u, c, s)

\* Such an edit never takes the editor's own right to edit (the entry that msgACL
\* adds), if he reaches the channel at all: groups of the channel may change
\* what entries above it mean.
KeepsWrite == [][\A u \in Users, c \in Channels : Edits(u, c) =>
    LET granted == Grants(cParent', acl', u, iId'[u], cChannel'[u])
    IN  \/ Allowed(iId'[u], NoRow, granted, c, "Write")
        \/ c # Root /\ granted[c] = {}]_vars

\* Counterexample: the same without the exception.
KeepsWriteAlways == [][\A u \in Users, c \in Channels :
    Edits(u, c) => Allowed(iId[u], NoRow, Granted(u), c, "Write")']_vars

\* Counterexample ("Does the ACL apply to this channel?", Murmur.ice): an entry
\* of a channel that does not apply there takes and gives nothing there.
AppliesAsSaid == \A u \in Online, chan \in Channels :
    LET said == [acl EXCEPT ![chan].list = SelectSeq(@, LAMBDA e : e.here)]
    IN  Granted(u)[chan] = Grants(cParent, said, u, iId[u], cChannel[u])[chan]

\* Counterexample: a temporary membership is that of one session only.
TempIsPersonal == [][acl' # acl => \A u \in Users, c \in Channels, g \in GroupNames :
    TempGroup(u, c, g) => \A v \in Online \ {u} : Granted(v)' = Granted(v)]_vars

=============================================================================
