-------------------------- MODULE ServerACLProofs --------------------------
(***************************************************************************)
(* Theorems about ServerACL, for all channels, users, groups, lists of     *)
(* entries and settings.  The recursive definitions of the model (lines in *)
(* the tree, the walk of hasPermission) are followed by induction over     *)
(* numbers, as the least counterexample, and over the tree, as the closure *)
(* that a tree is.                                                         *)
(***************************************************************************)
EXTENDS ServerACL, WellFoundedInduction, TLAPS

-----------------------------------------------------------------------------
(* Numbers: induction and recursion up to N                                  *)

\* A set of numbers has a smallest.
LEMMA Least ==
  ASSUME NEW S \in SUBSET Nat, S # {}
  PROVE  \E x \in S : \A y \in S : x <= y
  <1> DEFINE R == OpToRel(<, Nat)
  <1>1. IsWellFoundedOn(R, Nat)
    BY NatLessThanWellFounded
  <1>2. PICK x \in S : \A y \in S : <<y, x>> \notin R
    <2> HIDE DEF R
    <2> QED BY <1>1, WFMin
  <1>3. \A y \in S : x \in Nat /\ y \in Nat /\ (y < x => <<y, x>> \in R)
    BY DEF OpToRel
  <1> HIDE DEF R
  <1>4. \A y \in S : ~(y < x)
    BY <1>2, <1>3, Zenon
  <1>5. \A n, m \in Nat : ~(m < n) => n <= m
    OBVIOUS
  <1>6. \A y \in S : x <= y
    BY <1>3, <1>4, <1>5
  <1> QED BY <1>6

\* What holds of 0 and of each number after one it holds of, holds up to N.
LEMMA UpTo ==
  ASSUME NEW N \in Nat, NEW S, 0 \in S, \A n \in 1 .. N : n - 1 \in S => n \in S
  PROVE  \A n \in 0 .. N : n \in S
  <1> DEFINE bad == {n \in 0 .. N : n \notin S}
  <1> SUFFICES ASSUME bad # {} PROVE FALSE
    OBVIOUS
  <1>1. bad \in SUBSET Nat
    OBVIOUS
  <1>2. PICK x \in bad : \A y \in bad : x <= y
    <2> HIDE DEF bad
    <2> QED BY <1>1, Least
  <1>3. x \in 1 .. N /\ x - 1 \in 0 .. N /\ ~(x <= x - 1)
    BY <1>2
  <1>4. x - 1 \in S
    BY <1>2, <1>3
  <1> QED BY <1>2, <1>3, <1>4

\* Two functions that start alike and go on alike are alike.
GoAlike(f, g, N) == f[0] = g[0] /\ \A n \in 1 .. N : f[n - 1] = g[n - 1] => f[n] = g[n]

LEMMA Unique ==
  ASSUME NEW N \in Nat, NEW f, NEW g, GoAlike(f, g, N)
  PROVE  \A n \in 0 .. N : f[n] = g[n]
  <1> DEFINE S == {n \in 0 .. N : f[n] = g[n]}
  <1>1. 0 \in S /\ \A n \in 1 .. N : n - 1 \in S => n \in S
    BY DEF GoAlike
  <1>2. \A n \in 0 .. N : n \in S
    <2> HIDE DEF S
    <2> QED BY <1>1, UpTo
  <1> QED BY <1>2

\* f starts with first and goes on by step.
Follows(f, N, first, step) == f[0] = first /\ \A n \in 1 .. N : f[n] = step[n][f[n - 1]]

\* There is such a function.
LEMMA Recursion ==
  ASSUME NEW N \in Nat, NEW T, NEW first \in T,
         NEW step, \A n \in 1 .. N : \A s \in T : step[n][s] \in T
  PROVE  \E f \in [0 .. N -> T] : Follows(f, N, first, step)
  <1> DEFINE P(n, f) == Follows(f, n, first, step)
             S == {n \in 0 .. N : \E f \in [0 .. n -> T] : P(n, f)}
  <1>1. 0 \in S
    <2>1. [k \in 0 .. 0 |-> first] \in [0 .. 0 -> T] /\ P(0, [k \in 0 .. 0 |-> first])
      BY DEF Follows
    <2> HIDE DEF P
    <2> QED BY <2>1
  <1>2. ASSUME NEW n \in 1 .. N, n - 1 \in S PROVE n \in S
    <2>1. PICK f \in [0 .. n - 1 -> T] : P(n - 1, f)
      BY <1>2
    <2> DEFINE g == [k \in 0 .. n |-> IF k = n THEN step[n][f[n - 1]] ELSE f[k]]
    <2>2. n - 1 \in 0 .. n - 1 /\ \A k \in 0 .. n : k # n => k \in 0 .. n - 1
      OBVIOUS
    <2>3. f[n - 1] \in T /\ step[n][f[n - 1]] \in T
      BY <2>2
    <2>4. g \in [0 .. n -> T]
      BY <2>2, <2>3
    <2>5. g[0] = first /\ g[n] = step[n][f[n - 1]] /\ g[n - 1] = f[n - 1]
      BY <2>1, <2>2 DEF Follows
    <2>6. ASSUME NEW k \in 1 .. n PROVE g[k] = step[k][g[k - 1]]
      <3>1. CASE k = n
        BY <3>1, <2>5
      <3>2. CASE k # n
        <4>1. k \in 1 .. n - 1 /\ k - 1 \in 0 .. n /\ k - 1 # n /\ k \in 0 .. n
          BY <3>2
        <4>2. g[k] = f[k] /\ g[k - 1] = f[k - 1] /\ f[k] = step[k][f[k - 1]]
          BY <4>1, <3>2, <2>1 DEF Follows
        <4> QED BY <4>2
      <3> QED BY <3>1, <3>2
    <2>7. P(n, g)
      <3> HIDE DEF g
      <3> QED BY <2>5, <2>6 DEF Follows
    <2> HIDE DEF g, P
    <2> QED BY <2>4, <2>7
  <1>3. N \in S
    <2> HIDE DEF S
    <2>1. \A n \in 0 .. N : n \in S
      BY <1>1, <1>2, UpTo
    <2> QED BY <2>1
  <1> QED BY <1>3

-----------------------------------------------------------------------------
(* The tree, and the line from the root down to a channel                    *)

\* parent makes a tree, as a principle of induction.
Tree(parent) ==
    /\ parent \in [Channels -> Channels \cup {None}]
    /\ parent[Root] = None /\ \A c \in Channels \ {Root} : parent[c] \in Channels
    /\ \A S \in SUBSET Channels :
         Root \in S /\ (\A y \in Channels : parent[y] \in S => y \in S) => S = Channels

LEMMA ChannelNumbers == Channels \subseteq Nat /\ Root \in Channels /\ None \notin Channels
  BY ACLAssumption DEF Root, None

\* Line is what its recursive definition says.
LEMMA LineIs ==
  ASSUME NEW parent, Tree(parent)
  PROVE  /\ \A c \in Channels : Line(parent, c) \in Seq(Channels)
         /\ Line(parent, Root) = <<Root>>
         /\ \A c \in Channels \ {Root} : Line(parent, c) = Append(Line(parent, parent[c]), c)
  <1> DEFINE Pairs == Channels \X Seq(Channels)
             Step(Q) == /\ <<Root, <<Root>>>> \in Q
                        /\ \A y \in Channels \ {Root} : \A s \in Seq(Channels) :
                             <<parent[y], s>> \in Q => <<y, Append(s, y)>> \in Q
             R == {x \in Pairs : \A Q \in SUBSET Pairs : Step(Q) => x \in Q}
  <1>0. /\ Root \in Channels /\ parent[Root] = None /\ None \notin Channels
        /\ \A c \in Channels \ {Root} : parent[c] \in Channels
        /\ \A y \in Channels : \A s \in Seq(Channels) : Append(s, y) \in Seq(Channels)
        /\ <<Root>> \in Seq(Channels)
    BY ChannelNumbers DEF Tree
  <1>1. Step(R) /\ R \in SUBSET Pairs
    <2>1. <<Root, <<Root>>>> \in R
      BY <1>0
    <2>2. ASSUME NEW y \in Channels \ {Root}, NEW s \in Seq(Channels), <<parent[y], s>> \in R
          PROVE  <<y, Append(s, y)>> \in R
      BY <1>0, <2>2
    <2> QED BY <2>1, <2>2
  <1>2. \A Q \in SUBSET Pairs : Step(Q) => R \subseteq Q
    OBVIOUS
  <1> DEFINE One(c) == \E s \in Seq(Channels) :
                          <<c, s>> \in R /\ \A t \in Seq(Channels) : <<c, t>> \in R => t = s
             S == {c \in Channels : One(c)}
  <1>3. One(Root)
    <2> DEFINE Q == {x \in R : x[1] = Root => x[2] = <<Root>>}
    <2>1. Q \in SUBSET Pairs /\ <<Root, <<Root>>>> \in Q
      BY <1>1
    <2>2. ASSUME NEW y \in Channels \ {Root}, NEW s \in Seq(Channels), <<parent[y], s>> \in Q
          PROVE  <<y, Append(s, y)>> \in Q
      <3> HIDE DEF R
      <3> QED BY <2>2, <1>1
    <2>3. R \subseteq Q
      <3> HIDE DEF R, Q, Pairs
      <3> QED BY <2>1, <2>2, <1>2
    <2> HIDE DEF R
    <2> QED BY <2>3, <1>1, <1>0
  <1>4. ASSUME NEW y \in Channels \ {Root}, One(parent[y]) PROVE One(y)
    <2>1. PICK s \in Seq(Channels) :
            <<parent[y], s>> \in R /\ \A t \in Seq(Channels) : <<parent[y], t>> \in R => t = s
      BY <1>4
    <2>2. <<y, Append(s, y)>> \in R
      <3> HIDE DEF R
      <3> QED BY <2>1, <1>1
    <2> DEFINE Q == {x \in R : x[1] = y => x[2] = Append(s, y)}
    <2>3. Q \in SUBSET Pairs /\ <<Root, <<Root>>>> \in Q
      BY <1>1
    <2>4. ASSUME NEW z \in Channels \ {Root}, NEW t \in Seq(Channels), <<parent[z], t>> \in Q
          PROVE  <<z, Append(t, z)>> \in Q
      <3> HIDE DEF R
      <3>1. <<parent[z], t>> \in R /\ <<z, Append(t, z)>> \in R
        BY <2>4, <1>1
      <3>2. z = y => t = s
        BY <3>1, <2>1
      <3> QED BY <3>1, <3>2
    <2>5. R \subseteq Q
      <3> HIDE DEF R, Q, Pairs
      <3> QED BY <2>3, <2>4, <1>2
    <2>6. \A t \in Seq(Channels) : <<y, t>> \in R => t = Append(s, y)
      <3> HIDE DEF R
      <3> QED BY <2>5
    <2>7. Append(s, y) \in Seq(Channels)
      OBVIOUS
    <2> HIDE DEF R
    <2> QED BY <2>2, <2>6, <2>7
  <1>5. S = Channels
    <2> HIDE DEF One
    <2>1. S \in SUBSET Channels /\ Root \in S
      BY <1>3, <1>0
    <2>2. ASSUME NEW y \in Channels, parent[y] \in S PROVE y \in S
      BY <2>2, <1>4, <1>0
    <2> QED
      <3> HIDE DEF S
      <3> QED BY <2>1, <2>2 DEF Tree
  <1>6. PICK G \in [Channels -> Seq(Channels)] : \A c \in Channels : <<c, G[c]>> \in R
    <2> DEFINE g == [c \in Channels |-> CHOOSE s \in Seq(Channels) : <<c, s>> \in R]
    <2>1. g \in [Channels -> Seq(Channels)] /\ \A c \in Channels : <<c, g[c]>> \in R
      <3> HIDE DEF R
      <3> QED BY <1>5
    <2> HIDE DEF g, R
    <2> QED BY <2>1
  <1>7. \A c \in Channels : \A t \in Seq(Channels) : <<c, t>> \in R => t = G[c]
    <2> HIDE DEF R
    <2> QED BY <1>5, <1>6
  <1>8. G[Root] = <<Root>>
    <2> HIDE DEF R
    <2> QED BY <1>7, <1>1, <1>0
  <1>9. ASSUME NEW c \in Channels \ {Root} PROVE G[c] = Append(G[parent[c]], c)
    <2> HIDE DEF R
    <2>1. <<parent[c], G[parent[c]]>> \in R /\ G[parent[c]] \in Seq(Channels)
      BY <1>6, <1>0
    <2>2. <<c, Append(G[parent[c]], c)>> \in R
      BY <2>1, <1>1
    <2>3. Append(G[parent[c]], c) \in Seq(Channels)
      BY <2>1, <1>0
    <2> QED BY <2>2, <2>3, <1>7
  <1> DEFINE Body(f) == [d \in Channels |-> IF parent[d] = None THEN <<d>> ELSE Append(f[parent[d]], d)]
             L == CHOOSE f : f = Body(f)
  <1>10. G = Body(G)
    <2>1. \A d \in Channels : G[d] = IF parent[d] = None THEN <<d>> ELSE Append(G[parent[d]], d)
      BY <1>8, <1>9, <1>0
    <2>2. G = [d \in Channels |-> G[d]]
      BY <1>6
    <2> QED BY <2>1, <2>2, Zenon
  <1>11. L = Body(L)
    BY <1>10, Zenon
  <1>12. \A c \in Channels : Line(parent, c) = L[c]
    BY Zenon DEF Line
  <1>13. /\ L[Root] = <<Root>>
         /\ \A c \in Channels \ {Root} : L[c] = Append(L[parent[c]], c)
    <2> HIDE DEF L
    <2>1. \A d \in Channels : L[d] = IF parent[d] = None THEN <<d>> ELSE Append(L[parent[d]], d)
      BY <1>11, Zenon
    <2> QED BY <2>1, <1>0
  <1>14. \A c \in Channels : L[c] \in Seq(Channels)
    <2> DEFINE T == {c \in Channels : L[c] \in Seq(Channels)}
    <2> HIDE DEF L
    <2>1. T \in SUBSET Channels /\ Root \in T
      BY <1>13, <1>0
    <2>2. ASSUME NEW y \in Channels, parent[y] \in T PROVE y \in T
      BY <2>2, <1>13, <1>0
    <2>3. T = Channels
      <3> HIDE DEF T
      <3> QED BY <2>1, <2>2 DEF Tree
    <2> QED BY <2>3
  <1> HIDE DEF L
  <1> QED BY <1>0, <1>12, <1>13, <1>14

\* A line begins and ends where it should, and does not meet a channel twice.
LEMMA LineShape ==
  ASSUME NEW parent, Tree(parent), NEW c \in Channels
  PROVE  /\ Line(parent, c) \in Seq(Channels) /\ Len(Line(parent, c)) \in Nat \ {0}
         /\ Last(Line(parent, c)) = c
         /\ \A i \in DOMAIN Line(parent, c) :
              i # Len(Line(parent, c)) => Line(parent, c)[i] # c
  <1>0. /\ Root \in Channels /\ parent[Root] = None /\ None \notin Channels
        /\ \A d \in Channels \ {Root} : parent[d] \in Channels
    BY ChannelNumbers DEF Tree
  <1>1. /\ \A d \in Channels : Line(parent, d) \in Seq(Channels)
        /\ Line(parent, Root) = <<Root>>
        /\ \A d \in Channels \ {Root} : Line(parent, d) = Append(Line(parent, parent[d]), d)
    BY LineIs
  <1>2. CASE c = Root
    <2>1. Len(<<Root>>) = 1 /\ <<Root>>[1] = Root /\ DOMAIN <<Root>> = {1}
      OBVIOUS
    <2>2. Line(parent, c) \in Seq(Channels) /\ Line(parent, c) = <<Root>>
      BY <1>1, <1>2
    <2> QED BY <2>1, <2>2, <1>2 DEF Last
  <1>3. CASE c # Root
    <2> DEFINE p == parent[c]
               above == Line(parent, p)
               S == {d \in Channels : c \notin Range(Line(parent, d))}
    <2>1. p \in Channels /\ above \in Seq(Channels) /\ Line(parent, c) = Append(above, c)
      BY <1>3, <1>0, <1>1
    <2>2. c \notin Range(above)
      <3> SUFFICES ASSUME c \in Range(above) PROVE FALSE
        OBVIOUS
      <3>1. p \notin S
        OBVIOUS
      <3>2. S \in SUBSET Channels /\ Root \in S
        BY <1>1, <1>3, <1>0 DEF Range
      <3>3. ASSUME NEW y \in Channels, parent[y] \in S PROVE y \in S
        <4>1. y # c /\ y # Root
          BY <3>1, <3>3, <1>0
        <4>2. /\ Line(parent, parent[y]) \in Seq(Channels) /\ c \notin Range(Line(parent, parent[y]))
              /\ Line(parent, y) = Append(Line(parent, parent[y]), y)
          BY <4>1, <3>3, <1>0, <1>1
        <4>3. ASSUME NEW i \in DOMAIN Line(parent, y) PROVE Line(parent, y)[i] # c
          <5>1. i \in DOMAIN Line(parent, parent[y]) \/ Line(parent, y)[i] = y
            BY <4>2
          <5>2. i \in DOMAIN Line(parent, parent[y]) => Line(parent, y)[i] = Line(parent, parent[y])[i]
            BY <4>2
          <5> QED BY <5>1, <5>2, <4>1, <4>2 DEF Range
        <4> QED BY <4>3 DEF Range
      <3>4. S = Channels
        <4> HIDE DEF S
        <4> QED BY <3>2, <3>3 DEF Tree
      <3> QED BY <3>1, <3>4, <2>1
    <2>3. /\ Len(above) \in Nat
          /\ \A i \in DOMAIN Append(above, c) : i # Len(Append(above, c)) => i \in DOMAIN above
          /\ \A i \in DOMAIN above : Append(above, c)[i] = above[i]
          /\ Len(Append(above, c)) = Len(above) + 1
          /\ Append(above, c)[Len(above) + 1] = c
          /\ Append(above, c) \in Seq(Channels)
      BY <2>1
    <2> HIDE DEF above
    <2> QED BY <2>1, <2>2, <2>3 DEF Range, Last
  <1> QED BY <1>2, <1>3

\* What is not above itself may be moved below any channel it is not above.
LEMMA MovedTree ==
  ASSUME NEW parent, Tree(parent), NEW c \in Channels \ {Root}, NEW p \in Channels,
         c \notin Range(Line(parent, p))
  PROVE  Tree([parent EXCEPT ![c] = p])
  <1> DEFINE new == [parent EXCEPT ![c] = p]
             Below == {x \in Channels : c \in Range(Line(parent, x))}
  <1>0. /\ Root \in Channels /\ parent[Root] = None /\ None \notin Channels
        /\ \A d \in Channels \ {Root} : parent[d] \in Channels
        /\ parent \in [Channels -> Channels \cup {None}]
    BY ChannelNumbers DEF Tree
  <1>1. /\ new \in [Channels -> Channels \cup {None}]
        /\ new[Root] = None /\ \A d \in Channels \ {Root} : new[d] \in Channels
        /\ new[c] = p /\ \A d \in Channels : d # c => new[d] = parent[d]
    BY <1>0
  <1>2. c \in Below
    <2>1. /\ Line(parent, c) \in Seq(Channels) /\ Len(Line(parent, c)) \in Nat \ {0}
          /\ Line(parent, c)[Len(Line(parent, c))] = c
      BY LineShape DEF Last
    <2>2. Len(Line(parent, c)) \in DOMAIN Line(parent, c)
      BY <2>1
    <2> QED BY <2>1, <2>2 DEF Range
  <1>3. ASSUME NEW y \in Channels, parent[y] \in Below PROVE y \in Below
    <2>1. /\ y # Root /\ Line(parent, parent[y]) \in Seq(Channels)
          /\ Line(parent, y) = Append(Line(parent, parent[y]), y)
      BY <1>3, <1>0, LineIs
    <2>2. PICK i \in DOMAIN Line(parent, parent[y]) : Line(parent, parent[y])[i] = c
      BY <1>3 DEF Range
    <2>3. i \in DOMAIN Line(parent, y) /\ Line(parent, y)[i] = c
      BY <2>1, <2>2
    <2> QED BY <2>3 DEF Range
  <1>4. p \notin Below
    OBVIOUS
  <1> HIDE DEF new, Below
  <1>5. ASSUME NEW S \in SUBSET Channels, Root \in S, \A y \in Channels : new[y] \in S => y \in S
        PROVE  S = Channels
    <2>1. S \cup (Below \cap Channels) = Channels
      <3>1. \A y \in Channels : parent[y] \in S \cup (Below \cap Channels) => y \in S \cup (Below \cap Channels)
        BY <1>1, <1>2, <1>3, <1>5
      <3>2. S \cup (Below \cap Channels) \in SUBSET Channels /\ Root \in S \cup (Below \cap Channels)
        BY <1>5
      <3> HIDE <1>5
      <3> QED BY <3>1, <3>2 DEF Tree
    <2>2. c \in S
      BY <2>1, <1>4, <1>1, <1>5
    <2>3. \A y \in Channels : parent[y] \in S => y \in S
      BY <2>2, <1>1, <1>5
    <2> QED BY <2>3, <1>5 DEF Tree
  <1> QED BY <1>1, <1>5 DEF Tree, new

-----------------------------------------------------------------------------
(* The recursive definitions of hasPermission                                *)

States == [granted : SUBSET Perms, path : SUBSET {"Traverse", "Write"}]
First == [granted |-> Default, path |-> {"Traverse"}]

LEMMA ApplyType ==
  ASSUME NEW state \in States, NEW e \in Entries, NEW ch, NEW chan
  PROVE  Apply(state, e, ch, chan) \in States
  <1>1. e.allow \in SUBSET Perms
    BY DEF Entries
  <1>2. Heard(state.granted, e) \in SUBSET Perms
    BY <1>1 DEF Heard, States
  <1> QED BY <1>2 DEF Apply, States

LEMMA AboveType ==
  ASSUME NEW a \in ACLs, NEW state \in States
  PROVE  Above(a, state) \in States
  <1>1. Default \in SUBSET Perms
    BY DEF Default, Perms
  <1>2. [state EXCEPT !.granted = Default] \in States
    BY <1>1 DEF States
  <1> QED BY <1>2 DEF Above

\* f holds the states after the entries of a list.
Heeds(f, A, line, ch, list, above, u, id, at) ==
    /\ f \in [0 .. Len(list) -> States]
    /\ f[0] = above
    /\ \A n \in 1 .. Len(list) :
         f[n] = IF Matches(A, line, ch, list[n], u, id, at)
                THEN Apply(f[n - 1], list[n], ch, Last(line)) ELSE f[n - 1]
    /\ Heed(A, line, ch, list, above, u, id, at) = f[Len(list)]

\* Heed goes from entry to entry.
LEMMA HeedIs ==
  ASSUME NEW A, NEW line, NEW ch, NEW list \in Seq(Entries), NEW above \in States,
         NEW u, NEW id, NEW at
  PROVE  \E f : Heeds(f, A, line, ch, list, above, u, id, at)
  <1> DEFINE len == Len(list)
             On(n, s) == IF Matches(A, line, ch, list[n], u, id, at)
                         THEN Apply(s, list[n], ch, Last(line)) ELSE s
             step == [n \in 1 .. len |-> [s \in States |-> On(n, s)]]
  <1>0. len \in Nat /\ \A n \in 1 .. len : list[n] \in Entries
    OBVIOUS
  <1>1. \A n \in 1 .. len : \A s \in States : step[n][s] \in States
    <2>1. ASSUME NEW n \in 1 .. len, NEW s \in States PROVE On(n, s) \in States
      <3>1. Apply(s, list[n], ch, Last(line)) \in States
        BY <1>0, ApplyType
      <3> QED BY <3>1
    <2> HIDE DEF On, len
    <2> QED BY <2>1
  <1>2. PICK f \in [0 .. len -> States] : f[0] = above /\ \A n \in 1 .. len : f[n] = step[n][f[n - 1]]
    <2> HIDE DEF step, len
    <2>1. PICK f \in [0 .. len -> States] : Follows(f, len, above, step)
      BY <1>0, <1>1, Recursion
    <2> QED BY <2>1 DEF Follows
  <1>3. \A n \in 1 .. len : n \in 0 .. len /\ n - 1 \in 0 .. len /\ n # 0
    BY <1>0
  <1>4. \A n \in 1 .. len : f[n] = On(n, f[n - 1])
    <2> HIDE DEF On, len
    <2> QED BY <1>2, <1>3
  <1> DEFINE Body(h) == [n \in 0 .. len |-> IF n = 0 THEN above ELSE On(n, h[n - 1])]
             g == CHOOSE h : h = Body(h)
  <1>5. f = Body(f)
    <2> HIDE DEF On, step
    <2>1. \A n \in 0 .. len : n # 0 => n \in 1 .. len
      BY <1>0
    <2>2. \A n \in 0 .. len : f[n] = IF n = 0 THEN above ELSE On(n, f[n - 1])
      BY <1>2, <1>4, <2>1
    <2>3. f = [n \in 0 .. len |-> f[n]]
      BY <1>2
    <2> HIDE DEF len
    <2> QED BY <2>2, <2>3, Zenon
  <1>6. g = Body(g)
    BY <1>5, Zenon
  <1>7. Heed(A, line, ch, list, above, u, id, at) = g[len]
    BY Zenon DEF Heed
  <1> HIDE DEF g
  <1>8. g[0] = above /\ \A n \in 1 .. len : g[n] = On(n, g[n - 1])
    <2> HIDE DEF On, len
    <2>1. 0 \in 0 .. len
      BY <1>0
    <2>2. \A n \in 0 .. len : g[n] = IF n = 0 THEN above ELSE On(n, g[n - 1])
      BY <1>6, Zenon
    <2> QED BY <2>1, <2>2, <1>3
  <1>9. \A n \in 0 .. len : f[n] = g[n]
    <2> HIDE DEF len, On
    <2>1. GoAlike(f, g, len)
      BY <1>2, <1>4, <1>8 DEF GoAlike
    <2> QED BY <1>0, <2>1, Unique
  <1>10. len \in 0 .. len
    BY <1>0
  <1>11. Heed(A, line, ch, list, above, u, id, at) = f[len]
    BY <1>7, <1>9, <1>10
  <1>12. Heeds(f, A, line, ch, list, above, u, id, at)
    <2> HIDE DEF step
    <2> QED BY <1>2, <1>4, <1>11 DEF Heeds
  <1> QED BY <1>12

LEMMA HeedType ==
  ASSUME NEW A, NEW line, NEW ch, NEW list \in Seq(Entries), NEW above \in States,
         NEW u, NEW id, NEW at
  PROVE  Heed(A, line, ch, list, above, u, id, at) \in States
  <1>1. PICK f : Heeds(f, A, line, ch, list, above, u, id, at)
    BY HeedIs
  <1>2. Len(list) \in 0 .. Len(list)
    OBVIOUS
  <1> QED BY <1>1, <1>2 DEF Heeds

LEMMA HeedEmpty ==
  ASSUME NEW A, NEW line, NEW ch, NEW above \in States, NEW u, NEW id, NEW at
  PROVE  Heed(A, line, ch, <<>>, above, u, id, at) = above
  <1> DEFINE none == <<>>
  <1>1. none \in Seq(Entries) /\ Len(none) = 0
    OBVIOUS
  <1> HIDE DEF none
  <1>2. PICK f : Heeds(f, A, line, ch, none, above, u, id, at)
    BY <1>1, HeedIs
  <1>3. Heed(A, line, ch, none, above, u, id, at) = above
    BY <1>1, <1>2 DEF Heeds
  <1> QED BY <1>3 DEF none

\* What one more entry does.
LEMMA HeedAppend ==
  ASSUME NEW A, NEW line, NEW ch, NEW list \in Seq(Entries), NEW e \in Entries,
         NEW above \in States, NEW u, NEW id, NEW at
  PROVE  Heed(A, line, ch, Append(list, e), above, u, id, at) =
           LET before == Heed(A, line, ch, list, above, u, id, at)
           IN  IF Matches(A, line, ch, e, u, id, at) THEN Apply(before, e, ch, Last(line)) ELSE before
  <1> DEFINE more == Append(list, e)
             n == Len(list)
  <1>1. /\ more \in Seq(Entries) /\ n \in Nat /\ Len(more) = n + 1
        /\ more[n + 1] = e /\ \A k \in 1 .. n : more[k] = list[k]
    OBVIOUS
  <1> HIDE DEF more
  <1>2. PICK f : Heeds(f, A, line, ch, list, above, u, id, at)
    BY HeedIs
  <1>3. PICK g : Heeds(g, A, line, ch, more, above, u, id, at)
    BY <1>1, HeedIs
  <1>4. f[n] = g[n]
    <2>1. \A k \in 1 .. n : k \in 1 .. Len(more)
      BY <1>1
    <2>2. GoAlike(f, g, n)
      BY <1>1, <1>2, <1>3, <2>1 DEF Heeds, GoAlike
    <2>3. \A k \in 0 .. n : f[k] = g[k]
      BY <1>1, <2>2, Unique
    <2> QED BY <1>1, <2>3
  <1>5. g[n + 1] = IF Matches(A, line, ch, e, u, id, at)
                   THEN Apply(g[n], e, ch, Last(line)) ELSE g[n]
    <2>1. n + 1 \in 1 .. Len(more) /\ (n + 1) - 1 = n
      BY <1>1
    <2> HIDE DEF n
    <2> QED BY <2>1, <1>1, <1>3 DEF Heeds
  <1>6. /\ Heed(A, line, ch, list, above, u, id, at) = f[n]
        /\ Heed(A, line, ch, more, above, u, id, at) = g[n + 1]
    BY <1>1, <1>2, <1>3 DEF Heeds
  <1> QED BY <1>4, <1>5, <1>6 DEF more

\* f holds the states after the channels of a line.
Walks(f, A, line, u, id, at) ==
    /\ f \in [0 .. Len(line) -> States]
    /\ f[0] = First
    /\ \A n \in 1 .. Len(line) :
         f[n] = IF f[n - 1].path = {} THEN f[n - 1]
                ELSE Heed(A, line, line[n], A[line[n]].list, Above(A[line[n]], f[n - 1]), u, id, at)
    /\ Walk(A, line, u, id, at) = IF f[Len(line)].path = {} THEN {} ELSE f[Len(line)].granted

\* Walk goes from channel to channel.
LEMMA WalkIs ==
  ASSUME NEW A \in [Channels -> ACLs], NEW line \in Seq(Channels), NEW u, NEW id, NEW at
  PROVE  \E f : Walks(f, A, line, u, id, at)
  <1> DEFINE len == Len(line)
             On(n, s) == IF s.path = {} THEN s
                         ELSE Heed(A, line, line[n], A[line[n]].list, Above(A[line[n]], s), u, id, at)
             step == [n \in 1 .. len |-> [s \in States |-> On(n, s)]]
  <1>0. /\ len \in Nat /\ First \in States
        /\ \A n \in 1 .. len : A[line[n]] \in ACLs /\ A[line[n]].list \in Seq(Entries)
    <2>1. len \in Nat /\ \A n \in 1 .. len : line[n] \in Channels
      OBVIOUS
    <2>2. First \in States
      BY DEF First, States, Default, Perms
    <2>3. \A a \in ACLs : a.list \in Seq(Entries)
      BY DEF ACLs
    <2> QED BY <2>1, <2>2, <2>3
  <1>1. \A n \in 1 .. len : \A s \in States : step[n][s] \in States
    <2>1. ASSUME NEW n \in 1 .. len, NEW s \in States PROVE On(n, s) \in States
      <3>1. Above(A[line[n]], s) \in States
        BY <1>0, AboveType
      <3>2. Heed(A, line, line[n], A[line[n]].list, Above(A[line[n]], s), u, id, at) \in States
        BY <1>0, <3>1, HeedType
      <3> QED BY <3>2
    <2> HIDE DEF On, len
    <2> QED BY <2>1
  <1>2. PICK f \in [0 .. len -> States] : f[0] = First /\ \A n \in 1 .. len : f[n] = step[n][f[n - 1]]
    <2> HIDE DEF step, len
    <2>1. PICK f \in [0 .. len -> States] : Follows(f, len, First, step)
      BY <1>0, <1>1, Recursion
    <2> QED BY <2>1 DEF Follows
  <1>3. \A n \in 1 .. len : n \in 0 .. len /\ n - 1 \in 0 .. len /\ n # 0
    BY <1>0
  <1>4. \A n \in 1 .. len : f[n] = On(n, f[n - 1])
    <2> HIDE DEF On, len
    <2> QED BY <1>2, <1>3
  <1> DEFINE Body(h) == [n \in 0 .. len |-> IF n = 0 THEN First ELSE On(n, h[n - 1])]
             g == CHOOSE h : h = Body(h)
  <1>5. f = Body(f)
    <2> HIDE DEF On, step
    <2>1. \A n \in 0 .. len : n # 0 => n \in 1 .. len
      BY <1>0
    <2>2. \A n \in 0 .. len : f[n] = IF n = 0 THEN First ELSE On(n, f[n - 1])
      BY <1>2, <1>4, <2>1
    <2>3. f = [n \in 0 .. len |-> f[n]]
      BY <1>2
    <2> HIDE DEF len
    <2> QED BY <2>2, <2>3, Zenon
  <1>6. g = Body(g)
    BY <1>5, Zenon
  <1>7. Walk(A, line, u, id, at) = IF g[len].path = {} THEN {} ELSE g[len].granted
    BY Zenon DEF Walk, First
  <1> HIDE DEF g
  <1>8. g[0] = First /\ \A n \in 1 .. len : g[n] = On(n, g[n - 1])
    <2> HIDE DEF On, len
    <2>1. 0 \in 0 .. len
      BY <1>0
    <2>2. \A n \in 0 .. len : g[n] = IF n = 0 THEN First ELSE On(n, g[n - 1])
      BY <1>6, Zenon
    <2> QED BY <2>1, <2>2, <1>3
  <1>9. \A n \in 0 .. len : f[n] = g[n]
    <2> HIDE DEF len, On
    <2>1. GoAlike(f, g, len)
      BY <1>2, <1>4, <1>8 DEF GoAlike
    <2> QED BY <1>0, <2>1, Unique
  <1>10. f[len] = g[len]
    BY <1>0, <1>9
  <1>11. Walk(A, line, u, id, at) = IF f[len].path = {} THEN {} ELSE f[len].granted
    BY <1>7, <1>10
  <1>12. Walks(f, A, line, u, id, at)
    <2> HIDE DEF step
    <2> QED BY <1>2, <1>4, <1>11 DEF Walks
  <1> QED BY <1>12

LEMMA WalkType ==
  ASSUME NEW A \in [Channels -> ACLs], NEW line \in Seq(Channels), NEW u, NEW id, NEW at
  PROVE  Walk(A, line, u, id, at) \in SUBSET Perms
  <1>1. PICK f : Walks(f, A, line, u, id, at)
    BY WalkIs
  <1>2. Len(line) \in 0 .. Len(line)
    OBVIOUS
  <1>3. f[Len(line)] \in States
    BY <1>1, <1>2 DEF Walks
  <1>4. f[Len(line)].granted \in SUBSET Perms
    BY <1>3 DEF States
  <1> QED BY <1>1, <1>4 DEF Walks

LEMMA GrantsType ==
  ASSUME NEW parent, Tree(parent), NEW A \in [Channels -> ACLs], NEW u, NEW id, NEW at
  PROVE  Grants(parent, A, u, id, at) \in [Channels -> SUBSET Perms]
  <1>1. \A c \in Channels : Walk(A, Line(parent, c), u, id, at) \in SUBSET Perms
    BY LineIs, WalkType
  <1> QED BY <1>1 DEF Grants

-----------------------------------------------------------------------------
(* The cache and the client's copy                                           *)

Decisions == [Channels -> SUBSET Perms]

\* A row of the cache agrees with the decisions, and a copy does.
RowRight(row, granted) == \A c \in Channels : row[c] \in {Uncached, granted[c]}
CopyRight(copy, granted) == \A c \in DOMAIN copy : copy[c] = granted[c]

LEMMA CopyType ==
  ASSUME NEW copy
  PROVE  copy \in Copies <=> DOMAIN copy \in SUBSET Channels /\ copy \in [DOMAIN copy -> SUBSET Perms]
  BY DEF Copies

LEMMA NothingType ==
  /\ Nothing \in Copies /\ DOMAIN Nothing = {}
  /\ NoRow \in Rows /\ \A granted : RowRight(NoRow, granted) /\ CopyRight(Nothing, granted)
  <1>1. DOMAIN Nothing = {} /\ Nothing \in [{} -> SUBSET Perms] /\ {} \in SUBSET Channels
    BY DEF Nothing
  <1>2. NoRow \in Rows /\ \A c \in Channels : NoRow[c] = Uncached
    BY DEF NoRow, Rows
  <1>3. Nothing \in Copies
    BY <1>1, CopyType
  <1> QED BY <1>1, <1>2, <1>3 DEF RowRight, CopyRight

LEMMA FilledRight ==
  ASSUME NEW row \in Rows, NEW granted \in Decisions, NEW channels
  PROVE  /\ Filled(row, granted, channels) \in Rows
         /\ \A c \in channels \cap Channels : Filled(row, granted, channels)[c] \in SUBSET Perms
         /\ RowRight(row, granted) =>
              /\ RowRight(Filled(row, granted, channels), granted)
              /\ \A c \in channels \cap Channels : Filled(row, granted, channels)[c] = granted[c]
  <1>1. \A c \in Channels : granted[c] \in SUBSET Perms /\ granted[c] # Uncached
    BY ACLAssumption DEF Decisions
  <1>2. \A c \in Channels : Filled(row, granted, channels)[c] =
            IF c \in channels /\ row[c] = Uncached THEN granted[c] ELSE row[c]
    BY DEF Filled
  <1>3. Filled(row, granted, channels) \in Rows
    BY <1>1 DEF Filled, Rows
  <1>4. \A c \in channels \cap Channels : Filled(row, granted, channels)[c] \in SUBSET Perms
    BY <1>1, <1>2 DEF Rows
  <1> QED BY <1>1, <1>2, <1>3, <1>4 DEF RowRight

LEMMA ToldRightly ==
  ASSUME NEW copy \in Copies, NEW row, NEW granted, NEW channels \in SUBSET Channels,
         \A c \in channels : row[c] \in SUBSET Perms
  PROVE  /\ Told(copy, row, channels) \in Copies
         /\ CopyRight(copy, granted) /\ (\A c \in channels : row[c] = granted[c])
              => CopyRight(Told(copy, row, channels), granted)
  <1>1. DOMAIN copy \in SUBSET Channels /\ copy \in [DOMAIN copy -> SUBSET Perms]
    BY CopyType
  <1> DEFINE told == Told(copy, row, channels)
  <1>2. DOMAIN told = DOMAIN copy \cup channels
    BY DEF Told
  <1>3. \A c \in DOMAIN told : told[c] = IF c \in channels THEN row[c] ELSE copy[c]
    BY DEF Told
  <1>4. told \in [DOMAIN told -> SUBSET Perms]
    BY <1>1 DEF Told
  <1> HIDE DEF told
  <1>5. told \in Copies
    BY <1>1, <1>2, <1>4, CopyType
  <1> QED BY <1>2, <1>3, <1>5 DEF CopyRight, told

\* After a flush the row holds no old decision, and the copy neither.
LEMMA FlushedRight ==
  ASSUME NEW row, NEW copy \in Copies, NEW granted \in Decisions,
         NEW f \in Flushed(row, copy, granted)
  PROVE  /\ f.row \in Rows /\ f.sent \in Copies
         /\ RowRight(f.row, granted) /\ CopyRight(f.sent, granted)
  <1> DEFINE Same(c) == copy[c] = granted[c]
             compared == IF Cardinality(DOMAIN copy) >= MaxSent THEN {}
                         ELSE {c \in DOMAIN copy : \A d \in DOMAIN copy : d < c => Same(d)}
  <1>0. Taken(row) \in Rows /\ RowRight(Taken(row), granted)
    BY NothingType DEF Taken
  <1>1. CASE StillTrue(copy, granted)
    <2>1. f = [row |-> Filled(Taken(row), granted, compared), sent |-> copy]
      BY <1>1 DEF Flushed
    <2> HIDE DEF compared
    <2>2. /\ Filled(Taken(row), granted, compared) \in Rows
          /\ RowRight(Filled(Taken(row), granted, compared), granted)
      BY <1>0, FilledRight
    <2>3. CopyRight(copy, granted)
      BY <1>1 DEF StillTrue, CopyRight
    <2> QED BY <2>1, <2>2, <2>3
  <1>2. CASE ~StillTrue(copy, granted)
    <2>1. PICK last \in Channels :
            LET filled == Filled(Taken(row), granted, compared \cup {last})
            IN  f = [row |-> filled, sent |-> [c \in {last} |-> filled[c]]]
      BY <1>2 DEF Flushed
    <2> DEFINE filled == Filled(Taken(row), granted, compared \cup {last})
    <2>2. /\ filled \in Rows /\ RowRight(filled, granted)
          /\ filled[last] = granted[last] /\ filled[last] \in SUBSET Perms
      <3> HIDE DEF compared
      <3>1. last \in (compared \cup {last}) \cap Channels
        OBVIOUS
      <3> QED BY <1>0, <3>1, FilledRight
    <2> HIDE DEF filled, compared
    <2> DEFINE one == [c \in {last} |-> filled[c]]
    <2>3. f = [row |-> filled, sent |-> one]
      BY <2>1 DEF filled
    <2>4. DOMAIN one = {last} /\ one[last] = filled[last] /\ one \in [{last} -> SUBSET Perms]
      BY <2>2
    <2> HIDE DEF one
    <2>5. one \in Copies /\ CopyRight(one, granted)
      BY <2>2, <2>4, CopyType DEF CopyRight
    <2> QED BY <2>2, <2>3, <2>5
  <1> QED BY <1>1, <1>2

\* And so for all users after clearACLCache(NULL).
LEMMA ClearedRight ==
  ASSUME Tree(cParent), NEW A \in [Channels -> ACLs], NEW copies \in [Users -> Copies],
         NEW all \in ClearAll(A, copies)
  PROVE  \A u \in Users :
           /\ all[u].row \in Rows /\ all[u].sent \in Copies
           /\ u \in Online =>
                LET granted == Grants(cParent, A, u, iId[u], cChannel[u])
                IN  RowRight(all[u].row, granted) /\ CopyRight(all[u].sent, granted)
  <1> SUFFICES ASSUME NEW u \in Users
               PROVE  /\ all[u].row \in Rows /\ all[u].sent \in Copies
                      /\ u \in Online =>
                           LET granted == Grants(cParent, A, u, iId[u], cChannel[u])
                           IN  RowRight(all[u].row, granted) /\ CopyRight(all[u].sent, granted)
    OBVIOUS
  <1> DEFINE granted == Grants(cParent, A, u, iId[u], cChannel[u])
  <1>1. all[u] \in IF u \notin Online THEN {[row |-> NoRow, sent |-> copies[u]]}
                   ELSE Flushed(NoRow, copies[u], granted)
    BY DEF ClearAll
  <1>2. granted \in Decisions
    BY GrantsType DEF Decisions
  <1> HIDE DEF granted
  <1>3. CASE u \notin Online
    BY <1>1, <1>3, NothingType
  <1>4. CASE u \in Online
    <2>1. all[u] \in Flushed(NoRow, copies[u], granted) /\ copies[u] \in Copies
      BY <1>1, <1>4
    <2> QED BY <2>1, <1>2, FlushedRight DEF granted
  <1> QED BY <1>3, <1>4

-----------------------------------------------------------------------------
(* Lists and groups that are edited                                          *)

\* f holds what is left of the first entries of a list.
Keeps(f, list, id) ==
    /\ f \in [0 .. Len(list) -> Seq(Entries)]
    /\ f[0] = <<>>
    /\ \A n \in 1 .. Len(list) :
         f[n] = IF list[n].who.userId = id THEN f[n - 1] ELSE Append(f[n - 1], list[n])
    /\ Without(list, id) = f[Len(list)]

LEMMA WithoutIs ==
  ASSUME NEW list \in Seq(Entries), NEW id
  PROVE  \E f : Keeps(f, list, id)
  <1> DEFINE len == Len(list)
             On(n, s) == IF list[n].who.userId = id THEN s ELSE Append(s, list[n])
             step == [n \in 1 .. len |-> [s \in Seq(Entries) |-> On(n, s)]]
  <1>0. len \in Nat /\ <<>> \in Seq(Entries) /\ \A n \in 1 .. len : list[n] \in Entries
    OBVIOUS
  <1>1. \A n \in 1 .. len : \A s \in Seq(Entries) : step[n][s] \in Seq(Entries)
    <2>1. ASSUME NEW n \in 1 .. len, NEW s \in Seq(Entries) PROVE On(n, s) \in Seq(Entries)
      <3>1. Append(s, list[n]) \in Seq(Entries)
        BY <1>0
      <3> QED BY <3>1
    <2> HIDE DEF On, len
    <2> QED BY <2>1
  <1>2. PICK f \in [0 .. len -> Seq(Entries)] :
          f[0] = <<>> /\ \A n \in 1 .. len : f[n] = step[n][f[n - 1]]
    <2> HIDE DEF step, len
    <2>1. PICK f \in [0 .. len -> Seq(Entries)] : Follows(f, len, <<>>, step)
      BY <1>0, <1>1, Recursion
    <2> QED BY <2>1 DEF Follows
  <1>3. \A n \in 1 .. len : n \in 0 .. len /\ n - 1 \in 0 .. len /\ n # 0
    BY <1>0
  <1>4. \A n \in 1 .. len : f[n] = On(n, f[n - 1])
    <2> HIDE DEF On, len
    <2> QED BY <1>2, <1>3
  <1> DEFINE Body(h) == [n \in 0 .. len |-> IF n = 0 THEN <<>> ELSE On(n, h[n - 1])]
             g == CHOOSE h : h = Body(h)
  <1>5. f = Body(f)
    <2> HIDE DEF On, step
    <2>1. \A n \in 0 .. len : n # 0 => n \in 1 .. len
      BY <1>0
    <2>2. \A n \in 0 .. len : f[n] = IF n = 0 THEN <<>> ELSE On(n, f[n - 1])
      BY <1>2, <1>4, <2>1
    <2>3. f = [n \in 0 .. len |-> f[n]]
      BY <1>2
    <2> HIDE DEF len
    <2> QED BY <2>2, <2>3, Zenon
  <1>6. g = Body(g)
    BY <1>5, Zenon
  <1>7. Without(list, id) = g[len]
    BY Zenon DEF Without
  <1> HIDE DEF g
  <1>8. g[0] = <<>> /\ \A n \in 1 .. len : g[n] = On(n, g[n - 1])
    <2> HIDE DEF On, len
    <2>1. 0 \in 0 .. len
      BY <1>0
    <2>2. \A n \in 0 .. len : g[n] = IF n = 0 THEN <<>> ELSE On(n, g[n - 1])
      BY <1>6, Zenon
    <2> QED BY <2>1, <2>2, <1>3
  <1>9. \A n \in 0 .. len : f[n] = g[n]
    <2> HIDE DEF len, On
    <2>1. GoAlike(f, g, len)
      BY <1>2, <1>4, <1>8 DEF GoAlike
    <2> QED BY <1>0, <2>1, Unique
  <1>10. f[len] = g[len]
    BY <1>0, <1>9
  <1>11. Keeps(f, list, id)
    <2> HIDE DEF step
    <2> QED BY <1>2, <1>4, <1>7, <1>10 DEF Keeps
  <1> QED BY <1>11

LEMMA WithoutType ==
  ASSUME NEW list \in Seq(Entries), NEW id
  PROVE  Without(list, id) \in Seq(Entries)
  <1>1. PICK f : Keeps(f, list, id)
    BY WithoutIs
  <1>2. Len(list) \in 0 .. Len(list)
    OBVIOUS
  <1> QED BY <1>1, <1>2 DEF Keeps

LEMMA ForgotType ==
  ASSUME NEW a \in ACLs, NEW id
  PROVE  /\ Forgot(a, id) \in ACLs /\ Forgot(a, id).inherit = a.inherit
         /\ Forgot(a, id).list = Without(a.list, id)
         /\ Forgot(a, id).groups = [g \in GroupNames |-> IF a.groups[g] = NoGroup THEN NoGroup
                ELSE [a.groups[g] EXCEPT !.add = @ \ {id}, !.remove = @ \ {id}]]
  <1> DEFINE groups == [g \in GroupNames |-> IF a.groups[g] = NoGroup THEN NoGroup
                ELSE [a.groups[g] EXCEPT !.add = @ \ {id}, !.remove = @ \ {id}]]
  <1>1. a.list \in Seq(Entries) /\ a.inherit \in BOOLEAN
        /\ a.groups \in [GroupNames -> Groups \cup {NoGroup}]
    BY DEF ACLs
  <1>2. Without(a.list, id) \in Seq(Entries)
    BY <1>1, WithoutType
  <1>3. groups \in [GroupNames -> Groups \cup {NoGroup}]
    <2>1. ASSUME NEW h \in Groups PROVE [h EXCEPT !.add = @ \ {id}, !.remove = @ \ {id}] \in Groups
      BY DEF Groups
    <2> QED BY <1>1, <2>1
  <1>4. Forgot(a, id) = [a EXCEPT !.list = Without(a.list, id), !.groups = groups]
    BY DEF Forgot
  <1>5. groups = [g \in GroupNames |-> IF a.groups[g] = NoGroup THEN NoGroup
                     ELSE [a.groups[g] EXCEPT !.add = @ \ {id}, !.remove = @ \ {id}]]
    OBVIOUS
  <1> HIDE DEF groups
  <1>6. Forgot(a, id) = [inherit |-> a.inherit, list |-> Without(a.list, id), groups |-> groups]
    BY <1>4 DEF ACLs
  <1>7. Forgot(a, id) \in ACLs
    BY <1>1, <1>2, <1>3, <1>6 DEF ACLs
  <1>8. /\ Forgot(a, id).inherit = a.inherit /\ Forgot(a, id).list = Without(a.list, id)
        /\ Forgot(a, id).groups = groups
    BY <1>6
  <1> QED BY <1>5, <1>7, <1>8, Zenon

LEMMA ForgotAll ==
  ASSUME NEW A \in [Channels -> ACLs], NEW id
  PROVE  [c \in Channels |-> Forgot(A[c], id)] \in [Channels -> ACLs]
  <1>1. \A c \in Channels : Forgot(A[c], id) \in ACLs
    BY ForgotType
  <1> QED BY <1>1

LEMMA WithTempType ==
  ASSUME NEW group \in Groups \cup {NoGroup}, NEW temp \in SUBSET TempKeys
  PROVE  WithTemp(group, temp) \in Groups
  BY DEF WithTemp, Groups

\* Only the groups of one channel change.
LEMMA GroupsSet ==
  ASSUME NEW A \in [Channels -> ACLs], NEW c \in Channels,
         NEW groups \in [GroupNames -> Groups \cup {NoGroup}]
  PROVE  /\ [A EXCEPT ![c].groups = groups] \in [Channels -> ACLs]
         /\ [A EXCEPT ![c].groups = groups][c].groups = groups
         /\ \A d \in Channels :
              /\ [A EXCEPT ![c].groups = groups][d].inherit = A[d].inherit
              /\ [A EXCEPT ![c].groups = groups][d].list = A[d].list
              /\ d # c => [A EXCEPT ![c].groups = groups][d].groups = A[d].groups
  <1>1. A[c] \in ACLs
    OBVIOUS
  <1>2. /\ [A[c] EXCEPT !.groups = groups] \in ACLs
        /\ [A[c] EXCEPT !.groups = groups].groups = groups
        /\ [A[c] EXCEPT !.groups = groups].list = A[c].list
        /\ [A[c] EXCEPT !.groups = groups].inherit = A[c].inherit
    BY <1>1 DEF ACLs
  <1> QED BY <1>2

LEMMA ReplacedType ==
  ASSUME acl \in [Channels -> ACLs], NEW c \in Channels, NEW s \in ACLs
  PROVE  Replaced(c, s) \in [Channels -> ACLs]
  <1> DEFINE groups == [g \in GroupNames |->
               IF s.groups[g] = NoGroup \/ acl[c].groups[g] = NoGroup THEN s.groups[g]
               ELSE [s.groups[g] EXCEPT !.temp = acl[c].groups[g].temp]]
  <1>1. /\ s.groups \in [GroupNames -> Groups \cup {NoGroup}]
        /\ acl[c].groups \in [GroupNames -> Groups \cup {NoGroup}]
    BY DEF ACLs
  <1>2. groups \in [GroupNames -> Groups \cup {NoGroup}]
    <2>1. ASSUME NEW h \in Groups, NEW k \in Groups PROVE [h EXCEPT !.temp = k.temp] \in Groups
      BY DEF Groups
    <2> QED BY <1>1, <2>1
  <1>3. Replaced(c, s) = [acl EXCEPT ![c] = [s EXCEPT !.groups = groups]]
    BY DEF Replaced
  <1> HIDE DEF groups
  <1>4. [s EXCEPT !.groups = groups] \in ACLs
    BY <1>2 DEF ACLs
  <1> QED BY <1>3, <1>4

LEMMA OwnEntryType ==
  ASSUME NEW u \in Users, iId[u] \in Registered \cup {None}
  PROVE  OwnEntry(u) \in Entries
  BY DEF OwnEntry, Entries, Whos, Perms

LEMMA AppendedType ==
  ASSUME NEW A \in [Channels -> ACLs], NEW c \in Channels, NEW e \in Entries
  PROVE  LET B == [A EXCEPT ![c].list = Append(@, e)]
         IN  B \in [Channels -> ACLs] /\ B[c].list = Append(A[c].list, e)
  <1>1. A[c] \in ACLs /\ A[c].list \in Seq(Entries)
    BY DEF ACLs
  <1>2. Append(A[c].list, e) \in Seq(Entries)
    BY <1>1
  <1> DEFINE more == Append(A[c].list, e)
  <1> HIDE DEF more
  <1>3. [A[c] EXCEPT !.list = more] \in ACLs /\ [A[c] EXCEPT !.list = more].list = more
    BY <1>1, <1>2 DEF ACLs, more
  <1>4. [A EXCEPT ![c].list = more] \in [Channels -> ACLs] /\ [A EXCEPT ![c].list = more][c].list = more
    BY <1>3
  <1> QED BY <1>4 DEF more

-----------------------------------------------------------------------------
(* Types                                                                     *)

TypeInv == TypeOK /\ Tree(cParent)

LEMMA TypeInit == Init => TypeInv
  <1> SUFFICES ASSUME Init PROVE TypeInv
    OBVIOUS
  <1>1. Channels \subseteq Nat /\ Root \in Channels /\ None \notin Channels
    BY ChannelNumbers
  <1>2. Tree(cParent)
    <2>1. \A c \in Channels : cParent[c] = IF c = Root THEN None ELSE Root
      BY DEF Init
    <2>2. cParent \in [Channels -> Channels \cup {None}]
      BY <1>1 DEF Init
    <2>3. ASSUME NEW S \in SUBSET Channels, Root \in S,
                 \A y \in Channels : cParent[y] \in S => y \in S
          PROVE  S = Channels
      BY <2>1, <2>3
    <2> QED BY <1>1, <2>1, <2>2, <2>3 DEF Tree
  <1>3. acl \in [Channels -> ACLs]
    BY ACLAssumption DEF Init
  <1>4. acCache \in [Users -> Rows] /\ sent \in [Users -> Copies]
    BY NothingType DEF Init
  <1>5. /\ cChannel \in [Users -> Channels \cup {None}]
        /\ iId \in [Users -> Registered \cup {None}] /\ unflushed \subseteq Users
    BY DEF Init
  <1> QED BY <1>2, <1>3, <1>4, <1>5 DEF TypeInv, TypeOK, Tree

\* What may be decided about any user.
LEMMA Decided ==
  ASSUME TypeInv
  PROVE  \A A \in [Channels -> ACLs] : \A u, id, at : Grants(cParent, A, u, id, at) \in Decisions
  BY GrantsType DEF TypeInv, Decisions

LEMMA KeptType ==
  ASSUME TypeInv, NEW id, NEW c \in Channels
  PROVE  Kept(id, {c}) \in SUBSET Channels /\ Kept(id, {c, cParent[c]}) \in SUBSET Channels
  BY ChannelNumbers DEF TypeInv, TypeOK, Kept

\* The row and the copy of u are new, and right for what u may do now.
Updated(u) ==
    \E row \in Rows, copy \in Copies :
       /\ acCache' = [acCache EXCEPT ![u] = row] /\ sent' = [sent EXCEPT ![u] = copy]
       /\ RowRight(row, Granted(u)') /\ CopyRight(copy, Granted(u)')

LEMMA LoginUpdates ==
  ASSUME TypeInv, NEW u \in Users, NEW id \in Registered \cup {None}, NEW c \in Channels,
         Login(u, id, c)
  PROVE  Updated(u) /\ cChannel'[u] \in Channels
  <1> DEFINE before == Grants(cParent, acl, u, id, None)
             entered == IF Allowed(id, acCache[u], before, c, "Enter") THEN c ELSE Root
             granted == Grants(cParent, acl, u, id, entered)
             here == Kept(id, {entered, cParent[entered]})
             row == Filled(NoRow, granted, here)
             copy == Told(Nothing, row, here)
  <1>1. entered \in Channels
    BY ChannelNumbers
  <1>2. /\ cChannel' = [cChannel EXCEPT ![u] = entered] /\ iId' = [iId EXCEPT ![u] = id]
        /\ acCache' = [acCache EXCEPT ![u] = row] /\ sent' = [sent EXCEPT ![u] = copy]
        /\ acl' = acl /\ cParent' = cParent
    BY DEF Login
  <1>3. cChannel'[u] = entered /\ iId'[u] = id
    BY <1>2 DEF TypeInv, TypeOK
  <1> HIDE DEF entered
  <1>4. Granted(u)' = granted
    BY <1>2, <1>3 DEF Granted
  <1>5. granted \in Decisions /\ here \in SUBSET Channels
    BY <1>1, Decided, KeptType DEF TypeInv, TypeOK
  <1> HIDE DEF granted, here
  <1>6. /\ row \in Rows /\ RowRight(row, granted)
        /\ \A d \in here : row[d] = granted[d] /\ row[d] \in SUBSET Perms
    BY <1>5, FilledRight, NothingType
  <1> HIDE DEF row
  <1>7. copy \in Copies /\ CopyRight(copy, granted)
    BY <1>5, <1>6, ToldRightly, NothingType
  <1> HIDE DEF copy
  <1> QED BY <1>1, <1>2, <1>3, <1>4, <1>6, <1>7 DEF Updated

LEMMA EnterUpdates ==
  ASSUME TypeInv, NEW u \in Users, NEW c \in Channels, userEnterChannel(u, c)
  PROVE  Updated(u)
  <1> DEFINE granted == Grants(cParent, acl, u, iId[u], c)
             here == Kept(iId[u], {c, cParent[c]})
  <1>1. /\ cChannel' = [cChannel EXCEPT ![u] = c] /\ iId' = iId
        /\ acl' = acl /\ cParent' = cParent
    BY DEF userEnterChannel
  <1>2. cChannel'[u] = c /\ iId'[u] = iId[u]
    BY <1>1 DEF TypeInv, TypeOK
  <1>3. Granted(u)' = granted
    BY <1>1, <1>2 DEF Granted
  <1>4. PICK f \in Flushed(acCache[u], sent[u], granted) :
          LET row == Filled(f.row, granted, here)
          IN  /\ acCache' = [acCache EXCEPT ![u] = row]
              /\ sent' = [sent EXCEPT ![u] = Told(f.sent, row, here)]
    BY DEF userEnterChannel
  <1> DEFINE row == Filled(f.row, granted, here)
             old == f.sent
             copy == Told(old, row, here)
  <1>5. granted \in Decisions /\ here \in SUBSET Channels /\ sent[u] \in Copies
    BY Decided, KeptType DEF TypeInv, TypeOK
  <1>6. acCache' = [acCache EXCEPT ![u] = row] /\ sent' = [sent EXCEPT ![u] = copy]
    BY <1>4
  <1> HIDE DEF granted, here
  <1>7. f.row \in Rows /\ old \in Copies /\ RowRight(f.row, granted) /\ CopyRight(old, granted)
    BY <1>4, <1>5, FlushedRight
  <1>8. /\ row \in Rows /\ RowRight(row, granted)
        /\ \A d \in here : row[d] = granted[d] /\ row[d] \in SUBSET Perms
    BY <1>5, <1>7, FilledRight
  <1> HIDE DEF row, old
  <1>9. copy \in Copies /\ CopyRight(copy, granted)
    BY <1>5, <1>7, <1>8, ToldRightly
  <1> HIDE DEF copy
  <1> QED BY <1>3, <1>6, <1>8, <1>9 DEF Updated

LEMMA ClearUpdates ==
  ASSUME TypeInv, NEW u \in Users, NEW granted \in Decisions, ClearUser(u, granted),
         Granted(u)' = granted
  PROVE  Updated(u)
  <1>1. PICK f \in Flushed(acCache[u], sent[u], granted) :
          acCache' = [acCache EXCEPT ![u] = f.row] /\ sent' = [sent EXCEPT ![u] = f.sent]
    BY DEF ClearUser
  <1>2. f.row \in Rows /\ f.sent \in Copies /\ RowRight(f.row, granted) /\ CopyRight(f.sent, granted)
    BY <1>1, FlushedRight DEF TypeInv, TypeOK
  <1> QED BY <1>1, <1>2 DEF Updated

LEMMA UpdatedTypes ==
  ASSUME TypeInv, NEW u \in Users, Updated(u)
  PROVE  acCache' \in [Users -> Rows] /\ sent' \in [Users -> Copies]
  <1>1. PICK row \in Rows, copy \in Copies :
          acCache' = [acCache EXCEPT ![u] = row] /\ sent' = [sent EXCEPT ![u] = copy]
    BY DEF Updated
  <1> QED BY <1>1 DEF TypeInv, TypeOK

\* All rows and copies are new, and right for what those connected may do now.
AllUpdated ==
    /\ acCache' \in [Users -> Rows] /\ sent' \in [Users -> Copies]
    /\ \A v \in Online : RowRight(acCache'[v], Granted(v)') /\ CopyRight(sent'[v], Granted(v)')

LEMMA EditType ==
  ASSUME TypeInv, NEW u \in Users, NEW c \in Channels, NEW s \in ACLs, Edit(u, c, s)
  PROVE  Replaced(c, s) \in [Channels -> ACLs] /\ acl' \in [Channels -> ACLs]
  <1> DEFINE asked == Replaced(c, s)
  <1>1. asked \in [Channels -> ACLs] /\ OwnEntry(u) \in Entries
    BY ReplacedType, OwnEntryType DEF TypeInv, TypeOK
  <1>2. acl' = asked \/ acl' = [asked EXCEPT ![c].list = Append(@, OwnEntry(u))]
    BY DEF Edit
  <1> HIDE DEF asked
  <1>3. [asked EXCEPT ![c].list = Append(@, OwnEntry(u))] \in [Channels -> ACLs]
    BY <1>1, AppendedType
  <1> QED BY <1>1, <1>2, <1>3 DEF asked

LEMMA SettingsType == \A c \in Channels : \A s \in Settings[c] : s \in ACLs
  BY ACLAssumption

LEMMA GrantedSame ==
  ASSUME NEW v, cParent' = cParent, cChannel' = cChannel, iId' = iId
  PROVE  Granted(v)' = Grants(cParent, acl', v, iId[v], cChannel[v])
  BY DEF Granted

LEMMA msgACLUpdates ==
  ASSUME TypeInv, NEW u \in Users, NEW c \in Channels, NEW s \in Settings[c], msgACL(u, c, s)
  PROVE  AllUpdated /\ acl' \in [Channels -> ACLs]
  <1> DEFINE asked == Replaced(c, s)
             granted == Granted(u)'
             own == IF acl' # asked THEN {} ELSE Kept(iId[u], {c})
  <1>1. asked \in [Channels -> ACLs] /\ acl' \in [Channels -> ACLs]
    BY SettingsType, EditType DEF msgACL
  <1>2. cParent' = cParent /\ cChannel' = cChannel /\ iId' = iId /\ u \in Online
    BY DEF msgACL, Edit
  <1>3. PICK first \in ClearAll(asked, sent) :
          \E last \in IF acl' # asked THEN ClearAll(acl', [v \in Users |-> first[v].sent]) ELSE {first} :
             /\ acCache' = [v \in Users |->
                   IF v = u THEN Filled(last[v].row, granted, own) ELSE last[v].row]
             /\ sent' = [v \in Users |-> last[v].sent]
    BY DEF msgACL
  <1> DEFINE copies == [v \in Users |-> first[v].sent]
  <1>4. PICK last \in IF acl' # asked THEN ClearAll(acl', copies) ELSE {first} :
             /\ acCache' = [v \in Users |->
                   IF v = u THEN Filled(last[v].row, granted, own) ELSE last[v].row]
             /\ sent' = [v \in Users |-> last[v].sent]
    BY <1>3
  <1>5. Tree(cParent) /\ sent \in [Users -> Copies]
    BY DEF TypeInv, TypeOK
  <1> HIDE DEF asked
  <1>6. \A v \in Users : first[v].sent \in Copies
    BY <1>1, <1>5, ClearedRight
  <1>7. copies \in [Users -> Copies]
    BY <1>6
  <1>8. \E f \in [Users -> Copies] : last \in ClearAll(acl', f)
    <2>1. CASE acl' # asked
      <3> HIDE DEF copies
      <3> QED BY <1>4, <1>7, <2>1
    <2>2. CASE acl' = asked
      BY <1>4, <1>5, <2>2
    <2> QED BY <2>1, <2>2
  <1>9. \A v \in Users :
          /\ last[v].row \in Rows /\ last[v].sent \in Copies
          /\ v \in Online => RowRight(last[v].row, Granted(v)') /\ CopyRight(last[v].sent, Granted(v)')
    <2>1. \A v \in Users :
          /\ last[v].row \in Rows /\ last[v].sent \in Copies
          /\ v \in Online =>
               LET now == Grants(cParent, acl', v, iId[v], cChannel[v])
               IN  RowRight(last[v].row, now) /\ CopyRight(last[v].sent, now)
      BY <1>1, <1>5, <1>8, ClearedRight
    <2> QED BY <2>1, <1>2, GrantedSame
  <1>10. granted \in Decisions
    BY <1>1, <1>2, Decided, GrantedSame
  <1> HIDE DEF granted, own
  <1>11. /\ Filled(last[u].row, granted, own) \in Rows
         /\ RowRight(Filled(last[u].row, granted, own), granted)
    BY <1>2, <1>9, <1>10, FilledRight DEF granted
  <1>12. \A v \in Users :
          /\ acCache'[v] \in Rows /\ sent'[v] \in Copies
          /\ v \in Online => RowRight(acCache'[v], Granted(v)') /\ CopyRight(sent'[v], Granted(v)')
    <2> SUFFICES ASSUME NEW v \in Users
                 PROVE  /\ acCache'[v] \in Rows /\ sent'[v] \in Copies
                        /\ v \in Online => RowRight(acCache'[v], Granted(v)') /\ CopyRight(sent'[v], Granted(v)')
      OBVIOUS
    <2>1. sent'[v] = last[v].sent
      BY <1>4
    <2>2. CASE v = u
      <3>1. acCache'[v] = Filled(last[u].row, granted, own)
        BY <1>4, <2>2
      <3> QED BY <2>1, <2>2, <3>1, <1>9, <1>11 DEF granted
    <2>3. CASE v # u
      <3>1. acCache'[v] = last[v].row
        BY <1>4, <2>3
      <3> QED BY <2>1, <3>1, <1>9
    <2> QED BY <2>2, <2>3
  <1>13. acCache' = [v \in Users |-> acCache'[v]] /\ sent' = [v \in Users |-> sent'[v]]
    BY <1>4
  <1>14. acCache' \in [Users -> Rows] /\ sent' \in [Users -> Copies]
    BY <1>12, <1>13
  <1> QED BY <1>1, <1>12, <1>14 DEF AllUpdated, Online

LEMMA setACLUpdates ==
  ASSUME TypeInv, NEW c \in Channels, NEW s \in Settings[c], setACL(c, s)
  PROVE  AllUpdated /\ acl' \in [Channels -> ACLs]
  <1>1. acl' \in [Channels -> ACLs]
    BY SettingsType, ReplacedType DEF setACL, TypeInv, TypeOK
  <1>2. cParent' = cParent /\ cChannel' = cChannel /\ iId' = iId
    BY DEF setACL
  <1>3. PICK last \in ClearAll(acl', sent) :
             /\ acCache' = [v \in Users |-> last[v].row]
             /\ sent' = [v \in Users |-> last[v].sent]
    BY DEF setACL
  <1>4. Tree(cParent) /\ sent \in [Users -> Copies]
    BY DEF TypeInv, TypeOK
  <1>5. \A v \in Users :
          /\ last[v].row \in Rows /\ last[v].sent \in Copies
          /\ v \in Online =>
               LET now == Grants(cParent, acl', v, iId[v], cChannel[v])
               IN  RowRight(last[v].row, now) /\ CopyRight(last[v].sent, now)
    BY <1>1, <1>3, <1>4, ClearedRight
  <1>6. \A v \in Users :
          /\ last[v].row \in Rows /\ last[v].sent \in Copies
          /\ v \in Online => RowRight(last[v].row, Granted(v)') /\ CopyRight(last[v].sent, Granted(v)')
    BY <1>2, <1>5, GrantedSame
  <1>7. acCache' \in [Users -> Rows] /\ sent' \in [Users -> Copies]
    BY <1>3, <1>6
  <1> QED BY <1>1, <1>3, <1>6, <1>7 DEF AllUpdated, Online

LEMMA TempOfType ==
  ASSUME TypeInv, NEW c \in Channels, NEW g \in GroupNames
  PROVE  /\ acl[c].groups \in [GroupNames -> Groups \cup {NoGroup}]
         /\ acl[c].groups[g] \in Groups \cup {NoGroup}
         /\ TempOf(c, g) \in SUBSET TempKeys
  <1>1. acl[c].groups \in [GroupNames -> Groups \cup {NoGroup}]
    BY DEF TypeInv, TypeOK, ACLs
  <1> QED BY <1>1 DEF TempOf, Groups

LEMMA TempGroupIs ==
  ASSUME TypeInv, NEW u \in Users, NEW c \in Channels, NEW g \in GroupNames, TempGroup(u, c, g)
  PROVE  /\ Updated(u) /\ acl' \in [Channels -> ACLs]
         /\ \E temp \in {TempOf(c, g) \cup {-Session[u]}, TempOf(c, g) \ {-Session[u]}} :
              acl' = [acl EXCEPT ![c].groups =
                        [acl[c].groups EXCEPT ![g] = WithTemp(acl[c].groups[g], temp)]]
  <1>1. PICK temp \in {TempOf(c, g) \cup {-Session[u]}, TempOf(c, g) \ {-Session[u]}} :
          acl' = [acl EXCEPT ![c].groups[g] = WithTemp(@, temp)]
    BY DEF TempGroup, TempKey
  <1>2. temp \in SUBSET TempKeys
    BY <1>1, TempOfType DEF TempKeys
  <1> DEFINE groups == [acl[c].groups EXCEPT ![g] = WithTemp(acl[c].groups[g], temp)]
  <1>3. groups \in [GroupNames -> Groups \cup {NoGroup}]
    BY <1>2, TempOfType, WithTempType
  <1>4. acl' = [acl EXCEPT ![c].groups = groups]
    BY <1>1
  <1> HIDE DEF groups
  <1>5. acl' \in [Channels -> ACLs]
    BY <1>3, <1>4, GroupsSet DEF TypeInv, TypeOK
  <1>6. /\ cParent' = cParent /\ cChannel' = cChannel /\ iId' = iId
        /\ ClearUser(u, Grants(cParent, acl', u, iId[u], cChannel[u]))
    BY DEF TempGroup
  <1>7. Updated(u)
    BY <1>5, <1>6, Decided, GrantedSame, ClearUpdates
  <1>8. acl' = [acl EXCEPT ![c].groups =
                  [acl[c].groups EXCEPT ![g] = WithTemp(acl[c].groups[g], temp)]]
    BY <1>4 DEF groups
  <1> QED BY <1>1, <1>5, <1>7, <1>8

LEMMA setTempGroupsIs ==
  ASSUME TypeInv, NEW id \in TempIds, NEW c \in Channels, NEW groups \in SUBSET GroupNames,
         setTempGroups(id, c, groups)
  PROVE  /\ acl' \in [Channels -> ACLs]
         /\ acl' = [acl EXCEPT ![c].groups = [g \in GroupNames |->
                     IF acl[c].groups[g] = NoGroup /\ g \notin groups THEN NoGroup
                     ELSE WithTemp(acl[c].groups[g],
                                   (TempOf(c, g) \ {id}) \cup (IF g \in groups THEN {id} ELSE {}))]]
         /\ \/ /\ acCache' = acCache /\ sent' = sent
               /\ unflushed' = unflushed \cup Concerning(id)
            \/ \E u \in Online : /\ Updated(u)
                                 /\ unflushed' = (unflushed \cup Concerning(id)) \ {u}
  <1> DEFINE temp(g) == (TempOf(c, g) \ {id}) \cup (IF g \in groups THEN {id} ELSE {})
             new == [g \in GroupNames |->
                       IF acl[c].groups[g] = NoGroup /\ g \notin groups THEN NoGroup
                       ELSE WithTemp(acl[c].groups[g], temp(g))]
  <1>1. acl' = [acl EXCEPT ![c].groups = new]
    BY DEF setTempGroups
  <1>2. new \in [GroupNames -> Groups \cup {NoGroup}]
    <2>1. ASSUME NEW g \in GroupNames PROVE WithTemp(acl[c].groups[g], temp(g)) \in Groups
      <3>1. temp(g) \in SUBSET TempKeys
        BY TempOfType DEF TempKeys
      <3> HIDE DEF temp
      <3> QED BY <3>1, TempOfType, WithTempType
    <2> HIDE DEF temp
    <2> QED BY <2>1
  <1>3. acl' \in [Channels -> ACLs]
    <2> HIDE DEF new
    <2> QED BY <1>1, <1>2, GroupsSet DEF TypeInv, TypeOK
  <1>4. cParent' = cParent /\ cChannel' = cChannel /\ iId' = iId
    BY DEF setTempGroups
  <1>5. \/ /\ acCache' = acCache /\ sent' = sent
           /\ unflushed' = unflushed \cup Concerning(id)
        \/ \E u \in Online :
             /\ ClearUser(u, Grants(cParent, acl', u, iId[u], cChannel[u]))
             /\ unflushed' = (unflushed \cup Concerning(id)) \ {u}
    BY DEF setTempGroups
  <1>6. ASSUME NEW u \in Online, ClearUser(u, Grants(cParent, acl', u, iId[u], cChannel[u]))
        PROVE  Updated(u)
    BY <1>3, <1>4, <1>6, Decided, GrantedSame, ClearUpdates DEF Online
  <1> QED BY <1>1, <1>3, <1>5, <1>6

LEMMA unregisterUserTypes ==
  ASSUME TypeInv, NEW id \in Registered, unregisterUser(id)
  PROVE  /\ acl' \in [Channels -> ACLs]
         /\ iId' \in [Users -> Registered \cup {None}]
         /\ \A v \in Users : iId[v] # id => iId'[v] = iId[v]
         /\ \A v \in Online : iId[v] # id => acCache'[v] = acCache[v] /\ sent'[v] = sent[v]
         /\ acCache' \in [Users -> Rows] /\ sent' \in [Users -> Copies]
  <1>1. acl' \in [Channels -> ACLs]
    BY ForgotAll DEF unregisterUser, TypeInv, TypeOK
  <1>2. CASE {u \in Online : iId[u] = id} = {}
    <2>1. acCache' = acCache /\ sent' = sent /\ iId' = iId
      BY <1>2 DEF unregisterUser
    <2> QED BY <1>1, <2>1 DEF TypeInv, TypeOK
  <1>3. CASE {u \in Online : iId[u] = id} # {}
    <2>1. PICK u \in Online : /\ iId[u] = id
                              /\ ClearUser(u, Grants(cParent, acl', u, id, cChannel[u]))
                              /\ iId' = [iId EXCEPT ![u] = None]
      BY <1>3 DEF unregisterUser
    <2> DEFINE granted == Grants(cParent, acl', u, id, cChannel[u])
    <2>2. granted \in Decisions
      BY <1>1, Decided
    <2>3. PICK f \in Flushed(acCache[u], sent[u], granted) :
            acCache' = [acCache EXCEPT ![u] = f.row] /\ sent' = [sent EXCEPT ![u] = f.sent]
      BY <2>1 DEF ClearUser
    <2> HIDE DEF granted
    <2>4. f.row \in Rows /\ f.sent \in Copies
      BY <2>1, <2>2, <2>3, FlushedRight DEF TypeInv, TypeOK, Online
    <2>5. iId' \in [Users -> Registered \cup {None}] /\ \A v \in Users : iId[v] # id => iId'[v] = iId[v]
      BY <2>1 DEF TypeInv, TypeOK, Online
    <2>6. /\ acCache' \in [Users -> Rows] /\ sent' \in [Users -> Copies]
          /\ \A v \in Users : v # u => acCache'[v] = acCache[v] /\ sent'[v] = sent[v]
      BY <2>3, <2>4 DEF TypeInv, TypeOK
    <2> QED BY <1>1, <2>1, <2>5, <2>6 DEF Online
  <1> QED BY <1>2, <1>3

LEMMA ClosedTypes ==
  ASSUME TypeInv, NEW u \in Users, connectionClosed(u)
  PROVE  \E row \in Rows : /\ acCache' = [acCache EXCEPT ![u] = row]
                           /\ sent' = [sent EXCEPT ![u] = Nothing]
  <1>1. Granted(u) \in Decisions /\ sent[u] \in Copies
    BY Decided DEF TypeInv, TypeOK, Granted
  <1>2. PICK f \in Flushed(acCache[u], sent[u], Granted(u)) : acCache' = [acCache EXCEPT ![u] = f.row]
    BY DEF connectionClosed
  <1>3. f.row \in Rows
    BY <1>1, <1>2, FlushedRight
  <1> QED BY <1>2, <1>3 DEF connectionClosed

\* A decision is cached, and perhaps told; what was right before is so after.
LEMMA AskedRight ==
  ASSUME TypeInv, NEW u \in Users, NEW c \in Channels,
         hasPermission(u, c) \/ sendClientPermission(u, c)
  PROVE  \E row \in Rows, copy \in Copies :
            /\ acCache' = [acCache EXCEPT ![u] = row] /\ sent' = [sent EXCEPT ![u] = copy]
            /\ RowRight(acCache[u], Granted(u)) /\ CopyRight(sent[u], Granted(u))
                 => RowRight(row, Granted(u)) /\ CopyRight(copy, Granted(u))
  <1> DEFINE here == Kept(iId[u], {c})
             row == Filled(acCache[u], Granted(u), here)
             copy == Told(sent[u], row, here)
  <1>1. /\ Granted(u) \in Decisions /\ sent[u] \in Copies /\ acCache[u] \in Rows
        /\ here \in SUBSET Channels
    BY Decided, KeptType DEF TypeInv, TypeOK, Granted
  <1>2. acCache' = [acCache EXCEPT ![u] = row]
    BY DEF hasPermission, sendClientPermission
  <1>3. sent' = [sent EXCEPT ![u] = copy] \/ sent' = [sent EXCEPT ![u] = sent[u]]
    <2>1. sent = [sent EXCEPT ![u] = sent[u]]
      BY DEF TypeInv, TypeOK
    <2> QED BY <2>1 DEF hasPermission, sendClientPermission
  <1> HIDE DEF here
  <1>4. /\ row \in Rows /\ \A d \in here : row[d] \in SUBSET Perms
        /\ RowRight(acCache[u], Granted(u)) =>
             RowRight(row, Granted(u)) /\ \A d \in here : row[d] = Granted(u)[d]
    <2>1. here \cap Channels = here
      BY <1>1
    <2>2. /\ row \in Rows /\ \A d \in here \cap Channels : row[d] \in SUBSET Perms
          /\ RowRight(acCache[u], Granted(u)) =>
               RowRight(row, Granted(u)) /\ \A d \in here \cap Channels : row[d] = Granted(u)[d]
      BY <1>1, FilledRight
    <2> QED BY <2>1, <2>2
  <1> HIDE DEF row
  <1>5. /\ copy \in Copies
        /\ CopyRight(sent[u], Granted(u)) /\ (\A d \in here : row[d] = Granted(u)[d])
             => CopyRight(copy, Granted(u))
    BY <1>1, <1>4, ToldRightly
  <1> HIDE DEF copy
  <1> QED BY <1>1, <1>2, <1>3, <1>4, <1>5

LEMMA TypeStep == TypeInv /\ [Next]_vars => TypeInv'
  <1> SUFFICES ASSUME TypeInv, [Next]_vars PROVE TypeInv'
    OBVIOUS
  <1>0. /\ Tree(cParent) /\ acl \in [Channels -> ACLs]
        /\ cParent \in [Channels -> Channels \cup {None}]
        /\ cChannel \in [Users -> Channels \cup {None}]
        /\ iId \in [Users -> Registered \cup {None}]
        /\ acCache \in [Users -> Rows] /\ sent \in [Users -> Copies] /\ unflushed \subseteq Users
    BY DEF TypeInv, TypeOK
  <1>1. ASSUME NEW u \in Users, NEW c \in Channels, NEW id \in Registered \cup {None}, Login(u, id, c)
        PROVE  TypeInv'
    <2>1. acCache' \in [Users -> Rows] /\ sent' \in [Users -> Copies] /\ cChannel'[u] \in Channels
      BY <1>1, LoginUpdates, UpdatedTypes
    <2>2. cChannel' \in [Users -> Channels \cup {None}]
      BY <1>0, <1>1, <2>1 DEF Login
    <2>3. /\ iId' \in [Users -> Registered \cup {None}] /\ unflushed' \subseteq Users
          /\ cParent' = cParent /\ acl' = acl
      BY <1>0, <1>1 DEF Login
    <2> QED BY <1>0, <2>1, <2>2, <2>3 DEF TypeInv, TypeOK, Tree
  <1>2. ASSUME NEW u \in Users, NEW c \in Channels, userEnterChannel(u, c) PROVE TypeInv'
    <2>1. acCache' \in [Users -> Rows] /\ sent' \in [Users -> Copies]
      BY <1>2, EnterUpdates, UpdatedTypes
    <2>2. /\ cChannel' \in [Users -> Channels \cup {None}] /\ unflushed' \subseteq Users
          /\ cParent' = cParent /\ acl' = acl /\ iId' = iId
      BY <1>0, <1>2 DEF userEnterChannel
    <2> QED BY <1>0, <2>1, <2>2 DEF TypeInv, TypeOK, Tree
  <1>3. ASSUME NEW u \in Users, NEW c \in Channels,
               hasPermission(u, c) \/ sendClientPermission(u, c)
        PROVE  TypeInv'
    <2>1. acCache' \in [Users -> Rows] /\ sent' \in [Users -> Copies]
      BY <1>0, <1>3, AskedRight
    <2>2. UNCHANGED <<cParent, acl, cChannel, iId, unflushed>>
      BY <1>3 DEF hasPermission, sendClientPermission
    <2> QED BY <1>0, <2>1, <2>2 DEF TypeInv, TypeOK, Tree
  <1>4. ASSUME NEW u \in Users, NEW c \in Channels, NEW s \in Settings[c], msgACL(u, c, s)
        PROVE  TypeInv'
    <2>1. /\ acCache' \in [Users -> Rows] /\ sent' \in [Users -> Copies]
          /\ acl' \in [Channels -> ACLs]
      BY <1>4, msgACLUpdates DEF AllUpdated
    <2>2. UNCHANGED <<cParent, cChannel, iId>> /\ unflushed' = {}
      BY <1>4 DEF msgACL
    <2> QED BY <1>0, <2>1, <2>2 DEF TypeInv, TypeOK, Tree
  <1>5. ASSUME NEW c \in Channels, NEW s \in Settings[c], setACL(c, s) PROVE TypeInv'
    <2>1. /\ acCache' \in [Users -> Rows] /\ sent' \in [Users -> Copies]
          /\ acl' \in [Channels -> ACLs]
      BY <1>5, setACLUpdates DEF AllUpdated
    <2>2. UNCHANGED <<cParent, cChannel, iId>> /\ unflushed' = {}
      BY <1>5 DEF setACL
    <2> QED BY <1>0, <2>1, <2>2 DEF TypeInv, TypeOK, Tree
  <1>6. ASSUME NEW u \in Users, NEW c \in Channels, NEW g \in GroupNames, TempGroup(u, c, g)
        PROVE  TypeInv'
    <2>1. /\ acCache' \in [Users -> Rows] /\ sent' \in [Users -> Copies]
          /\ acl' \in [Channels -> ACLs]
      BY <1>6, TempGroupIs, UpdatedTypes
    <2>2. UNCHANGED <<cParent, cChannel, iId>> /\ unflushed' \subseteq Users
      BY <1>0, <1>6 DEF TempGroup, Concerning, Online
    <2> QED BY <1>0, <2>1, <2>2 DEF TypeInv, TypeOK, Tree
  <1>7. ASSUME NEW id \in TempIds, NEW c \in Channels, NEW groups \in SUBSET GroupNames,
               setTempGroups(id, c, groups)
        PROVE  TypeInv'
    <2>1. /\ acCache' \in [Users -> Rows] /\ sent' \in [Users -> Copies]
          /\ acl' \in [Channels -> ACLs]
      BY <1>0, <1>7, setTempGroupsIs, UpdatedTypes DEF Online
    <2>2. UNCHANGED <<cParent, cChannel, iId>> /\ unflushed' \subseteq Users
      BY <1>0, <1>7, setTempGroupsIs DEF setTempGroups, Concerning, Online
    <2> QED BY <1>0, <2>1, <2>2 DEF TypeInv, TypeOK, Tree
  <1>8. ASSUME NEW u \in Users, connectionClosed(u) PROVE TypeInv'
    <2>1. acCache' \in [Users -> Rows] /\ sent' \in [Users -> Copies]
      BY <1>0, <1>8, ClosedTypes, NothingType
    <2>2. /\ cChannel' \in [Users -> Channels \cup {None}] /\ unflushed' \subseteq Users
          /\ iId' \in [Users -> Registered \cup {None}] /\ cParent' = cParent /\ acl' = acl
      BY <1>0, <1>8 DEF connectionClosed
    <2> QED BY <1>0, <2>1, <2>2 DEF TypeInv, TypeOK, Tree
  <1>9. ASSUME NEW u \in Users, NEW id \in Registered, Register(u, id) PROVE TypeInv'
    <2>1. /\ iId' \in [Users -> Registered \cup {None}] /\ unflushed' \subseteq Users
          /\ UNCHANGED <<cParent, acl, cChannel, acCache, sent>>
      BY <1>0, <1>9 DEF Register
    <2> QED BY <1>0, <2>1 DEF TypeInv, TypeOK, Tree
  <1>10. ASSUME NEW id \in Registered, unregisterUser(id) PROVE TypeInv'
    <2>1. /\ acCache' \in [Users -> Rows] /\ sent' \in [Users -> Copies]
          /\ acl' \in [Channels -> ACLs] /\ iId' \in [Users -> Registered \cup {None}]
      BY <1>10, unregisterUserTypes
    <2>2. UNCHANGED <<cParent, cChannel>> /\ unflushed' \subseteq Users
      BY <1>0, <1>10 DEF unregisterUser, Online
    <2> QED BY <1>0, <2>1, <2>2 DEF TypeInv, TypeOK, Tree
  <1>11. ASSUME NEW c \in Channels, NEW p \in Channels, MoveChannel(c, p) PROVE TypeInv'
    <2>1. c \in Channels \ {Root} /\ c \notin Range(Line(cParent, p))
      BY <1>11, ACLAssumption DEF MoveChannel
    <2>2. Tree([cParent EXCEPT ![c] = p])
      BY <1>0, <2>1, MovedTree
    <2>3. /\ cParent' = [cParent EXCEPT ![c] = p] /\ unflushed' = Users
          /\ UNCHANGED <<acl, cChannel, iId, acCache, sent>>
      BY <1>11 DEF MoveChannel
    <2>4. Tree(cParent')
      BY <2>2, <2>3
    <2> QED BY <1>0, <2>3, <2>4 DEF TypeInv, TypeOK, Tree
  <1>12. CASE UNCHANGED vars
    BY <1>0, <1>12 DEF vars, TypeInv, TypeOK, Tree
  <1> QED
    BY <1>1, <1>2, <1>3, <1>4, <1>5, <1>6, <1>7, <1>8, <1>9, <1>10, <1>11, <1>12 DEF Next

\* Whatever is set, moved, registered and asked, all variables keep their types;
\* among them that no client is told a decision that was not made, that lists
\* and groups stay well formed, and (in the invariant) that moves keep a tree.
THEOREM TypeCorrect == Spec => []TypeOK
  <1>1. TypeInv => TypeOK
    BY DEF TypeInv
  <1> QED BY <1>1, TypeInit, TypeStep, PTL DEF Spec

-----------------------------------------------------------------------------
(* What a change to the groups or lists leaves alone                         *)

\* u, with number id, is a member of group, if nothing below removes it again.
Has(group, u, id) == id \in group.add \cup group.temp \/ -Session[u] \in group.temp

\* Group k in place of group h says the same of u.
GroupAlike(h, k, u, id) ==
    \/ h = NoGroup /\ k = NoGroup
    \/ h = NoGroup /\ k # NoGroup /\ k.inherit /\ k.inheritable /\ ~Has(k, u, id) /\ id \notin k.remove
    \/ /\ h # NoGroup /\ k # NoGroup /\ h.inherit = k.inherit /\ h.inheritable = k.inheritable
       /\ Has(h, u, id) <=> Has(k, u, id)
       /\ id \in h.remove <=> id \in k.remove

GroupsAlike(A, B, u, id) ==
    \A c \in Channels : \A g \in GroupNames : GroupAlike(A[c].groups[g], B[c].groups[g], u, id)

\* A group that is there before counts as it did.
LEMMA CountsAlike ==
  ASSUME NEW A, NEW B, NEW u, NEW id, GroupsAlike(A, B, u, id),
         NEW line \in Seq(Channels), NEW name \in GroupNames, NEW i \in DOMAIN line,
         A[line[i]].groups[name] # NoGroup
  PROVE  Counts(A, line, name, i) <=> Counts(B, line, name, i)
  <1>1. \A j \in DOMAIN line : GroupAlike(A[line[j]].groups[name], B[line[j]].groups[name], u, id)
    BY DEF GroupsAlike
  <1>2. \A j \in i + 1 .. Len(line) : j \in DOMAIN line
    OBVIOUS
  <1> DEFINE a(j) == A[line[j]].groups[name]
             b(j) == B[line[j]].groups[name]
  <1>3. \A j \in DOMAIN line : GroupAlike(a(j), b(j), u, id)
    BY <1>1
  <1>4. /\ Counts(A, line, name, i) <=>
             /\ a(i) # NoGroup /\ (i = Len(line) \/ a(i).inheritable)
             /\ \A j \in i + 1 .. Len(line) :
                  a(j) # NoGroup => a(j).inherit /\ (j = Len(line) \/ a(j).inheritable)
        /\ Counts(B, line, name, i) <=>
             /\ b(i) # NoGroup /\ (i = Len(line) \/ b(i).inheritable)
             /\ \A j \in i + 1 .. Len(line) :
                  b(j) # NoGroup => b(j).inherit /\ (j = Len(line) \/ b(j).inheritable)
    BY DEF Counts
  <1>5. a(i) # NoGroup
    OBVIOUS
  <1> HIDE DEF a, b
  <1>6. \A j \in DOMAIN line :
          (a(j) # NoGroup => a(j).inherit /\ (j = Len(line) \/ a(j).inheritable))
          <=> (b(j) # NoGroup => b(j).inherit /\ (j = Len(line) \/ b(j).inheritable))
    BY <1>3 DEF GroupAlike
  <1>7. b(i) # NoGroup /\ a(i).inheritable = b(i).inheritable
    BY <1>3, <1>5 DEF GroupAlike
  <1> QED BY <1>2, <1>4, <1>5, <1>6, <1>7

LEMMA InGroupAlike ==
  ASSUME NEW A, NEW B, NEW u, NEW id, GroupsAlike(A, B, u, id),
         NEW line \in Seq(Channels), NEW name \in GroupNames
  PROVE  InGroup(A, line, name, u, id) <=> InGroup(B, line, name, u, id)
  <1> DEFINE a(j) == A[line[j]].groups[name]
             b(j) == B[line[j]].groups[name]
             countA == {i \in DOMAIN line : Counts(A, line, name, i)}
             countB == {i \in DOMAIN line : Counts(B, line, name, i)}
  <1>1. \A j \in DOMAIN line : GroupAlike(a(j), b(j), u, id)
    BY DEF GroupsAlike
  <1>2. /\ InGroup(A, line, name, u, id) <=>
             \E i \in countA : Has(a(i), u, id) /\ \A j \in countA : j >= i => id \notin a(j).remove
        /\ InGroup(B, line, name, u, id) <=>
             \E i \in countB : Has(b(i), u, id) /\ \A j \in countB : j >= i => id \notin b(j).remove
    BY DEF InGroup, Has
  <1>3. /\ \A i \in countA : a(i) # NoGroup
        /\ \A i \in countB : b(i) # NoGroup
        /\ \A i \in DOMAIN line : a(i) # NoGroup => (i \in countA <=> i \in countB)
    <2>1. \A i \in DOMAIN line : a(i) # NoGroup => (Counts(A, line, name, i) <=> Counts(B, line, name, i))
      BY CountsAlike
    <2> QED BY <2>1 DEF Counts
  <1>4. countA \subseteq DOMAIN line /\ countB \subseteq DOMAIN line
    OBVIOUS
  <1> HIDE DEF a, b, countA, countB
  <1>5. /\ \A i \in countB : a(i) = NoGroup => ~Has(b(i), u, id) /\ id \notin b(i).remove
        /\ \A i \in DOMAIN line : a(i) # NoGroup =>
             (Has(a(i), u, id) <=> Has(b(i), u, id)) /\ (id \in a(i).remove <=> id \in b(i).remove)
    BY <1>1, <1>3, <1>4 DEF GroupAlike
  <1>6. ASSUME NEW i \in countA, Has(a(i), u, id), \A j \in countA : j >= i => id \notin a(j).remove
        PROVE  i \in countB /\ Has(b(i), u, id) /\ \A j \in countB : j >= i => id \notin b(j).remove
    BY <1>3, <1>4, <1>5, <1>6
  <1>7. ASSUME NEW i \in countB, Has(b(i), u, id), \A j \in countB : j >= i => id \notin b(j).remove
        PROVE  i \in countA /\ Has(a(i), u, id) /\ \A j \in countA : j >= i => id \notin a(j).remove
    BY <1>3, <1>4, <1>5, <1>7
  <1> QED BY <1>2, <1>6, <1>7

LEMMA MatchesAlike ==
  ASSUME NEW A, NEW B, NEW u, NEW id, GroupsAlike(A, B, u, id),
         NEW line \in Seq(Channels), NEW n \in DOMAIN line, NEW e \in Entries, NEW at
  PROVE  Matches(A, line, line[n], e, u, id, at) <=> Matches(B, line, line[n], e, u, id, at)
  <1> DEFINE m == IF e.who.local THEN CHOOSE i \in DOMAIN line : line[i] = line[n] ELSE Len(line)
             start == SubSeq(line, 1, m)
  <1>1. m \in DOMAIN line
    <2>1. Len(line) \in DOMAIN line
      OBVIOUS
    <2>2. (CHOOSE i \in DOMAIN line : line[i] = line[n]) \in DOMAIN line
      OBVIOUS
    <2> QED BY <2>1, <2>2
  <1> HIDE DEF m
  <1>2. start \in Seq(Channels)
    BY <1>1
  <1> HIDE DEF start
  <1>3. \A name \in GroupNames : InGroup(A, start, name, u, id) <=> InGroup(B, start, name, u, id)
    BY <1>2, InGroupAlike
  <1>4. \/ e.who.group \in GroupNames \/ e.who.group \in Users
        \/ e.who.group \in {"none", "all", "auth", "in", "out"}
    BY DEF Entries, Whos
  <1> DEFINE group == e.who.group
             other(X) == InGroup(X, start, group, u, id)
             in(X) == CASE group = "none" -> FALSE
                        [] group = "all" -> TRUE
                        [] group = "auth" -> id >= 0
                        [] group = "in" -> at = line[m]
                        [] group = "out" -> at # line[m]
                        [] group \in Users -> group = u /\ u \in Hashed
                        [] OTHER -> other(X)
  <1>5. /\ isMember(A, line, line[n], e.who, u, id, at) = (in(A) # e.who.invert)
        /\ isMember(B, line, line[n], e.who, u, id, at) = (in(B) # e.who.invert)
    BY DEF isMember, m, start
  <1>6. group \notin {"none", "all", "auth", "in", "out"} /\ group \notin Users => (other(A) <=> other(B))
    BY <1>3, <1>4
  <1>7. other(A) \in BOOLEAN /\ other(B) \in BOOLEAN
    BY DEF InGroup
  <1> HIDE DEF other
  <1>8. in(A) = in(B)
    <2>1. CASE group \in {"none", "all", "auth", "in", "out"} \/ group \in Users
      <3>0. group \in {"none", "all", "auth", "in", "out"} => group \notin Users
        BY ACLAssumption
      <3>1. CASE group = "none"
        BY <3>0, <3>1
      <3>2. CASE group = "all"
        BY <3>0, <3>2
      <3>3. CASE group = "auth"
        BY <3>3
      <3>4. CASE group = "in"
        BY <3>0, <3>4
      <3>5. CASE group = "out"
        BY <3>0, <3>5
      <3>6. CASE group \in Users /\ group \notin {"none", "all", "auth", "in", "out"}
        BY <3>6
      <3> QED BY <2>1, <3>1, <3>2, <3>3, <3>4, <3>5, <3>6
    <2>2. CASE group \notin {"none", "all", "auth", "in", "out"} /\ group \notin Users
      BY <1>6, <1>7, <2>2
    <2> QED BY <2>1, <2>2
  <1> HIDE DEF in
  <1> QED BY <1>5, <1>8 DEF Matches

LEMMA HeedAlike ==
  ASSUME NEW A, NEW B, NEW line, NEW ch, NEW list \in Seq(Entries), NEW above \in States,
         NEW u, NEW id, NEW at,
         \A n \in 1 .. Len(list) :
           Matches(A, line, ch, list[n], u, id, at) <=> Matches(B, line, ch, list[n], u, id, at)
  PROVE  Heed(A, line, ch, list, above, u, id, at) = Heed(B, line, ch, list, above, u, id, at)
  <1>1. PICK f : Heeds(f, A, line, ch, list, above, u, id, at)
    BY HeedIs
  <1>2. PICK g : Heeds(g, B, line, ch, list, above, u, id, at)
    BY HeedIs
  <1>3. GoAlike(f, g, Len(list))
    BY <1>1, <1>2 DEF Heeds, GoAlike
  <1>4. Len(list) \in Nat
    OBVIOUS
  <1>5. f[Len(list)] = g[Len(list)]
    BY <1>3, <1>4, Unique
  <1> QED BY <1>1, <1>2, <1>5 DEF Heeds

\* Entries about nobody concerned may go.
LEMMA HeedWithout ==
  ASSUME NEW A, NEW line, NEW ch, NEW list \in Seq(Entries), NEW above \in States,
         NEW u, NEW id, NEW at, NEW gone,
         \A n \in 1 .. Len(list) :
           list[n].who.userId = gone => ~Matches(A, line, ch, list[n], u, id, at)
  PROVE  Heed(A, line, ch, Without(list, gone), above, u, id, at)
           = Heed(A, line, ch, list, above, u, id, at)
  <1> DEFINE len == Len(list)
  <1>0. len \in Nat /\ \A n \in 1 .. len : list[n] \in Entries /\ n - 1 \in 0 .. len
    OBVIOUS
  <1>1. PICK f : Heeds(f, A, line, ch, list, above, u, id, at)
    BY HeedIs
  <1>2. PICK k : Keeps(k, list, gone)
    BY WithoutIs
  <1> DEFINE to(s) == Heed(A, line, ch, s, above, u, id, at)
             S == {n \in 0 .. len : to(k[n]) = f[n]}
  <1>3. 0 \in S
    BY <1>0, <1>1, <1>2, HeedEmpty DEF Heeds, Keeps
  <1>4. ASSUME NEW n \in 1 .. len, n - 1 \in S PROVE n \in S
    <2>1. /\ to(k[n - 1]) = f[n - 1] /\ k[n - 1] \in Seq(Entries) /\ list[n] \in Entries
          /\ k[n] = IF list[n].who.userId = gone THEN k[n - 1] ELSE Append(k[n - 1], list[n])
      BY <1>0, <1>2, <1>4 DEF Keeps
    <2>2. f[n] = IF Matches(A, line, ch, list[n], u, id, at)
                 THEN Apply(f[n - 1], list[n], ch, Last(line)) ELSE f[n - 1]
      BY <1>1 DEF Heeds
    <2>3. CASE list[n].who.userId = gone
      BY <2>1, <2>2, <2>3
    <2>4. CASE list[n].who.userId # gone
      <3>1. to(Append(k[n - 1], list[n])) =
              IF Matches(A, line, ch, list[n], u, id, at)
              THEN Apply(to(k[n - 1]), list[n], ch, Last(line)) ELSE to(k[n - 1])
        BY <2>1, HeedAppend
      <3>2. k[n] = Append(k[n - 1], list[n]) /\ to(k[n - 1]) = f[n - 1]
        BY <2>1, <2>4
      <3> HIDE DEF to
      <3>3. to(k[n]) = f[n]
        BY <2>2, <3>1, <3>2
      <3> QED BY <1>0, <3>3
    <2> QED BY <2>3, <2>4
  <1>5. \A n \in 0 .. len : n \in S
    <2> HIDE DEF S, len
    <2> QED BY <1>0, <1>3, <1>4, UpTo
  <1>6. to(k[len]) = f[len]
    BY <1>0, <1>5
  <1> QED BY <1>1, <1>2, <1>6 DEF Heeds, Keeps

\* A user is granted the same on every channel if every channel is heeded alike.
LEMMA GrantsAlike ==
  ASSUME NEW parent, Tree(parent), NEW A \in [Channels -> ACLs], NEW B \in [Channels -> ACLs],
         NEW u, NEW id, NEW at,
         \A c \in Channels : A[c].inherit = B[c].inherit,
         \A line \in Seq(Channels) : \A n \in DOMAIN line : \A above \in States :
           Heed(A, line, line[n], A[line[n]].list, above, u, id, at)
             = Heed(B, line, line[n], B[line[n]].list, above, u, id, at)
  PROVE  Grants(parent, A, u, id, at) = Grants(parent, B, u, id, at)
  <1>1. ASSUME NEW line \in Seq(Channels) PROVE Walk(A, line, u, id, at) = Walk(B, line, u, id, at)
    <2>1. PICK f : Walks(f, A, line, u, id, at)
      BY WalkIs
    <2>2. PICK g : Walks(g, B, line, u, id, at)
      BY WalkIs
    <2> DEFINE len == Len(line)
    <2>3. len \in Nat /\ \A n \in 1 .. len : n \in DOMAIN line /\ line[n] \in Channels /\ n - 1 \in 0 .. len
      OBVIOUS
    <2>4. f[0] = g[0]
      BY <2>1, <2>2 DEF Walks
    <2>5. ASSUME NEW n \in 1 .. len, f[n - 1] = g[n - 1] PROVE f[n] = g[n]
      <3>1. f[n - 1] \in States
        BY <2>1, <2>3 DEF Walks
      <3> DEFINE s == f[n - 1]
      <3>2. f[n] = IF s.path = {} THEN s
                   ELSE Heed(A, line, line[n], A[line[n]].list, Above(A[line[n]], s), u, id, at)
        BY <2>1 DEF Walks
      <3>3. g[n] = IF s.path = {} THEN s
                   ELSE Heed(B, line, line[n], B[line[n]].list, Above(B[line[n]], s), u, id, at)
        BY <2>2, <2>5 DEF Walks
      <3>4. Above(A[line[n]], s) \in States /\ Above(A[line[n]], s) = Above(B[line[n]], s)
        <4>1. Above(A[line[n]], s) \in States
          BY <2>3, <3>1, AboveType
        <4>2. A[line[n]].inherit = B[line[n]].inherit
          BY <2>3
        <4> QED BY <4>1, <4>2 DEF Above
      <3> HIDE DEF s
      <3>5. Heed(A, line, line[n], A[line[n]].list, Above(A[line[n]], s), u, id, at)
              = Heed(B, line, line[n], B[line[n]].list, Above(A[line[n]], s), u, id, at)
        BY <2>3, <3>4
      <3> QED BY <3>2, <3>3, <3>4, <3>5
    <2>6. GoAlike(f, g, len)
      <3> HIDE DEF len
      <3> QED BY <2>4, <2>5 DEF GoAlike
    <2>7. f[len] = g[len]
      <3> HIDE DEF len
      <3>1. \A n \in 0 .. len : f[n] = g[n]
        BY <2>3, <2>6, Unique
      <3> QED BY <2>3, <3>1
    <2> QED BY <2>1, <2>2, <2>7 DEF Walks
  <1>2. \A c \in Channels : Line(parent, c) \in Seq(Channels)
    BY LineIs
  <1>3. \A c \in Channels : Walk(A, Line(parent, c), u, id, at) = Walk(B, Line(parent, c), u, id, at)
    BY <1>1, <1>2
  <1> QED BY <1>3, Zenon DEF Grants

\* Only groups change, and not what they say of u.
LEMMA GrantsByGroups ==
  ASSUME NEW parent, Tree(parent), NEW A \in [Channels -> ACLs], NEW B \in [Channels -> ACLs],
         NEW u, NEW id, NEW at, GroupsAlike(A, B, u, id),
         \A c \in Channels : A[c].inherit = B[c].inherit /\ A[c].list = B[c].list
  PROVE  Grants(parent, A, u, id, at) = Grants(parent, B, u, id, at)
  <1>1. ASSUME NEW line \in Seq(Channels), NEW n \in DOMAIN line, NEW above \in States
        PROVE  Heed(A, line, line[n], A[line[n]].list, above, u, id, at)
                 = Heed(B, line, line[n], B[line[n]].list, above, u, id, at)
    <2>1. line[n] \in Channels
      OBVIOUS
    <2> DEFINE list == A[line[n]].list
    <2>2. list \in Seq(Entries) /\ B[line[n]].list = list
      <3>1. \A a \in ACLs : a.list \in Seq(Entries)
        BY DEF ACLs
      <3> QED BY <2>1, <3>1
    <2> HIDE DEF list
    <2>3. \A k \in 1 .. Len(list) : list[k] \in Entries
      BY <2>2
    <2>4. \A k \in 1 .. Len(list) : Matches(A, line, line[n], list[k], u, id, at)
                                      <=> Matches(B, line, line[n], list[k], u, id, at)
      BY <2>3, MatchesAlike
    <2>5. Heed(A, line, line[n], list, above, u, id, at) = Heed(B, line, line[n], list, above, u, id, at)
      BY <2>2, <2>4, HeedAlike
    <2> QED BY <2>2, <2>5 DEF list
  <1> QED BY <1>1, GrantsAlike

-----------------------------------------------------------------------------
(* The cache and the clients' copies are right                               *)

\* What Replaced and the entry for the editor do to the lists.
LEMMA ReplacedIs ==
  ASSUME acl \in [Channels -> ACLs], NEW c \in Channels, NEW s \in ACLs
  PROVE  /\ Replaced(c, s)[c].list = s.list
         /\ \A d \in Channels : d # c => Replaced(c, s)[d] = acl[d]
  BY DEF Replaced, ACLs

LEMMA AppendedIs ==
  ASSUME NEW A \in [Channels -> ACLs], NEW c \in Channels, NEW list
  PROVE  /\ [A EXCEPT ![c].list = list][c].list = list
         /\ [A EXCEPT ![c].list = list][c].inherit = A[c].inherit
         /\ [A EXCEPT ![c].list = list][c].groups = A[c].groups
         /\ \A d \in Channels : d # c => [A EXCEPT ![c].list = list][d] = A[d]
  BY DEF ACLs

\* What is right for u.
Right(u) == RowRight(acCache[u], Granted(u)) /\ CopyRight(sent[u], Granted(u))

LEMMA UpdatedRight ==
  ASSUME TypeInv, NEW u \in Users, Updated(u)
  PROVE  Right(u)' /\ \A v \in Users : v # u => acCache'[v] = acCache[v] /\ sent'[v] = sent[v]
  <1>1. PICK row \in Rows, copy \in Copies :
          /\ acCache' = [acCache EXCEPT ![u] = row] /\ sent' = [sent EXCEPT ![u] = copy]
          /\ RowRight(row, Granted(u)') /\ CopyRight(copy, Granted(u)')
    BY DEF Updated
  <1>2. /\ acCache'[u] = row /\ sent'[u] = copy
        /\ \A v \in Users : v # u => acCache'[v] = acCache[v] /\ sent'[v] = sent[v]
    BY <1>1 DEF TypeInv, TypeOK
  <1> QED BY <1>1, <1>2 DEF Right

LEMMA StaysRight ==
  ASSUME NEW v, Right(v), acCache'[v] = acCache[v], sent'[v] = sent[v], Granted(v)' = Granted(v)
  PROVE  Right(v)'
  BY DEF Right

LEMMA SameGrants ==
  ASSUME NEW v, cParent' = cParent, acl' = acl, cChannel'[v] = cChannel[v], iId'[v] = iId[v]
  PROVE  Granted(v)' = Granted(v)
  BY DEF Granted

\* Other temporary members of a group mean nothing to u.
LEMMA WithTempAlike ==
  ASSUME NEW h \in Groups \cup {NoGroup}, NEW temp \in SUBSET TempKeys, NEW u, NEW id,
         id \in temp <=> h # NoGroup /\ id \in h.temp,
         -Session[u] \in temp <=> h # NoGroup /\ -Session[u] \in h.temp
  PROVE  GroupAlike(h, WithTemp(h, temp), u, id)
  <1>1. WithTemp(h, temp) # NoGroup
    <2>1. \A k \in Groups : k # NoGroup
      BY ACLAssumption
    <2> QED BY <2>1, WithTempType
  <1>2. CASE h = NoGroup
    <2> DEFINE k == [inherit |-> TRUE, inheritable |-> TRUE, add |-> {}, remove |-> {}, temp |-> temp]
    <2>1. WithTemp(h, temp) = k
      BY <1>2 DEF WithTemp
    <2>2. k.inherit /\ k.inheritable /\ ~Has(k, u, id) /\ id \notin k.remove
      BY <1>2 DEF Has
    <2>3. k # NoGroup
      BY <1>1, <2>1
    <2> HIDE DEF k
    <2> QED BY <1>2, <2>1, <2>2, <2>3 DEF GroupAlike
  <1>3. CASE h # NoGroup
    <2>1. h \in Groups
      BY <1>3
    <2>2. WithTemp(h, temp) = [h EXCEPT !.temp = temp]
      BY <1>3 DEF WithTemp
    <2> DEFINE k == [h EXCEPT !.temp = temp]
    <2>3. /\ k.inherit = h.inherit /\ k.inheritable = h.inheritable
          /\ k.add = h.add /\ k.remove = h.remove /\ k.temp = temp
      BY <2>1 DEF Groups
    <2>4. k # NoGroup
      BY <1>1, <2>2
    <2> HIDE DEF k
    <2> QED BY <1>3, <2>2, <2>3, <2>4 DEF GroupAlike, Has, k
  <1> QED BY <1>2, <1>3

LEMMA TempGroupOthers ==
  ASSUME TypeInv, NEW u \in Users, NEW c \in Channels, NEW g \in GroupNames,
         TempGroup(u, c, g), NEW v \in Users, ~Concerned(v, TempKey(u))
  PROVE  Granted(v)' = Granted(v)
  <1>1. PICK temp \in {TempOf(c, g) \cup {-Session[u]}, TempOf(c, g) \ {-Session[u]}} :
          acl' = [acl EXCEPT ![c].groups[g] = WithTemp(@, temp)]
    BY DEF TempGroup, TempKey
  <1> DEFINE h == acl[c].groups[g]
             id == iId[v]
  <1>0. /\ Tree(cParent) /\ acl \in [Channels -> ACLs]
        /\ acl[c].groups \in [GroupNames -> Groups \cup {NoGroup}] /\ h \in Groups \cup {NoGroup}
        /\ TempOf(c, g) \in SUBSET TempKeys
    BY TempOfType DEF TypeInv, TypeOK
  <1>2. temp \in SUBSET TempKeys
    BY <1>0, <1>1 DEF TempKeys
  <1>3. /\ id \in temp <=> h # NoGroup /\ id \in h.temp
        /\ -Session[v] \in temp <=> h # NoGroup /\ -Session[v] \in h.temp
    <2>1. -Session[u] # -Session[v] /\ -Session[u] # id
      BY DEF Concerned, TempKey
    <2>2. TempOf(c, g) = IF h = NoGroup THEN {} ELSE h.temp
      BY DEF TempOf
    <2> HIDE DEF h
    <2>3. /\ id \in temp <=> id \in TempOf(c, g)
          /\ -Session[v] \in temp <=> -Session[v] \in TempOf(c, g)
      BY <1>1, <2>1
    <2> QED BY <2>2, <2>3
  <1> DEFINE groups == [acl[c].groups EXCEPT ![g] = WithTemp(h, temp)]
  <1>4. groups \in [GroupNames -> Groups \cup {NoGroup}]
    BY <1>0, <1>2, WithTempType
  <1>5. \A k \in GroupNames : GroupAlike(acl[c].groups[k], groups[k], v, id)
    <2>1. GroupAlike(h, WithTemp(h, temp), v, id)
      <3> HIDE DEF h, id
      <3> QED BY <1>0, <1>2, <1>3, WithTempAlike
    <2>2. \A k : GroupAlike(k, k, v, id)
      BY DEF GroupAlike
    <2> HIDE DEF id
    <2>3. groups[g] = WithTemp(h, temp) /\ \A k \in GroupNames : k # g => groups[k] = acl[c].groups[k]
      BY <1>0
    <2> HIDE DEF groups, h
    <2> QED BY <2>1, <2>2, <2>3 DEF h
  <1>6. acl' = [acl EXCEPT ![c].groups = groups]
    BY <1>1
  <1> HIDE DEF groups
  <1>7. /\ acl' \in [Channels -> ACLs] /\ acl'[c].groups = groups
        /\ \A d \in Channels : acl'[d].inherit = acl[d].inherit /\ acl'[d].list = acl[d].list
                               /\ (d # c => acl'[d].groups = acl[d].groups)
    BY <1>0, <1>4, <1>6, GroupsSet
  <1>8. GroupsAlike(acl, acl', v, id)
    <2>1. \A k : GroupAlike(k, k, v, id)
      BY DEF GroupAlike
    <2> HIDE DEF id
    <2> QED BY <1>5, <1>7, <2>1 DEF GroupsAlike
  <1>9. Grants(cParent, acl, v, id, cChannel[v]) = Grants(cParent, acl', v, id, cChannel[v])
    <2> HIDE DEF id
    <2> QED BY <1>0, <1>7, <1>8, GrantsByGroups
  <1>10. cParent' = cParent /\ cChannel' = cChannel /\ iId' = iId
    BY DEF TempGroup
  <1> QED BY <1>9, <1>10, GrantedSame DEF Granted

LEMMA setTempGroupsOthers ==
  ASSUME TypeInv, NEW gone \in TempIds, NEW c \in Channels,
         NEW names \in SUBSET GroupNames, setTempGroups(gone, c, names),
         NEW v \in Users, ~Concerned(v, gone)
  PROVE  Granted(v)' = Granted(v)
  <1> DEFINE id == iId[v]
             temp(g) == (TempOf(c, g) \ {gone}) \cup (IF g \in names THEN {gone} ELSE {})
             groups == [g \in GroupNames |->
                     IF acl[c].groups[g] = NoGroup /\ g \notin names THEN NoGroup
                     ELSE WithTemp(acl[c].groups[g], temp(g))]
  <1>0. /\ Tree(cParent) /\ acl \in [Channels -> ACLs]
        /\ \A g \in GroupNames : /\ acl[c].groups[g] \in Groups \cup {NoGroup}
                                 /\ TempOf(c, g) \in SUBSET TempKeys
    BY TempOfType DEF TypeInv, TypeOK
  <1>1. acl' = [acl EXCEPT ![c].groups = groups] /\ acl' \in [Channels -> ACLs]
    BY setTempGroupsIs
  <1>2. -Session[v] # gone /\ id # gone
    BY DEF Concerned
  <1>3. ASSUME NEW g \in GroupNames
        PROVE  temp(g) \in SUBSET TempKeys /\ groups[g] \in Groups \cup {NoGroup}
               /\ GroupAlike(acl[c].groups[g], groups[g], v, id)
    <2> DEFINE h == acl[c].groups[g]
               new == temp(g)
    <2>1. new \in SUBSET TempKeys
      BY <1>0 DEF TempKeys
    <2>2. /\ id \in new <=> h # NoGroup /\ id \in h.temp
          /\ -Session[v] \in new <=> h # NoGroup /\ -Session[v] \in h.temp
      <3>1. TempOf(c, g) = IF h = NoGroup THEN {} ELSE h.temp
        BY DEF TempOf
      <3>2. /\ id \in new <=> id \in TempOf(c, g)
            /\ -Session[v] \in new <=> -Session[v] \in TempOf(c, g)
        BY <1>2
      <3> HIDE DEF new, h
      <3> QED BY <3>1, <3>2
    <2>3. groups[g] = IF h = NoGroup /\ g \notin names THEN NoGroup ELSE WithTemp(h, new)
      OBVIOUS
    <2>4. h \in Groups \cup {NoGroup}
      BY <1>0
    <2> HIDE DEF new, h, id
    <2>5. GroupAlike(h, WithTemp(h, new), v, id) /\ WithTemp(h, new) \in Groups
      BY <2>1, <2>2, <2>4, WithTempAlike, WithTempType
    <2>6. GroupAlike(NoGroup, NoGroup, v, id)
      BY DEF GroupAlike
    <2> HIDE DEF groups
    <2>7. GroupAlike(h, groups[g], v, id) /\ groups[g] \in Groups \cup {NoGroup}
      BY <2>3, <2>5, <2>6
    <2> QED BY <2>1, <2>7 DEF h, new
  <1> HIDE DEF temp
  <1>4. groups \in [GroupNames -> Groups \cup {NoGroup}]
    <2>1. groups = [g \in GroupNames |-> groups[g]]
      OBVIOUS
    <2> HIDE DEF groups
    <2> QED BY <1>3, <2>1
  <1> HIDE DEF groups
  <1>5. /\ acl'[c].groups = groups
        /\ \A d \in Channels : acl'[d].inherit = acl[d].inherit /\ acl'[d].list = acl[d].list
                               /\ (d # c => acl'[d].groups = acl[d].groups)
    BY <1>0, <1>1, <1>4, GroupsSet
  <1> HIDE DEF id
  <1>6. GroupsAlike(acl, acl', v, id)
    <2>1. \A k : GroupAlike(k, k, v, id)
      BY DEF GroupAlike
    <2> QED BY <1>3, <1>5, <2>1 DEF GroupsAlike
  <1>7. Grants(cParent, acl, v, id, cChannel[v]) = Grants(cParent, acl', v, id, cChannel[v])
    <2>1. acl' \in [Channels -> ACLs] /\ Tree(cParent) /\ acl \in [Channels -> ACLs]
      BY <1>0, <1>1
    <2>2. \A d \in Channels : acl[d].inherit = acl'[d].inherit /\ acl[d].list = acl'[d].list
      BY <1>5
    <2> QED BY ONLY <1>6, <2>1, <2>2, GrantsByGroups
  <1>8. cParent' = cParent /\ cChannel' = cChannel /\ iId' = iId
    BY DEF setTempGroups
  <1> QED BY <1>7, <1>8, GrantedSame DEF Granted, id

\* An entry about a number is about nobody else.
LEMMA SingleMatches ==
  ASSUME NEW e \in Entries, e.who.group = "none", ~e.who.invert,
         NEW A, NEW line, NEW ch, NEW u, NEW id, NEW at, e.who.userId # id
  PROVE  ~Matches(A, line, ch, e, u, id, at)
  <1>1. "none" \notin Users
    BY ACLAssumption
  <1>2. e.who.invert = FALSE
    BY DEF Entries, Whos
  <1>3. isMember(A, line, ch, e.who, u, id, at) = FALSE
    BY <1>1, <1>2 DEF isMember
  <1> QED BY <1>3 DEF Matches

LEMMA unregisterUserOthers ==
  ASSUME TypeInv, NEW gone \in Registered, unregisterUser(gone), OnlyNames(gone),
         NEW v \in Users, iId[v] # gone
  PROVE  Granted(v)' = Granted(v)
  <1> DEFINE id == iId[v]
             at == cChannel[v]
             B == [c \in Channels |-> Forgot(acl[c], gone)]
  <1>1. /\ Tree(cParent) /\ acl \in [Channels -> ACLs] /\ gone # None /\ id # gone
    BY ACLAssumption DEF TypeInv, TypeOK, None
  <1>2. B \in [Channels -> ACLs] /\ \A c \in Channels : B[c] = Forgot(acl[c], gone)
    BY <1>1, ForgotAll
  <1>3. \A c \in Channels :
          /\ B[c].inherit = acl[c].inherit /\ B[c].list = Without(acl[c].list, gone)
          /\ B[c].groups = [g \in GroupNames |-> IF acl[c].groups[g] = NoGroup THEN NoGroup
                ELSE [acl[c].groups[g] EXCEPT !.add = @ \ {gone}, !.remove = @ \ {gone}]]
    <2>1. ASSUME NEW c \in Channels
          PROVE  /\ B[c].inherit = acl[c].inherit /\ B[c].list = Without(acl[c].list, gone)
                 /\ B[c].groups = [g \in GroupNames |-> IF acl[c].groups[g] = NoGroup THEN NoGroup
                       ELSE [acl[c].groups[g] EXCEPT !.add = @ \ {gone}, !.remove = @ \ {gone}]]
      <3> DEFINE a == acl[c]
      <3>1. a \in ACLs /\ B[c] = Forgot(a, gone)
        BY <1>1, <1>2
      <3> HIDE DEF a, B
      <3>2. /\ Forgot(a, gone).inherit = a.inherit /\ Forgot(a, gone).list = Without(a.list, gone)
            /\ Forgot(a, gone).groups = [g \in GroupNames |-> IF a.groups[g] = NoGroup THEN NoGroup
                       ELSE [a.groups[g] EXCEPT !.add = @ \ {gone}, !.remove = @ \ {gone}]]
        BY <3>1, ForgotType
      <3>3. /\ B[c].inherit = a.inherit /\ B[c].list = Without(a.list, gone)
            /\ B[c].groups = [g \in GroupNames |-> IF a.groups[g] = NoGroup THEN NoGroup
                       ELSE [a.groups[g] EXCEPT !.add = @ \ {gone}, !.remove = @ \ {gone}]]
        BY <3>1, <3>2, Zenon
      <3> QED BY <3>3 DEF a
    <2> HIDE DEF B
    <2> QED BY <2>1, Zenon
  <1> HIDE DEF B
  <1>4. GroupsAlike(acl, B, v, id)
    <2>1. ASSUME NEW c \in Channels, NEW g \in GroupNames
          PROVE  GroupAlike(acl[c].groups[g], B[c].groups[g], v, id)
      <3> DEFINE h == acl[c].groups[g]
                 k == [h EXCEPT !.add = @ \ {gone}, !.remove = @ \ {gone}]
      <3>1. h \in Groups \cup {NoGroup}
        BY <1>1 DEF ACLs
      <3>2. B[c].groups[g] = IF h = NoGroup THEN NoGroup ELSE k
        BY <1>3
      <3>3. CASE h = NoGroup
        BY <3>2, <3>3 DEF GroupAlike
      <3>4. CASE h # NoGroup
        <4>1. h \in Groups
          BY <3>1, <3>4
        <4> HIDE DEF h
        <4>2. /\ k \in Groups /\ k.inherit = h.inherit /\ k.inheritable = h.inheritable
              /\ k.add = h.add \ {gone} /\ k.remove = h.remove \ {gone} /\ k.temp = h.temp
          BY <4>1 DEF Groups
        <4>3. k # NoGroup
          BY <4>2, ACLAssumption
        <4> HIDE DEF k
        <4>4. GroupAlike(h, k, v, id)
          BY <1>1, <3>4, <4>2, <4>3 DEF GroupAlike, Has
        <4> QED BY <3>2, <3>4, <4>4 DEF h
      <3> QED BY <3>3, <3>4
    <2> QED BY <2>1 DEF GroupsAlike
  <1> HIDE DEF id, at
  <1>5. ASSUME NEW line \in Seq(Channels), NEW n \in DOMAIN line, NEW above \in States
        PROVE  Heed(acl, line, line[n], acl[line[n]].list, above, v, id, at)
                 = Heed(B, line, line[n], B[line[n]].list, above, v, id, at)
    <2> DEFINE c == line[n]
               list == acl[c].list
               less == Without(list, gone)
    <2>1. c \in Channels
      OBVIOUS
    <2> HIDE DEF c
    <2>2. /\ list \in Seq(Entries) /\ B[c].list = less
          /\ \A k \in DOMAIN list :
               list[k].who.userId = gone => list[k].who.group = "none" /\ ~list[k].who.invert
      <3>1. \A a \in ACLs : a.list \in Seq(Entries)
        BY DEF ACLs
      <3> QED BY <1>1, <1>3, <2>1, <3>1 DEF OnlyNames
    <2> HIDE DEF list
    <2>3. less \in Seq(Entries)
      BY <2>2, WithoutType
    <2> HIDE DEF less
    <2>4. \A k \in 1 .. Len(less) : less[k] \in Entries
      BY <2>3
    <2>5. \A k \in 1 .. Len(less) : Matches(acl, line, c, less[k], v, id, at)
                                      <=> Matches(B, line, c, less[k], v, id, at)
      BY <1>4, <2>4, MatchesAlike DEF c
    <2>6. Heed(acl, line, c, less, above, v, id, at) = Heed(B, line, c, less, above, v, id, at)
      BY <2>3, <2>5, HeedAlike
    <2>7. ASSUME NEW k \in 1 .. Len(list), list[k].who.userId = gone
          PROVE  ~Matches(acl, line, c, list[k], v, id, at)
      <3> DEFINE e == list[k]
      <3>1. e \in Entries /\ e.who.group = "none" /\ ~e.who.invert /\ e.who.userId # id
        BY <1>1, <2>2, <2>7
      <3> HIDE DEF e
      <3>2. ~Matches(acl, line, c, e, v, id, at)
        BY <3>1, SingleMatches
      <3> QED BY <3>2 DEF e
    <2>8. Heed(acl, line, c, less, above, v, id, at) = Heed(acl, line, c, list, above, v, id, at)
      BY <2>2, <2>7, HeedWithout DEF less
    <2> QED BY <2>2, <2>6, <2>8 DEF c, list
  <1>6. \A c \in Channels : acl[c].inherit = B[c].inherit
    BY <1>3
  <1>7. Grants(cParent, acl, v, id, at) = Grants(cParent, B, v, id, at)
    BY <1>1, <1>2, <1>5, <1>6, GrantsAlike
  <1>8. acl' = B /\ cParent' = cParent /\ cChannel' = cChannel
    BY DEF unregisterUser, B
  <1>9. iId'[v] = iId[v]
    BY unregisterUserTypes
  <1> QED BY <1>7, <1>8, <1>9 DEF Granted, id, at

FreshInv == TypeInv /\ \A u \in Online \ unflushed : Right(u)

LEMMA FreshInit == Init => FreshInv
  <1> SUFFICES ASSUME Init PROVE FreshInv
    OBVIOUS
  <1>1. Online = {}
    BY DEF Init, Online
  <1> QED BY <1>1, TypeInit DEF FreshInv

\* All actions, one after the other: those who are flushed are right, and for
\* the others nothing changes.
LEMMA FreshStep == FreshInv /\ [Next]_vars => FreshInv'
  <1> SUFFICES ASSUME FreshInv, [Next]_vars PROVE FreshInv'
    OBVIOUS
  <1>0. TypeInv /\ \A v \in Online \ unflushed : Right(v)
    BY DEF FreshInv
  <1>1. TypeInv'
    BY <1>0, TypeStep
  <1> DEFINE Good == \A v \in Users : cChannel'[v] # None /\ v \notin unflushed' => Right(v)'
             Keep(v) == acCache'[v] = acCache[v] /\ sent'[v] = sent[v] /\ Granted(v)' = Granted(v)
  <1>2. \A v \in Users : cChannel[v] # None /\ v \notin unflushed => Right(v)
    BY <1>0 DEF Online
  <1>3. /\ acl \in [Channels -> ACLs] /\ cChannel \in [Users -> Channels \cup {None}]
        /\ iId \in [Users -> Registered \cup {None}]
        /\ acCache \in [Users -> Rows] /\ sent \in [Users -> Copies]
    BY <1>0 DEF TypeInv, TypeOK
  <1>4. ASSUME NEW v \in Users, Keep(v), cChannel'[v] = cChannel[v], v \notin unflushed
        PROVE  cChannel'[v] # None => Right(v)'
    BY <1>2, <1>4, StaysRight
  <1>5. ASSUME NEW u \in Users, NEW c \in Channels, NEW id \in Registered \cup {None}, Login(u, id, c)
        PROVE  Good
    <2>1. Updated(u)
      BY <1>0, <1>5, LoginUpdates
    <2>2. Right(u)' /\ \A v \in Users : v # u => acCache'[v] = acCache[v] /\ sent'[v] = sent[v]
      BY <1>0, <2>1, UpdatedRight
    <2>3. /\ cParent' = cParent /\ acl' = acl /\ unflushed' = unflushed \ {u}
          /\ \A v \in Users : v # u => cChannel'[v] = cChannel[v] /\ iId'[v] = iId[v]
      BY <1>3, <1>5 DEF Login
    <2>4. \A v \in Users : v # u => Granted(v)' = Granted(v)
      BY <2>3, SameGrants
    <2> QED BY <1>4, <2>2, <2>3, <2>4
  <1>6. ASSUME NEW u \in Users, NEW c \in Channels, userEnterChannel(u, c)
        PROVE  Good
    <2>1. Updated(u)
      BY <1>0, <1>6, EnterUpdates
    <2>2. Right(u)' /\ \A v \in Users : v # u => acCache'[v] = acCache[v] /\ sent'[v] = sent[v]
      BY <1>0, <2>1, UpdatedRight
    <2>3. /\ cParent' = cParent /\ acl' = acl /\ unflushed' = unflushed \ {u} /\ iId' = iId
          /\ \A v \in Users : v # u => cChannel'[v] = cChannel[v]
      BY <1>3, <1>6 DEF userEnterChannel
    <2>4. \A v \in Users : v # u => Granted(v)' = Granted(v)
      BY <2>3, SameGrants
    <2> QED BY <1>4, <2>2, <2>3, <2>4
  <1>7. ASSUME NEW u \in Users, NEW c \in Channels,
               hasPermission(u, c) \/ sendClientPermission(u, c)
        PROVE  Good
    <2>1. PICK row \in Rows, copy \in Copies :
            /\ acCache' = [acCache EXCEPT ![u] = row] /\ sent' = [sent EXCEPT ![u] = copy]
            /\ RowRight(acCache[u], Granted(u)) /\ CopyRight(sent[u], Granted(u))
                 => RowRight(row, Granted(u)) /\ CopyRight(copy, Granted(u))
      BY <1>0, <1>7, AskedRight
    <2>2. UNCHANGED <<cParent, acl, cChannel, iId, unflushed>>
      BY <1>7 DEF hasPermission, sendClientPermission
    <2>3. /\ acCache'[u] = row /\ sent'[u] = copy
          /\ \A v \in Users : v # u => acCache'[v] = acCache[v] /\ sent'[v] = sent[v]
      BY <1>3, <2>1
    <2>4. \A v \in Users : Granted(v)' = Granted(v)
      BY <2>2, SameGrants
    <2>5. Right(u) => Right(u)'
      BY <2>1, <2>3, <2>4 DEF Right
    <2> QED BY <1>2, <1>4, <2>2, <2>3, <2>4, <2>5
  <1>8. ASSUME AllUpdated, cChannel' = cChannel PROVE Good
    BY <1>8 DEF AllUpdated, Online, Right
  <1>9. ASSUME NEW u \in Users, NEW c \in Channels, NEW s \in Settings[c], msgACL(u, c, s)
        PROVE  Good
    <2>1. AllUpdated
      BY <1>0, <1>9, msgACLUpdates
    <2>2. cChannel' = cChannel
      BY <1>9 DEF msgACL
    <2> HIDE DEF Good
    <2> QED BY <1>8, <2>1, <2>2
  <1>10. ASSUME NEW c \in Channels, NEW s \in Settings[c], setACL(c, s) PROVE Good
    <2>1. AllUpdated
      BY <1>0, <1>10, setACLUpdates
    <2>2. cChannel' = cChannel
      BY <1>10 DEF setACL
    <2> HIDE DEF Good
    <2> QED BY <1>8, <2>1, <2>2
  <1>11. ASSUME NEW u \in Users, NEW c \in Channels, NEW g \in GroupNames, TempGroup(u, c, g)
         PROVE  Good
    <2>1. Updated(u)
      BY <1>0, <1>11, TempGroupIs
    <2>2. Right(u)' /\ \A v \in Users : v # u => acCache'[v] = acCache[v] /\ sent'[v] = sent[v]
      BY <1>0, <2>1, UpdatedRight
    <2>3. /\ cChannel' = cChannel /\ u \in Users
          /\ unflushed' = (unflushed \cup Concerning(TempKey(u))) \ {u}
      BY <1>11 DEF TempGroup
    <2>4. \A v \in Users : ~Concerned(v, TempKey(u)) => Granted(v)' = Granted(v)
      BY <1>0, <1>11, TempGroupOthers
    <2>5. \A v \in Users : cChannel'[v] # None /\ v \notin unflushed' /\ v # u
                              => ~Concerned(v, TempKey(u)) /\ v \notin unflushed
      BY <2>3 DEF Concerning, Online
    <2> QED BY <1>4, <2>2, <2>3, <2>4, <2>5
  <1>12. ASSUME NEW id \in TempIds, NEW c \in Channels, NEW groups \in SUBSET GroupNames,
                setTempGroups(id, c, groups)
         PROVE  Good
    <2>1. cChannel' = cChannel
      BY <1>12 DEF setTempGroups
    <2>2. \A v \in Users : ~Concerned(v, id) => Granted(v)' = Granted(v)
      BY <1>0, <1>12, setTempGroupsOthers
    <2>3. \/ /\ acCache' = acCache /\ sent' = sent
             /\ unflushed' = unflushed \cup Concerning(id)
          \/ \E u \in Online : /\ Updated(u)
                               /\ unflushed' = (unflushed \cup Concerning(id)) \ {u}
      BY <1>0, <1>12, setTempGroupsIs
    <2>4. \A v \in Users : cChannel[v] # None /\ v \notin Concerning(id) => ~Concerned(v, id)
      BY DEF Concerning, Online
    <2>5. ASSUME acCache' = acCache, sent' = sent, unflushed' = unflushed \cup Concerning(id)
          PROVE  Good
      BY <1>4, <2>1, <2>2, <2>4, <2>5
    <2>6. ASSUME NEW u \in Online, Updated(u),
                 unflushed' = (unflushed \cup Concerning(id)) \ {u}
          PROVE  Good
      <3>1. u \in Users
        BY DEF Online
      <3>2. Right(u)' /\ \A v \in Users : v # u => acCache'[v] = acCache[v] /\ sent'[v] = sent[v]
        BY <1>0, <2>6, <3>1, UpdatedRight
      <3> QED BY <1>4, <2>1, <2>2, <2>4, <2>6, <3>1, <3>2
    <2> HIDE DEF Good
    <2> QED BY <2>3, <2>5, <2>6
  <1>13. ASSUME NEW u \in Users, connectionClosed(u) PROVE Good
    <2>1. /\ cParent' = cParent /\ acl' = acl /\ cChannel'[u] = None
          /\ u \in Users /\ unflushed' = unflushed \cup {u}
          /\ \A v \in Users : v # u => cChannel'[v] = cChannel[v] /\ iId'[v] = iId[v]
      BY <1>3, <1>13 DEF connectionClosed
    <2>2. PICK row \in Rows : /\ acCache' = [acCache EXCEPT ![u] = row]
                              /\ sent' = [sent EXCEPT ![u] = Nothing]
      BY <1>0, <1>13, ClosedTypes
    <2>3. \A v \in Users : v # u => acCache'[v] = acCache[v] /\ sent'[v] = sent[v]
      BY <1>3, <2>2
    <2>4. \A v \in Users : v # u => Granted(v)' = Granted(v)
      BY <2>1, SameGrants
    <2> QED BY <1>4, <2>1, <2>3, <2>4
  <1>14. ASSUME NEW u \in Users, NEW id \in Registered, Register(u, id) PROVE Good
    <2>1. /\ UNCHANGED <<cParent, acl, cChannel, acCache, sent>> /\ unflushed' = unflushed \cup {u}
          /\ \A v \in Users : v # u => iId'[v] = iId[v]
      BY <1>3, <1>14 DEF Register
    <2>2. \A v \in Users : v # u => Granted(v)' = Granted(v)
      BY <2>1, SameGrants
    <2> QED BY <1>4, <2>1, <2>2
  <1>15. ASSUME NEW id \in Registered, unregisterUser(id) PROVE Good
    <2>1. /\ cChannel' = cChannel
          /\ unflushed' = unflushed \cup (IF OnlyNames(id) THEN {u \in Online : iId[u] = id}
                                         ELSE Online)
      BY <1>15 DEF unregisterUser
    <2>2. \A v \in Online : iId[v] # id => acCache'[v] = acCache[v] /\ sent'[v] = sent[v]
      BY <1>0, <1>15, unregisterUserTypes
    <2>3. OnlyNames(id) => \A v \in Users : iId[v] # id => Granted(v)' = Granted(v)
      BY <1>0, <1>15, unregisterUserOthers
    <2> QED BY <1>4, <2>1, <2>2, <2>3 DEF Online
  <1>16. ASSUME NEW c \in Channels, NEW p \in Channels, MoveChannel(c, p) PROVE Good
    BY <1>16 DEF MoveChannel
  <1>17. ASSUME UNCHANGED vars PROVE Good
    <2>1. /\ cParent' = cParent /\ acl' = acl /\ cChannel' = cChannel /\ iId' = iId
          /\ acCache' = acCache /\ sent' = sent /\ unflushed' = unflushed
      BY <1>17 DEF vars
    <2>2. \A v \in Users : Granted(v)' = Granted(v)
      BY <2>1, SameGrants
    <2> QED BY <1>4, <2>1, <2>2
  <1>18. Good
    <2> HIDE DEF Good
    <2>1. CASE Next
      BY <1>5, <1>6, <1>7, <1>9, <1>10, <1>11, <1>12, <1>13, <1>14, <1>15, <1>16, <2>1 DEF Next
    <2> QED BY <1>17, <2>1
  <1>19. (\A v \in Online \ unflushed : Right(v))'
    BY <1>18 DEF Online
  <1> QED BY <1>1, <1>19 DEF FreshInv

\* The cache of permissions is never stale, for anybody whom no change concerned
\* that flushes nothing: not after any edit of ACLs or groups, temporary
\* membership of another number or session, removal of a registration, login or
\* move of whomever, in whatever order (clearACLCache and the handlers that call
\* it, or do not).
THEOREM CacheStaysFresh == Spec => []CacheFresh
  <1>1. FreshInv => CacheFresh
    BY DEF FreshInv, Right, RowRight, CacheFresh
  <1>2. Init => FreshInv
    BY FreshInit
  <1>3. FreshInv /\ [Next]_vars => FreshInv'
    BY FreshStep
  <1> QED BY <1>1, <1>2, <1>3, PTL DEF Spec

\* And no such user's client goes by permissions it has no more, or has not
\* been told it has (flushClientPermissionCache and sendClientPermission).
THEOREM ClientsToldRight == Spec => []ToldRight
  <1>1. FreshInv => ToldRight
    BY DEF FreshInv, Right, CopyRight, ToldRight
  <1>2. Init => FreshInv
    BY FreshInit
  <1>3. FreshInv /\ [Next]_vars => FreshInv'
    BY FreshStep
  <1> QED BY <1>1, <1>2, <1>3, PTL DEF Spec

-----------------------------------------------------------------------------
(* Nobody edits away his own right to edit                                   *)

\* The entry that msgACL adds for u is about u.
LEMMA OwnEntryMatches ==
  ASSUME TypeInv, NEW u \in Users, iId[u] >= 0 \/ u \in Hashed, NEW A, NEW line, NEW ch, NEW at
  PROVE  Matches(A, line, ch, OwnEntry(u), u, iId[u], at)
  <1> DEFINE e == OwnEntry(u)
  <1>1. /\ e.who.userId = iId[u] /\ e.who.group = IF iId[u] = None THEN u ELSE "none"
        /\ e.who.invert = FALSE
    BY DEF OwnEntry
  <1>2. CASE iId[u] # None
    BY <1>1, <1>2 DEF Matches
  <1>3. CASE iId[u] = None
    <2>1. u \in Hashed /\ e.who.group = u /\ u \notin {"none", "all", "auth", "in", "out"}
      BY <1>1, <1>3, ACLAssumption DEF None
    <2> HIDE DEF e
    <2>2. isMember(A, line, ch, e.who, u, iId[u], at) = TRUE
      BY <1>1, <2>1 DEF isMember
    <2> QED BY <2>2 DEF Matches, e
  <1> QED BY <1>2, <1>3

\* It is the last of the channel's, and so grants Write, if u gets there.
LEMMA OwnEntryGrants ==
  ASSUME TypeInv, NEW u \in Users, iId[u] >= 0 \/ u \in Hashed, NEW c \in Channels,
         NEW A \in [Channels -> ACLs], NEW list \in Seq(Entries),
         A[c].list = Append(list, OwnEntry(u))
  PROVE  LET set == Grants(cParent, A, u, iId[u], cChannel[u])[c]
         IN  "Write" \in set \/ (c # Root /\ set = {})
  <1> DEFINE line == Line(cParent, c)
             N == Len(line)
             id == iId[u]
             at == cChannel[u]
             e == OwnEntry(u)
             set == Grants(cParent, A, u, iId[u], cChannel[u])[c]
  <1>1. /\ Tree(cParent) /\ line \in Seq(Channels) /\ N \in Nat \ {0} /\ Last(line) = c
        /\ e \in Entries
    BY LineShape, OwnEntryType DEF TypeInv, TypeOK
  <1>2. c = Root => N = 1
    <2>1. c = Root => line = <<Root>>
      BY <1>1, LineIs
    <2> QED BY <2>1
  <1>3. line[N] = c /\ N \in 1 .. N /\ N - 1 \in 0 .. N
    BY <1>1 DEF Last
  <1>4. set = Walk(A, line, u, id, at)
    BY Zenon DEF Grants
  <1>5. \A ch : Matches(A, line, ch, e, u, id, at)
    BY OwnEntryMatches
  <1> HIDE DEF line, id, at, set
  <1>6. PICK f : Walks(f, A, line, u, id, at)
    BY <1>1, WalkIs
  <1> HIDE DEF N
  <1>7. /\ f[0] = First /\ f[N - 1] \in States
        /\ f[N] = IF f[N - 1].path = {} THEN f[N - 1]
                  ELSE Heed(A, line, c, A[c].list, Above(A[c], f[N - 1]), u, id, at)
        /\ Walk(A, line, u, id, at) = IF f[N].path = {} THEN {} ELSE f[N].granted
    BY <1>3, <1>6 DEF Walks, N
  <1>8. ASSUME f[N - 1].path = {} PROVE set = {} /\ c # Root
    <2>1. Walk(A, line, u, id, at) = {}
      BY <1>7, <1>8
    <2>2. c # Root
      <3>1. c = Root => f[N - 1] = First
        BY <1>2, <1>7
      <3>2. "Traverse" \in First.path
        BY DEF First
      <3> QED BY <1>8, <3>1, <3>2
    <2> QED BY <1>4, <2>1, <2>2
  <1>9. ASSUME f[N - 1].path # {} PROVE "Write" \in set
    <2> DEFINE above == Above(A[c], f[N - 1])
               before == Heed(A, line, c, list, above, u, id, at)
    <2>1. above \in States
      BY <1>7, AboveType
    <2> HIDE DEF above
    <2>2. before \in States
      BY <2>1, HeedType
    <2> HIDE DEF e
    <2>3. Heed(A, line, c, Append(list, e), above, u, id, at) = Apply(before, e, c, Last(line))
      BY <1>1, <1>5, <2>1, HeedAppend
    <2>4. f[N] = Apply(before, e, c, c)
      BY <1>1, <1>7, <1>9, <2>3 DEF e, above
    <2>5. e.here /\ e.allow = {"Write", "Traverse"} /\ e.deny = {}
      BY DEF e, OwnEntry
    <2> HIDE DEF before
    <2>6. "Write" \in Apply(before, e, c, c).granted /\ "Write" \in Apply(before, e, c, c).path
      BY <2>2, <2>5 DEF Apply, States, Heard
    <2>7. "Write" \in Walk(A, line, u, id, at)
      BY <1>7, <2>4, <2>6
    <2> QED BY <1>4, <2>7
  <1> QED BY <1>8, <1>9 DEF set

LEMMA EditKeeps ==
  ASSUME TypeInv, NEW u \in Users, NEW c \in Channels, NEW s \in Settings[c], Edit(u, c, s),
         iId[u] >= 0 \/ u \in Hashed,
         cParent' = cParent, cChannel' = cChannel, iId'[u] = iId[u]
  PROVE  LET granted == Grants(cParent', acl', u, iId'[u], cChannel'[u])
         IN  \/ Allowed(iId'[u], NoRow, granted, c, "Write")
             \/ c # Root /\ granted[c] = {}
  <1> DEFINE asked == Replaced(c, s)
             now == Grants(cParent, acl', u, iId[u], cChannel[u])
  <1>1. asked \in [Channels -> ACLs] /\ acl' \in [Channels -> ACLs] /\ OwnEntry(u) \in Entries
    BY SettingsType, EditType, OwnEntryType DEF TypeInv, TypeOK
  <1>2. Grants(cParent', acl', u, iId'[u], cChannel'[u]) = now
    OBVIOUS
  <1> SUFFICES Allowed(iId[u], NoRow, now, c, "Write") \/ (c # Root /\ now[c] = {})
    BY <1>2
  <1> HIDE DEF now
  <1>3. CASE ~GivenBack(u, c, asked)
    <2>1. acl' = asked
      BY <1>3 DEF Edit
    <2>2. MayWrite(u, c, acl')
      BY <1>3, <2>1 DEF GivenBack
    <2> QED BY <2>2 DEF MayWrite, now
  <1>4. CASE GivenBack(u, c, asked)
    <2> DEFINE list == asked[c].list
    <2>1. acl' = [asked EXCEPT ![c].list = Append(list, OwnEntry(u))]
      BY <1>4 DEF Edit
    <2> HIDE DEF asked
    <2>2. list \in Seq(Entries)
      <3>1. \A a \in ACLs : a.list \in Seq(Entries)
        BY DEF ACLs
      <3> QED BY <1>1, <3>1
    <2>3. acl'[c].list = Append(list, OwnEntry(u))
      BY <1>1, <2>1, AppendedIs
    <2> HIDE DEF list
    <2>4. "Write" \in now[c] \/ (c # Root /\ now[c] = {})
      BY <1>1, <2>2, <2>3, OwnEntryGrants DEF now
    <2>5. "Write" \in now[c] => Allowed(iId[u], NoRow, now, c, "Write")
      BY DEF Allowed, NoRow
    <2> QED BY <2>4, <2>5
  <1> QED BY <1>3, <1>4

LEMMA KeepsStep ==
  TypeInv /\ [Next]_vars =>
    [\A u \in Users, c \in Channels : Edits(u, c) =>
       LET granted == Grants(cParent', acl', u, iId'[u], cChannel'[u])
       IN  \/ Allowed(iId'[u], NoRow, granted, c, "Write")
           \/ c # Root /\ granted[c] = {}]_vars
  <1> DEFINE now(u) == Grants(cParent', acl', u, iId'[u], cChannel'[u])
  <1> SUFFICES ASSUME TypeInv, Next, NEW u \in Users, NEW c \in Channels, Edits(u, c)
               PROVE  \/ Allowed(iId'[u], NoRow, now(u), c, "Write")
                      \/ c # Root /\ now(u)[c] = {}
    OBVIOUS
  <1>1. acl' # acl /\ iId'[u] = iId[u] /\ (iId[u] >= 0 \/ u \in Hashed)
    BY DEF Edits
  <1>2. PICK s \in Settings[c] : Edit(u, c, s)
    BY DEF Edits
  <1>3. cParent' = cParent /\ cChannel' = cChannel
    <2>1. \A v \in Users, d \in Channels :
            /\ \A id \in Registered \cup {None} : ~Login(v, id, d)
            /\ ~userEnterChannel(v, d) /\ ~hasPermission(v, d) /\ ~sendClientPermission(v, d)
      BY <1>1 DEF Login, userEnterChannel, hasPermission, sendClientPermission
    <2>2. \A v \in Users : ~connectionClosed(v) /\ \A id \in Registered : ~Register(v, id)
      BY <1>1 DEF connectionClosed, Register
    <2>3. \A d, p \in Channels : ~MoveChannel(d, p)
      BY <1>1 DEF MoveChannel
    <2>4. /\ \A v \in Users, d \in Channels :
               /\ \A t \in Settings[d] : msgACL(v, d, t) => cParent' = cParent /\ cChannel' = cChannel
               /\ \A g \in GroupNames : TempGroup(v, d, g) => cParent' = cParent /\ cChannel' = cChannel
          /\ \A d \in Channels : \A t \in Settings[d] :
               setACL(d, t) => cParent' = cParent /\ cChannel' = cChannel
          /\ \A id \in TempIds, d \in Channels, groups \in SUBSET GroupNames :
               setTempGroups(id, d, groups) => cParent' = cParent /\ cChannel' = cChannel
          /\ \A id \in Registered : unregisterUser(id) => cParent' = cParent /\ cChannel' = cChannel
      BY DEF msgACL, TempGroup, setACL, setTempGroups, unregisterUser
    <2> QED BY <2>1, <2>2, <2>3, <2>4 DEF Next
  <1> QED BY <1>1, <1>2, <1>3, EditKeeps

\* Who edits the ACL of a channel may edit it still, or does not get there any
\* more: the entry that msgACL adds is the last word, and needs no other.
THEOREM EditorsKeepWrite == Spec => KeepsWrite
  BY TypeInit, TypeStep, KeepsStep, PTL DEF Spec, KeepsWrite

-----------------------------------------------------------------------------
(* What is granted is what the last entries say                              *)

\* The list of the i-th channel of a line, and the number of entries in it.
ListAt(line, i) == acl[line[i]].list

LEMMA ListAtType ==
  ASSUME acl \in [Channels -> ACLs], NEW line \in Seq(Channels), NEW i \in DOMAIN line
  PROVE  /\ i \in Nat /\ ListAt(line, i) \in Seq(Entries)
         /\ \A k \in DOMAIN ListAt(line, i) : k \in Nat /\ ListAt(line, i)[k] \in Entries
  <1>1. ListAt(line, i) \in Seq(Entries)
    <2>1. \A a \in ACLs : a.list \in Seq(Entries)
      BY DEF ACLs
    <2>2. line[i] \in Channels
      OBVIOUS
    <2> QED BY <2>1, <2>2 DEF ListAt
  <1> QED BY <1>1

\* Which entries are about u.
LEMMA AboutIs ==
  ASSUME acl \in [Channels -> ACLs], NEW line \in Seq(Channels), NEW u
  PROVE  /\ \A x \in About(u, line) :
              /\ x = <<x[1], x[2]>> /\ x[1] \in DOMAIN line /\ x[1] \in Nat
              /\ x[2] \in DOMAIN ListAt(line, x[1]) /\ x[2] \in Nat
         /\ \A i \in DOMAIN line : \A k \in DOMAIN ListAt(line, i) :
              <<i, k>> \in About(u, line)
                <=> Matches(acl, line, line[i], ListAt(line, i)[k], u, iId[u], cChannel[u])
  <1> DEFINE all == UNION {{i} \X DOMAIN acl[line[i]].list : i \in DOMAIN line}
  <1>1. \A x : x \in all <=> \E i \in DOMAIN line : x \in {i} \X DOMAIN ListAt(line, i)
    BY DEF ListAt
  <1>2. \A x : x \in About(u, line) <=>
          x \in all /\ Matches(acl, line, line[x[1]], At(line, x), u, iId[u], cChannel[u])
    BY DEF About
  <1> HIDE DEF all
  <1>3. ASSUME NEW x \in About(u, line)
        PROVE  /\ x = <<x[1], x[2]>> /\ x[1] \in DOMAIN line /\ x[1] \in Nat
               /\ x[2] \in DOMAIN ListAt(line, x[1]) /\ x[2] \in Nat
    <2>1. PICK i \in DOMAIN line : x \in {i} \X DOMAIN ListAt(line, i)
      BY <1>1, <1>2
    <2>2. x = <<x[1], x[2]>> /\ x[1] = i /\ x[2] \in DOMAIN ListAt(line, i)
      BY <2>1
    <2> QED BY <2>2, ListAtType
  <1>4. ASSUME NEW i \in DOMAIN line, NEW k \in DOMAIN ListAt(line, i)
        PROVE  <<i, k>> \in About(u, line)
                <=> Matches(acl, line, line[i], ListAt(line, i)[k], u, iId[u], cChannel[u])
    <2>1. <<i, k>> \in {i} \X DOMAIN ListAt(line, i)
      OBVIOUS
    <2>2. <<i, k>> \in all
      BY <1>1, <2>1
    <2>3. At(line, <<i, k>>) = ListAt(line, i)[k]
      BY DEF At, ListAt
    <2> QED BY <1>2, <2>2, <2>3
  <1> QED BY <1>3, <1>4

\* Entries on the way, as pairs of numbers.
Pairs == Nat \X Nat

\* A further entry has the last word.
LEMMA LastAdded ==
  ASSUME NEW E \in SUBSET Pairs, NEW y \in Pairs, \A x \in E : Before(x, y),
         NEW line, NEW perm, NEW default
  PROVE  LastWord(perm, E \cup {y}, line, perm \in default) <=>
           IF perm \in At(line, y).allow \cup At(line, y).deny THEN perm \notin At(line, y).deny
           ELSE LastWord(perm, E, line, perm \in default)
  <1> DEFINE says(x) == perm \in At(line, x).allow \cup At(line, x).deny
             denies(x) == perm \in At(line, x).deny
             old == {x \in E : says(x)}
             new == {x \in E \cup {y} : says(x)}
  <1>1. /\ LastWord(perm, E, line, perm \in default) <=>
             IF old = {} THEN perm \in default
             ELSE \E x \in old : ~denies(x) /\ \A z \in old \ {x} : Before(z, x)
        /\ LastWord(perm, E \cup {y}, line, perm \in default) <=>
             IF new = {} THEN perm \in default
             ELSE \E x \in new : ~denies(x) /\ \A z \in new \ {x} : Before(z, x)
    BY DEF LastWord
  <1>2. \A x \in E : x # y /\ ~Before(y, x)
    <2>1. ASSUME NEW x \in E PROVE x # y /\ ~Before(y, x)
      <3>1. x[1] \in Nat /\ x[2] \in Nat /\ y[1] \in Nat /\ y[2] \in Nat
        BY DEF Pairs
      <3> QED BY <3>1 DEF Before
    <2> QED BY <2>1
  <1> HIDE DEF denies
  <1>3. CASE says(y)
    <2>1. new = old \cup {y}
      BY <1>3
    <2>2. old \subseteq E
      OBVIOUS
    <2>3. perm \in At(line, y).allow \cup At(line, y).deny
      BY <1>3
    <2> HIDE DEF new, old
    <2>4. (\E x \in new : ~denies(x) /\ \A z \in new \ {x} : Before(z, x)) <=> ~denies(y)
      BY <1>2, <2>1, <2>2
    <2>5. new # {}
      BY <2>1
    <2> QED BY <1>1, <2>3, <2>4, <2>5 DEF denies
  <1>4. CASE ~says(y)
    <2>1. new = old
      BY <1>4
    <2>2. ~(perm \in At(line, y).allow \cup At(line, y).deny)
      BY <1>4
    <2> HIDE DEF new, old
    <2> QED BY <1>1, <2>1, <2>2
  <1> QED BY <1>3, <1>4

\* The permissions of which the last word of some entries is that they are allowed.
Words(E, line, perms, default) == {perm \in perms : LastWord(perm, E, line, perm \in default)}

LEMMA WordsAdded ==
  ASSUME NEW E \in SUBSET Pairs, NEW y \in Pairs, \A x \in E : Before(x, y),
         NEW line, NEW perms, NEW default
  PROVE  Words(E \cup {y}, line, perms, default)
           = Heard(Words(E, line, perms, default), At(line, y)) \cap perms
  <1> DEFINE more == E \cup {y}
             e == At(line, y)
  <1>1. ASSUME NEW perm \in perms
        PROVE  LastWord(perm, more, line, perm \in default) <=>
                 IF perm \in e.allow \cup e.deny THEN perm \notin e.deny
                 ELSE LastWord(perm, E, line, perm \in default)
    BY LastAdded
  <1> HIDE DEF more, e
  <1>2. Words(more, line, perms, default) = Heard(Words(E, line, perms, default), e) \cap perms
    BY <1>1 DEF Words, Heard
  <1> QED BY <1>2 DEF more, e

\* The state after some entries, by their last words; those that apply to the
\* last channel grant, and all say whether one gets there.
Said(state, E, applying, line) ==
    /\ state.path = Words(E, line, {"Traverse", "Write"}, {"Traverse"})
    /\ state.granted = Words(applying, line, Perms, Default)

Applies(x, line) == IF x[1] = Len(line) THEN At(line, x).here ELSE At(line, x).subs

\* Only the last channel of the line is the channel itself.
EndsOnce(line) == \A i \in DOMAIN line : line[i] = Last(line) <=> i = Len(line)

\* One more entry.
LEMMA ApplySaid ==
  ASSUME acl \in [Channels -> ACLs], NEW line \in Seq(Channels), EndsOnce(line),
         NEW n \in DOMAIN line, NEW k \in DOMAIN ListAt(line, n),
         NEW state \in States, NEW E \in SUBSET Pairs, NEW applying \in SUBSET E,
         \A x \in E : Before(x, <<n, k>>), Said(state, E, applying, line)
  PROVE  Said(Apply(state, ListAt(line, n)[k], line[n], Last(line)),
              E \cup {<<n, k>>},
              IF Applies(<<n, k>>, line) THEN applying \cup {<<n, k>>} ELSE applying, line)
  <1> DEFINE y == <<n, k>>
             e == ListAt(line, n)[k]
             next == Apply(state, e, line[n], Last(line))
  <1>1. e \in Entries /\ y \in Pairs /\ y[1] = n
    BY ListAtType DEF Pairs
  <1>2. At(line, y) = e
    BY DEF At, ListAt
  <1>3. (IF line[n] = Last(line) THEN e.here ELSE e.subs) = Applies(y, line)
    BY <1>1, <1>2 DEF EndsOnce, Applies
  <1>4. /\ next.path = Heard(state.path, e) \cap {"Traverse", "Write"}
        /\ next.granted = IF Applies(y, line) THEN Heard(state.granted, e) ELSE state.granted
    <2> HIDE DEF e, y
    <2> QED BY <1>3 DEF Apply, States
  <1>5. Heard(state.granted, e) \cap Perms = Heard(state.granted, e)
    <2>1. e.allow \in SUBSET Perms
      BY <1>1 DEF Entries
    <2> HIDE DEF e
    <2> QED BY <2>1 DEF Heard, States
  <1> HIDE DEF e, y, next
  <1>6. \A x \in E : Before(x, y)
    BY DEF y
  <1>7. Words(E \cup {y}, line, {"Traverse", "Write"}, {"Traverse"}) = next.path
    <2> DEFINE perms == {"Traverse", "Write"}
               default == {"Traverse"}
    <2>1. state.path = Words(E, line, perms, default)
      BY DEF Said
    <2>2. next.path = Heard(state.path, e) \cap perms
      BY <1>4
    <2> HIDE DEF perms, default
    <2>3. Words(E \cup {y}, line, perms, default) = Heard(Words(E, line, perms, default), e) \cap perms
      BY <1>1, <1>2, <1>6, WordsAdded
    <2> QED BY <2>1, <2>2, <2>3 DEF perms, default
  <1>8. Words(applying \cup {y}, line, Perms, Default) = Heard(state.granted, e)
    <2>1. state.granted = Words(applying, line, Perms, Default)
      BY DEF Said
    <2>2. applying \in SUBSET Pairs /\ \A x \in applying : Before(x, y)
      BY <1>6
    <2>3. Words(applying \cup {y}, line, Perms, Default)
            = Heard(Words(applying, line, Perms, Default), e) \cap Perms
      BY <1>1, <1>2, <2>2, WordsAdded
    <2> QED BY <1>5, <2>1, <2>3
  <1>9. Said(next, E \cup {y}, IF Applies(y, line) THEN applying \cup {y} ELSE applying, line)
    <2>1. CASE Applies(y, line)
      BY <1>4, <1>7, <1>8, <2>1 DEF Said
    <2>2. CASE ~Applies(y, line)
      BY <1>4, <1>7, <2>2 DEF Said
    <2> QED BY <2>1, <2>2
  <1> QED BY <1>9 DEF y, e, next

\* And all entries of one channel.
LEMMA HeedSaid ==
  ASSUME TypeInv, NEW u \in Users, NEW line \in Seq(Channels), EndsOnce(line),
         NEW n \in DOMAIN line, NEW above \in States,
         NEW E, E \subseteq {x \in About(u, line) : x[1] < n}, NEW applying \in SUBSET E,
         Said(above, E, applying, line)
  PROVE  Said(Heed(acl, line, line[n], ListAt(line, n), above, u, iId[u], cChannel[u]),
              E \cup {x \in About(u, line) : x[1] = n},
              applying \cup {x \in About(u, line) : x[1] = n /\ Applies(x, line)}, line)
  <1> DEFINE list == ListAt(line, n)
             len == Len(list)
             all(k) == E \cup {x \in About(u, line) : x[1] = n /\ x[2] <= k}
             some(k) == applying \cup {x \in About(u, line) : x[1] = n /\ x[2] <= k /\ Applies(x, line)}
  <1>1. acl \in [Channels -> ACLs] /\ n \in Nat /\ list \in Seq(Entries) /\ len \in Nat
    BY ListAtType DEF TypeInv, TypeOK
  <1>2. /\ \A x \in About(u, line) :
              /\ x = <<x[1], x[2]>> /\ x[1] \in DOMAIN line /\ x[1] \in Nat
              /\ x[2] \in DOMAIN ListAt(line, x[1]) /\ x[2] \in Nat
        /\ \A k \in DOMAIN list : <<n, k>> \in About(u, line)
              <=> Matches(acl, line, line[n], list[k], u, iId[u], cChannel[u])
    <2>1. acl \in [Channels -> ACLs]
      BY <1>1
    <2> HIDE DEF list
    <2> QED BY <2>1, AboutIs DEF list
  <1>3. PICK f : Heeds(f, acl, line, line[n], list, above, u, iId[u], cChannel[u])
    BY <1>1, HeedIs
  <1> DEFINE S == {k \in 0 .. len : Said(f[k], all(k), some(k), line)}
  <1>4. 0 \in S
    <2>1. \A x \in About(u, line) : x[1] = n => ~(x[2] <= 0)
      <3>1. \A x \in About(u, line) : x[1] = n => x[2] \in 1 .. len
        BY <1>1, <1>2
      <3> QED BY <1>1, <3>1
    <2>2. all(0) = E /\ some(0) = applying
      BY <2>1
    <2>3. f[0] = above
      BY <1>3 DEF Heeds
    <2> HIDE DEF all, some
    <2> QED BY <1>1, <2>2, <2>3
  <1>5. ASSUME NEW k \in 1 .. len, k - 1 \in S PROVE k \in S
    <2> DEFINE y == <<n, k>>
    <2>0. k \in DOMAIN list /\ k \in Nat /\ k - 1 \in 0 .. len /\ k \in 0 .. len
      BY <1>1
    <2>1. f[k - 1] \in States /\ Said(f[k - 1], all(k - 1), some(k - 1), line)
      <3> HIDE DEF all, some, list, len
      <3>1. f[k - 1] \in States
        BY <1>3, <2>0 DEF Heeds, len
      <3> QED BY <1>5, <3>1
    <2>2. f[k] = IF Matches(acl, line, line[n], list[k], u, iId[u], cChannel[u])
                 THEN Apply(f[k - 1], list[k], line[n], Last(line)) ELSE f[k - 1]
      BY <1>3 DEF Heeds
    <2>3. y \in About(u, line) <=> Matches(acl, line, line[n], list[k], u, iId[u], cChannel[u])
      BY <1>2, <2>0
    <2>4. \A x \in About(u, line) : x[1] = n /\ x[2] <= k <=> (x[1] = n /\ x[2] <= k - 1) \/ x = y
      <3> HIDE DEF list
      <3>1. ASSUME NEW x \in About(u, line), x[1] = n, x[2] <= k, ~(x[2] <= k - 1) PROVE x = y
        <4>1. x[2] = k /\ x = <<x[1], x[2]>>
          BY <1>2, <2>0, <3>1
        <4> QED BY <3>1, <4>1
      <3>2. \A x \in About(u, line) : x[1] = n /\ x[2] <= k - 1 => x[2] <= k
        BY <1>2, <2>0
      <3>3. y[1] = n /\ y[2] <= k
        BY <2>0
      <3> QED BY <3>1, <3>2, <3>3
    <2>5. CASE y \in About(u, line)
      <3>1. /\ all(k) = all(k - 1) \cup {y}
            /\ some(k) = IF Applies(y, line) THEN some(k - 1) \cup {y} ELSE some(k - 1)
        <4> HIDE DEF y
        <4> QED BY <2>4, <2>5
      <3>2. all(k - 1) \in SUBSET Pairs /\ \A x \in all(k - 1) : Before(x, y)
        <4>1. ASSUME NEW x \in all(k - 1) PROVE x \in Pairs /\ Before(x, y)
          <5>1. x \in About(u, line) /\ (x[1] < n \/ (x[1] = n /\ x[2] <= k - 1))
            OBVIOUS
          <5> HIDE DEF all
          <5>2. x \in Pairs
            BY <1>2, <5>1 DEF Pairs
          <5>3. y[1] = n /\ y[2] = k
            OBVIOUS
          <5>4. Before(x, y)
            BY <1>1, <1>2, <2>0, <5>1, <5>3 DEF Before
          <5> QED BY <5>2, <5>4
        <4> HIDE DEF all, y
        <4> QED BY <4>1
      <3>3. some(k - 1) \in SUBSET all(k - 1)
        OBVIOUS
      <3> HIDE DEF all, some, list
      <3>4. Said(Apply(f[k - 1], list[k], line[n], Last(line)), all(k - 1) \cup {y},
                 IF Applies(y, line) THEN some(k - 1) \cup {y} ELSE some(k - 1), line)
        BY <1>1, <2>0, <2>1, <3>2, <3>3, ApplySaid DEF list
      <3> QED BY <2>0, <2>2, <2>3, <2>5, <3>1, <3>4
    <2>6. CASE y \notin About(u, line)
      <3>1. all(k) = all(k - 1) /\ some(k) = some(k - 1)
        <4> HIDE DEF y
        <4> QED BY <2>4, <2>6
      <3> HIDE DEF all, some
      <3> QED BY <2>0, <2>1, <2>2, <2>3, <2>6, <3>1
    <2> QED BY <2>5, <2>6
  <1>6. Said(f[len], all(len), some(len), line)
    <2>1. \A k \in 0 .. len : k \in S
      <3> HIDE DEF S, len
      <3> QED BY <1>1, <1>4, <1>5, UpTo
    <2>2. len \in 0 .. len
      BY <1>1
    <2> HIDE DEF all, some, len
    <2> QED BY <2>1, <2>2
  <1>7. /\ all(len) = E \cup {x \in About(u, line) : x[1] = n}
        /\ some(len) = applying \cup {x \in About(u, line) : x[1] = n /\ Applies(x, line)}
    <2>1. \A x \in About(u, line) : x[1] = n => x[2] <= len
      BY <1>1, <1>2
    <2> HIDE DEF len, list
    <2> QED BY <2>1
  <1> HIDE DEF all, some
  <1> QED BY <1>3, <1>6, <1>7 DEF Heeds

LEMMA WordsNone ==
  ASSUME NEW line, NEW perms, NEW default
  PROVE  Words({}, line, perms, default) = perms \cap default
  <1>1. \A perm : LastWord(perm, {}, line, perm \in default) <=> perm \in default
    BY DEF LastWord
  <1> QED BY <1>1 DEF Words

\* The entries about u of the first n channels, and those of them that apply
\* to the last channel as far as the n-th, that inherits.
Up(u, line, n) == {x \in About(u, line) : x[1] <= n}
Applying(u, line, n) ==
    {x \in About(u, line) :
       /\ x[1] <= n /\ Applies(x, line)
       /\ \A i \in DOMAIN line : x[1] < i /\ i <= n => acl[line[i]].inherit}

\* u gets through the n-th channel; through all of the first n.
Goes(u, line, n) == Words(Up(u, line, n), line, {"Traverse", "Write"}, {"Traverse"}) # {}
Reaches(u, line, n) == \A m \in 1 .. n : Goes(u, line, m)

\* From one channel to the next, as far as u gets.
LEMMA WalkSaid ==
  ASSUME TypeInv, NEW u \in Users, NEW line \in Seq(Channels), EndsOnce(line),
         NEW f, Walks(f, acl, line, u, iId[u], cChannel[u])
  PROVE  \A n \in 0 .. Len(line) :
           IF Reaches(u, line, n) THEN Said(f[n], Up(u, line, n), Applying(u, line, n), line)
           ELSE f[n].path = {}
  <1> DEFINE N == Len(line)
             up(n) == Up(u, line, n)
             app(n) == Applying(u, line, n)
             P(n) == IF Reaches(u, line, n) THEN Said(f[n], up(n), app(n), line) ELSE f[n].path = {}
             S == {n \in 0 .. N : P(n)}
  <1>1. /\ acl \in [Channels -> ACLs] /\ N \in Nat
        /\ \A x \in About(u, line) : x[1] \in 1 .. N
    BY AboutIs DEF TypeInv, TypeOK
  <1>2. /\ f[0] = First /\ \A n \in 0 .. N : f[n] \in States
        /\ \A n \in 1 .. N :
             f[n] = IF f[n - 1].path = {} THEN f[n - 1]
                    ELSE Heed(acl, line, line[n], acl[line[n]].list, Above(acl[line[n]], f[n - 1]),
                              u, iId[u], cChannel[u])
    BY DEF Walks
  <1>3. 0 \in S
    <2>1. up(0) = {} /\ app(0) = {}
      <3>1. \A x \in About(u, line) : ~(x[1] <= 0)
        BY <1>1
      <3> QED BY <3>1 DEF Up, Applying
    <2>2. Default \subseteq Perms
      BY DEF Default, Perms
    <2>3. Said(First, {}, {}, line)
      <3>1. Words({}, line, {"Traverse", "Write"}, {"Traverse"}) = {"Traverse", "Write"} \cap {"Traverse"}
        BY WordsNone
      <3>2. Words({}, line, Perms, Default) = Perms \cap Default
        BY WordsNone
      <3>3. First.path = {"Traverse"} /\ First.granted = Default
        BY DEF First
      <3>4. {"Traverse", "Write"} \cap {"Traverse"} = {"Traverse"} /\ Perms \cap Default = Default
        BY <2>2
      <3> HIDE DEF First
      <3> QED BY <3>1, <3>2, <3>3, <3>4, Zenon DEF Said
    <2>4. Reaches(u, line, 0)
      BY DEF Reaches
    <2> HIDE DEF up, app
    <2>5. P(0)
      BY <1>2, <2>1, <2>3, <2>4
    <2>6. 0 \in 0 .. N
      BY <1>1
    <2> HIDE DEF P
    <2> QED BY <2>5, <2>6
  <1>4. ASSUME NEW n \in 1 .. N, n - 1 \in S PROVE n \in S
    <2>0. n \in DOMAIN line /\ n \in Nat /\ n - 1 \in Nat /\ n \in 0 .. N /\ n - 1 \in 0 .. N
      BY <1>1
    <2> HIDE DEF N
    <2>1. Reaches(u, line, n) <=> Reaches(u, line, n - 1) /\ Goes(u, line, n)
      <3>1. 1 .. n = 1 .. n - 1 \cup {n}
        BY <2>0
      <3> QED BY <3>1 DEF Reaches
    <2>2. CASE ~Reaches(u, line, n - 1)
      BY <1>2, <1>4, <2>0, <2>1, <2>2
    <2>3. CASE Reaches(u, line, n - 1)
      <3> DEFINE state == f[n - 1]
                 a == acl[line[n]]
                 above == Above(a, state)
                 kept == IF a.inherit THEN app(n - 1) ELSE {}
      <3>1. Said(state, up(n - 1), app(n - 1), line) /\ state \in States
        BY <1>2, <1>4, <2>0, <2>3
      <3>2. state.path # {}
        <4>1. CASE n - 1 = 0
          <5>1. "Traverse" \in First.path
            BY DEF First
          <5> QED BY <1>2, <4>1, <5>1
        <4>2. CASE n - 1 # 0
          <5>1. Goes(u, line, n - 1)
            <6>1. n - 1 \in 1 .. n - 1
              BY <2>0, <4>2
            <6> QED BY <2>3, <6>1 DEF Reaches
          <5> QED BY <3>1, <5>1 DEF Goes, Said
        <4> QED BY <4>1, <4>2
      <3>3. a \in ACLs /\ above \in States
        <4>1. a \in ACLs
          BY <1>1, <2>0
        <4> HIDE DEF a, state
        <4> QED BY <3>1, <4>1, AboveType
      <3>4. Said(above, up(n - 1), kept, line)
        <4>1. CASE a.inherit
          BY <3>1, <4>1 DEF Above
        <4>2. CASE ~a.inherit
          <5>1. above.path = state.path /\ above.granted = Default
            <6> HIDE DEF a, state
            <6> QED BY <3>1, <4>2 DEF Above, States
          <5>2. Words({}, line, Perms, Default) = Default
            BY WordsNone DEF Default, Perms
          <5> HIDE DEF above, state
          <5> QED BY <3>1, <4>2, <5>1, <5>2 DEF Said
        <4> QED BY <4>1, <4>2
      <3>5. f[n] = Heed(acl, line, line[n], ListAt(line, n), above, u, iId[u], cChannel[u])
        BY <1>2, <3>2 DEF ListAt
      <3>6. /\ up(n - 1) \subseteq {x \in About(u, line) : x[1] < n}
            /\ kept \in SUBSET up(n - 1)
        <4>1. \A x \in About(u, line) : x[1] <= n - 1 => x[1] < n
          BY <1>1, <2>0
        <4> QED BY <4>1 DEF Up, Applying
      <3> DEFINE here == {x \in About(u, line) : x[1] = n}
                 new == {x \in About(u, line) : x[1] = n /\ Applies(x, line)}
      <3>7. up(n) = up(n - 1) \cup here
        <4>1. \A x \in About(u, line) : x[1] <= n <=> x[1] <= n - 1 \/ x[1] = n
          BY <1>1, <2>0
        <4> QED BY <4>1 DEF Up
      <3>8. app(n) = kept \cup new
        <4> DEFINE Through(x, m) == \A i \in DOMAIN line : x[1] < i /\ i <= m => acl[line[i]].inherit
        <4>1. \A x \in About(u, line) : x[1] = n => x[1] <= n /\ ~(x[1] <= n - 1) /\ Through(x, n)
          BY <1>1, <2>0
        <4>2. \A x \in About(u, line) : x[1] <= n <=> x[1] <= n - 1 \/ x[1] = n
          BY <1>1, <2>0
        <4>3. ASSUME NEW x \in About(u, line), x[1] <= n - 1
              PROVE  Through(x, n) <=> Through(x, n - 1) /\ a.inherit
          <5>1. \A i \in DOMAIN line : i <= n <=> i <= n - 1 \/ i = n
            BY <2>0
          <5>2. x[1] < n
            BY <1>1, <2>0, <4>3
          <5> QED BY <2>0, <5>1, <5>2
        <4>4. \A m : app(m) = {x \in About(u, line) : x[1] <= m /\ Applies(x, line) /\ Through(x, m)}
          BY DEF Applying
        <4> HIDE DEF Through, app, a
        <4> QED BY <4>1, <4>2, <4>3, <4>4
      <3> HIDE DEF up, app, kept, above, state, here, new
      <3>9. Said(f[n], up(n), app(n), line)
        <4>1. Said(Heed(acl, line, line[n], ListAt(line, n), above, u, iId[u], cChannel[u]),
                   up(n - 1) \cup here, kept \cup new, line)
          BY <2>0, <3>3, <3>4, <3>6, HeedSaid DEF here, new
        <4> QED BY <3>5, <3>7, <3>8, <4>1
      <3>10. ~Goes(u, line, n) => f[n].path = {}
        BY <3>9 DEF Goes, Said, up
      <3> QED BY <2>0, <2>1, <2>3, <3>9, <3>10
    <2> QED BY <2>2, <2>3
  <1>5. \A n \in 0 .. N : n \in S
    <2> HIDE DEF S, N
    <2> QED BY <1>1, <1>3, <1>4, UpTo
  <1> HIDE DEF P
  <1>6. \A n \in 0 .. N : P(n)
    BY <1>5
  <1> QED BY <1>6 DEF P

\* One way to say of a channel whether u gets through it, and the other.
LEMMA GoesIs ==
  ASSUME NEW u, NEW line, NEW n
  PROVE  Goes(u, line, n) <=>
           \/ LastWord("Traverse", Up(u, line, n), line, TRUE)
           \/ LastWord("Write", Up(u, line, n), line, FALSE)
  <1> DEFINE E == Up(u, line, n)
  <1>1. /\ LastWord("Traverse", E, line, "Traverse" \in {"Traverse"})
             <=> LastWord("Traverse", E, line, TRUE)
        /\ LastWord("Write", E, line, "Write" \in {"Traverse"})
             <=> LastWord("Write", E, line, FALSE)
    <2> HIDE DEF E
    <2> QED BY DEF LastWord
  <1> HIDE DEF E
  <1>2. Words(E, line, {"Traverse", "Write"}, {"Traverse"}) # {} <=>
          \/ LastWord("Traverse", E, line, "Traverse" \in {"Traverse"})
          \/ LastWord("Write", E, line, "Write" \in {"Traverse"})
    BY DEF Words
  <1> QED BY <1>1, <1>2 DEF Goes, E

LEMMA WalkGrants ==
  ASSUME TypeInv, NEW u \in Users, NEW line \in Seq(Channels), Len(line) > 0, EndsOnce(line)
  PROVE  Walk(acl, line, u, iId[u], cChannel[u]) =
           {perm \in Perms : /\ Reaches(u, line, Len(line))
                             /\ LastWord(perm, Applying(u, line, Len(line)), line, perm \in Default)}
  <1> DEFINE N == Len(line)
  <1>1. N \in Nat /\ N \in 1 .. N /\ N \in 0 .. N
    OBVIOUS
  <1>2. PICK f : Walks(f, acl, line, u, iId[u], cChannel[u])
    BY WalkIs DEF TypeInv, TypeOK
  <1>3. IF Reaches(u, line, N) THEN Said(f[N], Up(u, line, N), Applying(u, line, N), line)
        ELSE f[N].path = {}
    BY <1>1, <1>2, WalkSaid
  <1>4. Walk(acl, line, u, iId[u], cChannel[u]) = IF f[N].path = {} THEN {} ELSE f[N].granted
    BY <1>2 DEF Walks
  <1>5. CASE Reaches(u, line, N)
    <2>1. Goes(u, line, N)
      BY <1>1, <1>5 DEF Reaches
    <2>2. f[N].path # {} /\ f[N].granted = Words(Applying(u, line, N), line, Perms, Default)
      BY <1>3, <1>5, <2>1 DEF Said, Goes
    <2> HIDE DEF N
    <2> QED BY <1>4, <1>5, <2>2 DEF Words, N
  <1>6. CASE ~Reaches(u, line, N)
    BY <1>3, <1>4, <1>6
  <1> QED BY <1>5, <1>6

LEMMA LastWordWinsAlways == TypeInv => LastWordWins
  <1> SUFFICES ASSUME TypeInv, NEW u \in Users, NEW chan \in Channels
               PROVE  LET line == Line(cParent, chan)
                          about == About(u, line)
                          Within(n) == {x \in about : x[1] <= n}
                          reached == \A n \in DOMAIN line :
                              \/ LastWord("Traverse", Within(n), line, TRUE)
                              \/ LastWord("Write", Within(n), line, FALSE)
                          applies == {x \in about :
                              /\ \A i \in DOMAIN line : i > x[1] => acl[line[i]].inherit
                              /\ IF x[1] = Len(line) THEN At(line, x).here ELSE At(line, x).subs}
                      IN  Granted(u)[chan] =
                            {perm \in Perms : reached /\ LastWord(perm, applies, line, perm \in Default)}
    BY DEF LastWordWins, Online
  <1> DEFINE line == Line(cParent, chan)
             N == Len(line)
             applies == {x \in About(u, line) :
                           /\ \A i \in DOMAIN line : i > x[1] => acl[line[i]].inherit
                           /\ IF x[1] = N THEN At(line, x).here ELSE At(line, x).subs}
             reached == \A n \in DOMAIN line :
                           \/ LastWord("Traverse", {x \in About(u, line) : x[1] <= n}, line, TRUE)
                           \/ LastWord("Write", {x \in About(u, line) : x[1] <= n}, line, FALSE)
  <1>1. /\ acl \in [Channels -> ACLs] /\ line \in Seq(Channels) /\ N \in Nat \ {0}
        /\ Last(line) = chan /\ \A i \in DOMAIN line : i # N => line[i] # chan
    BY LineShape DEF TypeInv, TypeOK
  <1>2. Granted(u)[chan] = Walk(acl, line, u, iId[u], cChannel[u])
    BY Zenon DEF Granted, Grants
  <1> HIDE DEF line
  <1>3. EndsOnce(line)
    <2>1. line[N] = chan
      BY <1>1 DEF Last
    <2> QED BY <1>1, <2>1 DEF EndsOnce
  <1>4. applies = Applying(u, line, N)
    <2>1. \A x \in About(u, line) : x[1] \in Nat /\ x[1] <= N
      BY <1>1, AboutIs
    <2>2. \A i \in DOMAIN line : i \in Nat /\ i <= N
      BY <1>1
    <2>3. \A x \in About(u, line) : \A i \in DOMAIN line : i > x[1] <=> x[1] < i /\ i <= N
      BY <1>1, <2>1, <2>2
    <2> QED BY <2>1, <2>3 DEF Applying, Applies
  <1>5. reached <=> Reaches(u, line, N)
    <2>1. DOMAIN line = 1 .. N
      BY <1>1
    <2>2. \A n : Goes(u, line, n) <=>
                   \/ LastWord("Traverse", {x \in About(u, line) : x[1] <= n}, line, TRUE)
                   \/ LastWord("Write", {x \in About(u, line) : x[1] <= n}, line, FALSE)
      BY GoesIs DEF Up
    <2> QED BY <2>1, <2>2, Zenon DEF Reaches
  <1>6. Walk(acl, line, u, iId[u], cChannel[u]) =
           {perm \in Perms : /\ Reaches(u, line, N)
                             /\ LastWord(perm, Applying(u, line, N), line, perm \in Default)}
    BY <1>1, <1>3, WalkGrants
  <1> HIDE DEF applies, reached, N
  <1>7. Granted(u)[chan] = {perm \in Perms : reached /\ LastWord(perm, applies, line, perm \in Default)}
    BY <1>2, <1>4, <1>5, <1>6
  <1> QED BY <1>7 DEF applies, reached, line, N

\* What hasPermission works out by its walk over channels, entries and groups
\* is what Murmur.ice says of permissions, in every tree and for any ACLs: the
\* last word on the way decides, of all on whether one gets there, of those
\* that apply on what one may do there.
THEOREM LastWordDecides == Spec => []LastWordWins
  BY LastWordWinsAlways, TypeInit, TypeStep, PTL DEF Spec

=============================================================================
