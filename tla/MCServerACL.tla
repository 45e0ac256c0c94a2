---------------------------- MODULE MCServerACL ----------------------------
(* ServerACL for TLC: a few settings per channel, that use each kind of entry. *)
EXTENDS ServerACL, TLC

CONSTANTS u1, u2

Who(group) == [userId |-> None, group |-> group, invert |-> FALSE, local |-> FALSE]
Except(group) == [Who(group) EXCEPT !.invert = TRUE]
Local(group) == [Who(group) EXCEPT !.local = TRUE]
Entry(who, allow, deny) ==
    [who |-> who, here |-> TRUE, subs |-> TRUE, allow |-> allow, deny |-> deny]
HereOnly(entry) == [entry EXCEPT !.subs = FALSE]
BelowOnly(entry) == [entry EXCEPT !.here = FALSE]
Group(inherit, inheritable, add, remove) ==
    [inherit |-> inherit, inheritable |-> inheritable, add |-> add, remove |-> remove, temp |-> {}]
ACL(inherit, list, group) == [inherit |-> inherit, list |-> list, groups |-> [g \in GroupNames |-> group]]

MCSession == u1 :> 1
MCSessions == u1 :> 1 @@ u2 :> 2
MCTempIds == {1, -1}

Closed == ACL(FALSE, <<Entry(Who("all"), {"Traverse"}, {"Traverse", "Enter"}),
                       Entry([Local("in") EXCEPT !.userId = 1], {"Enter", "Traverse"}, {"Write"})>>, NoGroup)

MCInitial ==
    0 :> ACL(TRUE, <<HereOnly(Entry(Who("g"), {"Write"}, {})), Entry(Except("auth"), {}, {"Speak"})>>,
             Group(TRUE, TRUE, {1}, {}))
    @@ 1 :> ACL(TRUE, <<>>, NoGroup)
    @@ 2 :> ACL(TRUE, <<Entry(Local("g"), {"Enter"}, {"Speak"}), BelowOnly(Entry(Who("out"), {}, {"Traverse"}))>>,
              Group(TRUE, TRUE, {}, {1}))

MCSettings == 0 :> {} @@ 1 :> {Closed} @@ 2 :> {}

(* Only members of g get past the root, and channel 1 gets a group g of its own. *)
MCGuarded ==
    [MCInitial EXCEPT ![0].list = <<Entry(Except("g"), {}, {"Traverse"}), Entry(Who("g"), {"Write"}, {})>>]
MCShadowed == 0 :> {} @@ 1 :> {ACL(TRUE, <<>>, Group(FALSE, FALSE, {}, {}))} @@ 2 :> {}

=============================================================================
