---------------------------- MODULE VoiceStream -----------------------------
(***************************************************************************)
(* What the encrypted voice channel promises to its user, without bytes,   *)
(* windows or history: packets are numbered, the network may lose and      *)
(* reorder them, but none is handed out twice and the statistics count     *)
(* exactly what has arrived and what is missing.                           *)
(***************************************************************************)
EXTENDS Integers, FiniteSets

CONSTANTS First, Last  \* numbers of the first and the last packet

VARIABLES
    sent,    \* number of the last packet sent
    newest,  \* highest number received
    got,     \* the numbers received
    good,    \* how many were received
    lost     \* how many are missing below the newest

streamVars == <<sent, newest, got, good, lost>>

Init ==
    /\ sent = First - 1
    /\ newest = First - 1
    /\ got = {}
    /\ good = 0
    /\ lost = 0

Send ==
    /\ sent < Last
    /\ sent' = sent + 1
    /\ UNCHANGED <<newest, got, good, lost>>

Receive(n) ==
    /\ n \notin got
    /\ got' = got \cup {n}
    /\ newest' = IF n > newest THEN n ELSE newest
    /\ good' = Cardinality(got')
    /\ lost' = Cardinality((First .. newest') \ got')
    /\ UNCHANGED sent

Next == Send \/ \E n \in First .. sent : Receive(n)

Spec == Init /\ [][Next]_streamVars
=============================================================================
