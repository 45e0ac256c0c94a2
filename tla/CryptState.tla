----------------------------- MODULE CryptState -----------------------------
(***************************************************************************)
(* The UDP voice channel in one direction: the sender's counter            *)
(* (encrypt_iv) and the receiver's half of src/src/CryptState.cpp, that    *)
(* follows the counter from the single byte each packet carries, accepts   *)
(* packets that are late, skips those that are lost and refuses repeats.   *)
(*                                                                         *)
(* The 16-byte initialisation vectors are natural numbers: byte i of the   *)
(* array is digit i in base M, and the carry and borrow loops of the code  *)
(* are addition and subtraction.  They do not wrap: Start is random in     *)
(* 0 .. 2^128-1 (genKey), so neither end of the range is within reach.     *)
(* Encryption is perfect: a packet opens under the vector it was sealed    *)
(* with and under no other.                                                *)
(*                                                                         *)
(* The network may lose, delay, reorder and duplicate: any vector used so  *)
(* far may arrive at any time, any number of times.                        *)
(***************************************************************************)
EXTENDS Integers, FiniteSets

CONSTANTS
    Half,        \* 128: half of the 256 values of a byte
    Window,      \* 30: how far behind a packet may be
    Start,       \* the vector both ends begin with
    MaxPackets,  \* bound: number of packets the sender encrypts
    UIntRange    \* 2^32: number of values of an unsigned int

ASSUME CryptAssumption ==
    /\ Half \in Nat \ {0}
    /\ Window \in 1 .. Half
    /\ Start \in Nat /\ Start >= Window
    /\ MaxPackets \in Nat
    /\ UIntRange \in Nat /\ UIntRange > MaxPackets

VARIABLES
    encrypt_iv,       \* sender: the vector of the last packet it sealed
    decrypt_iv,       \* receiver: the highest vector it has accepted
    decrypt_history,  \* receiver: second byte of the last vector, by first byte
    uiGood, uiLate, uiLost,  \* receiver: statistics, unsigned int
    accepted          \* history: how often each vector has been accepted

recvVars == <<decrypt_iv, decrypt_history, uiGood, uiLate, uiLost, accepted>>
cryptVars == <<encrypt_iv, recvVars>>

M == 2 * Half
IVs == Start + 1 .. Start + MaxPackets
Byte0(iv) == iv % M

\* Faulty variant: a carry out of the second byte stays in it.
Byte1_Wide(iv) == iv \div M

Byte1(iv) == (iv \div M) % M

\* Adding a small signed number to an unsigned int.
UAdd(n, delta) ==
    LET s == n + delta
    IN  IF s < 0 THEN s + UIntRange
        ELSE IF s >= UIntRange THEN s - UIntRange ELSE s

-----------------------------------------------------------------------------
\* In order as expected: the byte after ours.
Expected(byte) == byte = (Byte0(decrypt_iv) + 1) % M

\* Signed distance to the byte of a packet that is not the next in order.
Diff(byte) ==
    LET d == byte - Byte0(decrypt_iv)
    IN  IF d > Half THEN d - M ELSE IF d < -Half THEN d + M ELSE d

IsLate(byte) == ~Expected(byte) /\ -Window < Diff(byte) /\ Diff(byte) < 0
IsAhead(byte) == ~Expected(byte) /\ Diff(byte) > 0

\* The vector the receiver tries: ours with its upper bytes carried or borrowed.
Candidate(byte) == IF Expected(byte) THEN decrypt_iv + 1
                                     ELSE decrypt_iv + Diff(byte)

\* Faulty variant: the history is never consulted.
RepeatUnchecked(byte) == FALSE

\* A packet out of order whose slot of the history holds its second byte.
Repeat(byte) == LET iv == Candidate(byte)
                IN  decrypt_history[Byte0(iv)] = Byte1(iv)

\* decrypt returns true for the packet sealed under iv.
Accepts(iv) ==
    LET byte == Byte0(iv)
    IN  /\ \/ Expected(byte)
           \/ (IsLate(byte) \/ IsAhead(byte)) /\ ~Repeat(byte)
        /\ Candidate(byte) = iv

\* Faulty variant: a late packet is not given back to the count of lost ones.
LostByAccepting_NoCredit(iv) ==
    IF IsLate(Byte0(iv)) THEN 0 ELSE iv - decrypt_iv - 1

\* What accepting the packet adds to uiLost.
LostByAccepting(iv) ==
    IF IsLate(Byte0(iv)) THEN -1 ELSE iv - decrypt_iv - 1

-----------------------------------------------------------------------------
Init ==
    /\ encrypt_iv = Start
    /\ decrypt_iv = Start
    /\ decrypt_history = [b \in 0 .. M - 1 |-> 0]
    /\ uiGood = 0 /\ uiLate = 0 /\ uiLost = 0
    /\ accepted = [iv \in IVs |-> 0]

\* encrypt: the vector is advanced first, then used.
Encrypt ==
    /\ encrypt_iv < Start + MaxPackets
    /\ encrypt_iv' = encrypt_iv + 1
    /\ UNCHANGED recvVars

\* What decrypt does with a packet it accepts.
Accept(iv) ==
    LET late == IsLate(Byte0(iv))
    IN  /\ Accepts(iv)
        /\ decrypt_history' = [decrypt_history EXCEPT ![Byte0(iv)] = Byte1(iv)]
        /\ decrypt_iv' = IF late THEN decrypt_iv ELSE iv
        /\ uiGood' = UAdd(uiGood, 1)
        /\ uiLate' = UAdd(uiLate, IF late THEN 1 ELSE 0)
        /\ uiLost' = UAdd(uiLost, LostByAccepting(iv))
        /\ accepted' = [accepted EXCEPT ![iv] = @ + 1]
        /\ UNCHANGED encrypt_iv

\* decrypt returns false: the vector is what it was (saveiv is put back).
Reject(iv) ==
    /\ ~Accepts(iv)
    /\ UNCHANGED cryptVars

\* Any packet sent so far arrives.
Decrypt == \E iv \in Start + 1 .. encrypt_iv : Accept(iv) \/ Reject(iv)

Next == Encrypt \/ Decrypt

Spec == Init /\ [][Next]_cryptVars

-----------------------------------------------------------------------------
Got == {iv \in IVs : accepted[iv] > 0}

TypeOK ==
    /\ encrypt_iv \in Start .. Start + MaxPackets
    /\ decrypt_iv \in Start .. encrypt_iv
    /\ decrypt_history \in [0 .. M - 1 -> 0 .. M - 1]
    /\ uiGood \in 0 .. UIntRange - 1
    /\ uiLate \in 0 .. UIntRange - 1
    /\ uiLost \in 0 .. UIntRange - 1
    /\ accepted \in [IVs -> Nat]

(* However the network repeats and reorders, decrypt hands out the packet of *)
(* a vector at most once: "will refuse to reuse same IV".  The in-order path *)
(* does not look at the history, and the history keeps one byte per slot, so *)
(* this rests on the window being no wider than the history.                 *)
AtMostOnce == \A iv \in IVs : accepted[iv] <= 1

(* uiLost, sent to the peer in every Ping, is the number of packets up to    *)
(* the newest one that have not arrived: late arrivals take themselves off   *)
(* the count, which never goes below zero (it is unsigned).                  *)
LostExact == uiLost = Cardinality((Start + 1 .. decrypt_iv) \ Got)

(* Any packet not seen before that is less than Window behind the newest one *)
(* would be accepted (TestCrypt::reverserecovery, "OOO recovery up to 30     *)
(* packets").                                                                *)
FreshInWindowAccepted ==
    \A iv \in Start + 1 .. encrypt_iv :
        iv \notin Got /\ iv + Window > decrypt_iv /\ iv < decrypt_iv => Accepts(iv)

(* decrypt implements a stream that repeats nothing and miscounts nothing:   *)
(* the window, the history and the unsigned counters cannot be told from     *)
(* the set of packets received.                                              *)
Stream == INSTANCE VoiceStream WITH
    First <- Start + 1, Last <- Start + MaxPackets,
    sent <- encrypt_iv, newest <- decrypt_iv, got <- Got,
    good <- uiGood, lost <- uiLost
StreamSpec == Stream!Spec
=============================================================================
