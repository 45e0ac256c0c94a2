------------------------------ MODULE CryptSync -----------------------------
(***************************************************************************)
(* The voice channel of CryptState with the resynchronisation handshake:   *)
(* a receiver that rejects a packet and has had no good one for 5 seconds  *)
(* sends an empty CryptSetup over TCP, the sender answers with the vector  *)
(* it is at, and the receiver moves there.  Either end may play the        *)
(* receiver: server (checkDecrypt, doSync, msgCryptSetup) and client       *)
(* (udpReady, MainWindow::msgCryptSetup) run the same protocol.            *)
(*                                                                         *)
(* TCP keeps the messages in order; UDP packets pass them freely.  The     *)
(* two 5-second timers are abstracted to a choice made at each rejection.  *)
(***************************************************************************)
EXTENDS CryptState, Sequences

CONSTANT MaxResync  \* bound: number of requests

VARIABLES
    requests,  \* empty CryptSetup messages under way to the sender
    nonces,    \* answers under way to the receiver
    uiResync,  \* receiver: number of answers applied
    asked      \* number of requests made

syncVars == <<requests, nonces, uiResync, asked>>
vars == <<cryptVars, syncVars>>

SyncInit ==
    /\ Init
    /\ requests = 0
    /\ nonces = <<>>
    /\ uiResync = 0
    /\ asked = 0

\* Voice packets go on being sealed and received.
Voice == Next /\ UNCHANGED syncVars

\* A packet is rejected with tLastGood and tLastRequest both over 5 seconds.
RequestSync ==
    /\ \E iv \in Start + 1 .. encrypt_iv : Reject(iv)
    /\ asked < MaxResync
    /\ asked' = asked + 1
    /\ requests' = requests + 1
    /\ UNCHANGED <<nonces, uiResync>>

\* The sender has an empty CryptSetup: it answers with its encrypt_iv.
AnswerSync ==
    /\ requests > 0
    /\ requests' = requests - 1
    /\ nonces' = Append(nonces, encrypt_iv)
    /\ UNCHANGED <<cryptVars, uiResync, asked>>

\* Faulty variant: the receiver moves to the vector after the one in the answer.
NonceOneAhead(nonce) == decrypt_iv' = nonce + 1

\* The vector is overwritten; the statistics and the history are not.
TakeNonce(nonce) == decrypt_iv' = nonce

\* The receiver applies an answer, whatever it has decrypted in the meantime.
ApplySync ==
    /\ nonces # <<>>
    /\ uiResync' = uiResync + 1
    /\ TakeNonce(Head(nonces))
    /\ nonces' = Tail(nonces)
    /\ UNCHANGED <<encrypt_iv, decrypt_history, uiGood, uiLate, uiLost, accepted,
                   requests, asked>>

SyncNext == Voice \/ RequestSync \/ AnswerSync \/ ApplySync

SyncSpec == SyncInit /\ [][SyncNext]_vars

-----------------------------------------------------------------------------
(* Each resynchronisation can make the receiver accept a packet once more,   *)
(* and no more than once: between two of them the window still holds.        *)
RepeatsPerResync == \A iv \in IVs : accepted[iv] <= 1 + uiResync

(* Every move of the receiver, also an old answer applied late, leaves it at *)
(* or behind the sender, so that what is sent next is ahead of it; and the   *)
(* answers themselves arrive in the order the sender passed those vectors.   *)
NeverAheadOfSender ==
    /\ decrypt_iv <= encrypt_iv
    /\ \A i \in 1 .. Len(nonces) - 1 : nonces[i] <= nonces[i + 1]

(* uiLost stays the count of packets skipped (ivrecovery: 14 of 15 lost is   *)
(* 14): it never exceeds the number of packets sent.                         *)
LostWithinSent == uiLost <= encrypt_iv - Start
=============================================================================
