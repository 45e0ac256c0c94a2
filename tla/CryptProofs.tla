---------------------------- MODULE CryptProofs ----------------------------
(***************************************************************************)
(* For every width of byte and window: the receiver of CryptState hands    *)
(* out each packet at most once.  The invariant behind it is that, for     *)
(* every accepted vector still inside the window, the history slot of its  *)
(* first byte holds its second byte: two vectors of one window differ by   *)
(* less than Half and so never share a slot.                               *)
(*                                                                         *)
(* With resynchronisation (CryptSync) the same is said of the packets      *)
(* accepted since the last answer was applied: an answer moves the vector  *)
(* and leaves the history, and everything that was accepted before may     *)
(* come once more.                                                         *)
(***************************************************************************)
EXTENDS CryptSync, FiniteSetTheorems, TLAPS

\* Vectors that have been accepted are not above the receiver's own.
GotBelow == \A iv \in IVs : accepted[iv] > 0 => iv <= decrypt_iv

\* The history remembers every accepted vector of the window.
HistoryCovers ==
    \A iv \in IVs : accepted[iv] > 0 /\ iv + Window > decrypt_iv
                      => decrypt_history[Byte0(iv)] = Byte1(iv)

IInv == TypeOK /\ GotBelow /\ HistoryCovers /\ AtMostOnce

-----------------------------------------------------------------------------
\* A multiple of m that is not zero is at least m away from it.
LEMMA MultipleApart ==
  ASSUME NEW m \in Nat, NEW k \in Int, k >= 1
  PROVE  m * k >= m
  <1>1. m * k = m * (k - 1) + m
    OBVIOUS
  <1>2. m * (k - 1) >= 0
    OBVIOUS
  <1> QED BY <1>1, <1>2

\* The digits and the rest of a number.
LEMMA DivMod ==
  ASSUME NEW m \in Nat, m > 0, NEW x \in Nat
  PROVE  /\ x \div m \in Int
         /\ x % m \in 0 .. m - 1
         /\ x = (m * (x \div m)) + (x % m)
  OBVIOUS

\* Two numbers less than m apart with the same remainder are the same.
LEMMA SameRemainder ==
  ASSUME NEW m \in Nat, m > 0, NEW x \in Nat, NEW y \in Nat,
         x % m = y % m, x - y < m, y - x < m
  PROVE  x = y
  <1> DEFINE p == x \div m
             q == y \div m
             r == x % m
  <1>1. p \in Int /\ q \in Int /\ r \in Int /\ x = m * p + r /\ y = m * q + r
    BY DivMod
  <1> HIDE DEF p, q, r
  <1>2. x - y = m * (p - q) /\ y - x = m * (q - p)
    BY <1>1
  <1>3. ~(p > q)
    BY <1>1, <1>2, MultipleApart
  <1>4. ~(q > p)
    BY <1>1, <1>2, MultipleApart
  <1> QED BY <1>1, <1>3, <1>4

LEMMA MType == M \in Nat /\ M > 1 /\ M = Half + Half /\ Half \in Nat
  BY CryptAssumption DEF M

\* Digits of a natural number are digits.
LEMMA Digits ==
  ASSUME NEW x \in Nat
  PROVE  Byte0(x) \in 0 .. M - 1 /\ Byte1(x) \in 0 .. M - 1
  <1>1. M \in Nat /\ M > 0
    BY MType
  <1>2. x % M \in 0 .. M - 1 /\ (x \div M) \in Int
    BY <1>1, DivMod
  <1>3. (x \div M) % M \in 0 .. M - 1
    BY <1>1, <1>2
  <1> QED BY <1>2, <1>3 DEF Byte0, Byte1

\* Two vectors less than M apart with the same first byte are the same.
LEMMA SameSlot ==
  ASSUME NEW x \in Nat, NEW y \in Nat, Byte0(x) = Byte0(y),
         x - y < M, y - x < M
  PROVE  x = y
  <1>1. M \in Nat /\ M > 0
    BY MType
  <1>2. x % M = y % M
    BY DEF Byte0
  <1>3. \A m \in Nat : m > 0 /\ x % m = y % m /\ x - y < m /\ y - x < m => x = y
    BY SameRemainder
  <1> QED BY <1>1, <1>2, <1>3

-----------------------------------------------------------------------------
\* A packet that is accepted is either newer than all before it, or a late
\* one of the window whose history slot says something else.
LEMMA AcceptCases ==
  ASSUME TypeOK, NEW iv \in Start + 1 .. encrypt_iv, Accepts(iv)
  PROVE  \/ /\ IsLate(Byte0(iv))
            /\ iv < decrypt_iv /\ iv + Window > decrypt_iv
            /\ decrypt_history[Byte0(iv)] # Byte1(iv)
         \/ /\ ~IsLate(Byte0(iv))
            /\ iv > decrypt_iv
  <1> DEFINE b == Byte0(iv)
  <1>1. /\ Candidate(b) = iv
        /\ Expected(b) \/ ((IsLate(b) \/ IsAhead(b)) /\ ~Repeat(b))
    BY DEF Accepts
  <1>2. decrypt_iv \in Nat /\ iv \in Nat /\ Window \in Nat
    BY CryptAssumption DEF TypeOK
  <1>3. Byte0(decrypt_iv) \in 0 .. M - 1 /\ b \in 0 .. M - 1
    BY <1>2, Digits
  <1>4. Diff(b) \in Int
    BY <1>3, MType DEF Diff
  <1>5. CASE Expected(b)
    <2>1. iv = decrypt_iv + 1 /\ ~IsLate(b)
      BY <1>1, <1>5 DEF Candidate, IsLate
    <2> QED BY <2>1, <1>2
  <1>6. CASE ~Expected(b)
    <2>1. iv = decrypt_iv + Diff(b) /\ (IsLate(b) \/ IsAhead(b)) /\ ~Repeat(b)
      BY <1>1, <1>6 DEF Candidate
    <2>2. decrypt_history[b] # Byte1(iv)
      BY <2>1, <1>1 DEF Repeat
    <2>3. CASE IsLate(b)
      <3>1. -Window < Diff(b) /\ Diff(b) < 0
        BY <2>3 DEF IsLate
      <3> QED BY <2>1, <2>2, <2>3, <3>1, <1>2, <1>4
    <2>4. CASE ~IsLate(b)
      <3>1. Diff(b) > 0
        BY <2>1, <2>4 DEF IsAhead
      <3> QED BY <2>1, <2>4, <3>1, <1>2, <1>4
    <2> QED BY <2>3, <2>4
  <1> QED BY <1>5, <1>6

\* The counters stay unsigned ints.
LEMMA UAddType ==
  ASSUME NEW n \in 0 .. UIntRange - 1, NEW delta \in Int,
         delta < UIntRange, -UIntRange < delta
  PROVE  UAdd(n, delta) \in 0 .. UIntRange - 1
  BY CryptAssumption DEF UAdd

LEMMA TypeInit == Init => TypeOK
  <1> SUFFICES ASSUME Init PROVE TypeOK
    OBVIOUS
  <1>1. M \in Nat /\ M > 0
    BY MType
  <1>2. decrypt_history \in [0 .. M - 1 -> 0 .. M - 1]
    BY <1>1 DEF Init
  <1> QED BY <1>2, CryptAssumption DEF Init, TypeOK

LEMMA TypeStep == TypeOK /\ [Next]_cryptVars => TypeOK'
  <1> SUFFICES ASSUME TypeOK, [Next]_cryptVars PROVE TypeOK'
    OBVIOUS
  <1>1. CASE Encrypt
    BY <1>1, CryptAssumption DEF Encrypt, recvVars, TypeOK
  <1>2. ASSUME NEW iv \in Start + 1 .. encrypt_iv, Accept(iv)
        PROVE  TypeOK'
    <2>1. iv \in IVs /\ iv \in Nat /\ decrypt_iv \in Nat
      BY CryptAssumption DEF TypeOK, IVs
    <2>2. Byte0(iv) \in 0 .. M - 1 /\ Byte1(iv) \in 0 .. M - 1
      BY <2>1, Digits
    <2>3. encrypt_iv' = encrypt_iv /\ encrypt_iv' \in Start .. Start + MaxPackets
      BY <1>2 DEF Accept, TypeOK
    <2>4. decrypt_iv' \in Start .. encrypt_iv'
      BY <1>2, <2>3, CryptAssumption DEF Accept, TypeOK
    <2>5. decrypt_history' \in [0 .. M - 1 -> 0 .. M - 1]
      BY <1>2, <2>2 DEF Accept, TypeOK
    <2>6. accepted' \in [IVs -> Nat]
      BY <1>2, <2>1 DEF Accept, TypeOK
    <2>7. LostByAccepting(iv) \in Int /\ LostByAccepting(iv) < UIntRange
            /\ -UIntRange < LostByAccepting(iv)
      <3>1. Accepts(iv)
        BY <1>2 DEF Accept
      <3>2. IsLate(Byte0(iv)) \/ iv > decrypt_iv
        BY <3>1, AcceptCases
      <3>3. iv <= Start + MaxPackets /\ decrypt_iv >= Start
        BY CryptAssumption DEF TypeOK
      <3>4. iv - decrypt_iv - 1 <= MaxPackets
        BY <3>3, <2>1, CryptAssumption
      <3>5. MaxPackets < UIntRange /\ UIntRange > 0 /\ UIntRange \in Nat /\ MaxPackets \in Nat
        BY CryptAssumption
      <3>6. CASE IsLate(Byte0(iv))
        <4>1. iv < decrypt_iv /\ MaxPackets >= 1
          BY <3>1, <3>6, AcceptCases, <2>1, <3>3, CryptAssumption
        <4>2. LostByAccepting(iv) = -1
          BY <3>6 DEF LostByAccepting
        <4> QED BY <4>1, <4>2, <3>5
      <3>7. CASE ~IsLate(Byte0(iv))
        <4>1. LostByAccepting(iv) = iv - decrypt_iv - 1
          BY <3>7 DEF LostByAccepting
        <4> QED BY <4>1, <3>2, <3>4, <3>5, <3>7, <2>1
      <3> QED BY <3>6, <3>7
    <2>8. uiLost' \in 0 .. UIntRange - 1
      BY <1>2, <2>7, UAddType DEF Accept, TypeOK
    <2>9. uiGood' \in 0 .. UIntRange - 1 /\ uiLate' \in 0 .. UIntRange - 1
      <3>1. MaxPackets >= 1 /\ UIntRange > 1
        BY <2>1, CryptAssumption DEF IVs
      <3>2. UIntRange \in Nat /\ 1 < UIntRange
        BY <3>1, CryptAssumption
      <3>3. UAdd(uiGood, 1) \in 0 .. UIntRange - 1
        BY <3>2 DEF TypeOK, UAdd
      <3>4. UAdd(uiLate, 0) \in 0 .. UIntRange - 1 /\ UAdd(uiLate, 1) \in 0 .. UIntRange - 1
        BY <3>2 DEF TypeOK, UAdd
      <3> QED BY <1>2, <3>3, <3>4 DEF Accept
    <2> QED BY <2>3, <2>4, <2>5, <2>6, <2>8, <2>9 DEF TypeOK
  <1>3. CASE UNCHANGED cryptVars
    BY <1>3 DEF cryptVars, recvVars, TypeOK
  <1> QED BY <1>1, <1>2, <1>3 DEF Next, Decrypt, Reject

-----------------------------------------------------------------------------
\* What is accepted has not been accepted before.
LEMMA FreshAccepted ==
  ASSUME IInv, NEW iv \in Start + 1 .. encrypt_iv, Accepts(iv)
  PROVE  accepted[iv] = 0
  <1> USE DEF IInv
  <1>1. iv \in IVs /\ iv \in Nat /\ decrypt_iv \in Nat
    BY CryptAssumption DEF TypeOK, IVs
  <1>2. \/ iv + Window > decrypt_iv /\ decrypt_history[Byte0(iv)] # Byte1(iv)
        \/ iv > decrypt_iv
    BY AcceptCases
  <1>3. accepted[iv] > 0 => iv <= decrypt_iv
    BY <1>1 DEF GotBelow
  <1>4. accepted[iv] > 0 /\ iv + Window > decrypt_iv
          => decrypt_history[Byte0(iv)] = Byte1(iv)
    BY <1>1 DEF HistoryCovers
  <1>5. accepted[iv] \in Nat
    BY <1>1 DEF TypeOK
  <1> QED BY <1>1, <1>2, <1>3, <1>4, <1>5

LEMMA InvInit == Init => IInv
  <1> SUFFICES ASSUME Init PROVE IInv
    OBVIOUS
  <1>1. TypeOK
    BY TypeInit
  <1>2. \A iv \in IVs : accepted[iv] = 0
    BY DEF Init
  <1> QED BY <1>1, <1>2 DEF IInv, GotBelow, HistoryCovers, AtMostOnce

LEMMA InvStep == IInv /\ [Next]_cryptVars => IInv'
  <1> SUFFICES ASSUME IInv, [Next]_cryptVars PROVE IInv'
    OBVIOUS
  <1>0. TypeOK'
    BY TypeStep DEF IInv
  <1> USE DEF IInv
  <1>1. CASE Encrypt
    BY <1>0, <1>1 DEF Encrypt, recvVars, GotBelow, HistoryCovers, AtMostOnce
  <1>2. ASSUME NEW iv \in Start + 1 .. encrypt_iv, Accept(iv)
        PROVE  IInv'
    <2>1. /\ iv \in IVs /\ iv \in Nat /\ decrypt_iv \in Nat /\ decrypt_iv' \in Nat
          /\ \A x \in IVs : x \in Nat
      BY <1>0, CryptAssumption DEF TypeOK, IVs
    <2>2. /\ accepted' = [accepted EXCEPT ![iv] = @ + 1]
          /\ decrypt_history' = [decrypt_history EXCEPT ![Byte0(iv)] = Byte1(iv)]
          /\ decrypt_iv' = IF IsLate(Byte0(iv)) THEN decrypt_iv ELSE iv
          /\ Accepts(iv)
      BY <1>2 DEF Accept
    <2>3. \/ /\ IsLate(Byte0(iv))
             /\ iv < decrypt_iv /\ iv + Window > decrypt_iv
             /\ decrypt_history[Byte0(iv)] # Byte1(iv)
          \/ ~IsLate(Byte0(iv)) /\ iv > decrypt_iv
      BY <2>2, AcceptCases
    <2>4. accepted[iv] = 0
      BY <2>2, FreshAccepted
    <2>5. iv <= decrypt_iv' /\ decrypt_iv <= decrypt_iv'
      BY <2>1, <2>2, <2>3
    <2>6. \A x \in IVs : x # iv => accepted'[x] = accepted[x]
      BY <2>1, <2>2 DEF TypeOK
    <2>7. accepted'[iv] = 1
      BY <2>1, <2>2, <2>4 DEF TypeOK
    <2>8. AtMostOnce'
      BY <2>6, <2>7 DEF AtMostOnce
    <2>9. GotBelow'
      BY <2>1, <2>5, <2>6 DEF GotBelow
    <2>10. HistoryCovers'
      <3> SUFFICES ASSUME NEW x \in IVs, accepted'[x] > 0, x + Window > decrypt_iv'
                   PROVE  decrypt_history'[Byte0(x)] = Byte1(x)
        BY DEF HistoryCovers
      <3>1. Byte0(x) \in 0 .. M - 1 /\ Byte0(iv) \in 0 .. M - 1
        BY <2>1, Digits
      <3>2. CASE x = iv
        BY <2>2, <3>1, <3>2 DEF TypeOK
      <3>3. CASE x # iv
        <4>1. accepted[x] > 0
          BY <2>6, <3>3
        <4>0. Window \in Nat /\ Window < M /\ x \in Nat /\ M \in Nat
          BY MType, CryptAssumption, <2>1
        <4>2. x <= decrypt_iv /\ x + Window > decrypt_iv
          <5>1. x <= decrypt_iv
            BY <4>1 DEF GotBelow
          <5>2. x + Window > decrypt_iv'
            OBVIOUS
          <5> QED BY <4>0, <5>1, <5>2, <2>1, <2>5
        <4>3. decrypt_history[Byte0(x)] = Byte1(x)
          BY <4>1, <4>2 DEF HistoryCovers
        <4>4. iv + Window > decrypt_iv'
          BY <2>1, <2>2, <2>3, CryptAssumption
        <4>5. x - iv < M /\ iv - x < M
          <5>1. x + Window > decrypt_iv'
            OBVIOUS
          <5> QED BY <4>0, <4>2, <4>4, <5>1, <2>1, <2>5
        <4>6. Byte0(x) # Byte0(iv)
          BY <4>5, <3>3, <2>1, SameSlot
        <4> QED BY <4>3, <4>6, <2>2, <3>1 DEF TypeOK
      <3> QED BY <3>2, <3>3
    <2> QED BY <1>0, <2>8, <2>9, <2>10
  <1>3. CASE UNCHANGED cryptVars
    BY <1>3, <1>0 DEF cryptVars, recvVars, GotBelow, HistoryCovers, AtMostOnce
  <1> QED BY <1>1, <1>2, <1>3 DEF Next, Decrypt, Reject

(* Type correctness, for every width of byte and window: in particular the   *)
(* receiver's vector never passes the sender's.                              *)
THEOREM TypeCorrect == Spec => []TypeOK
  <1>1. Init => TypeOK
    BY TypeInit
  <1>2. TypeOK /\ [Next]_cryptVars => TypeOK'
    BY TypeStep
  <1> QED BY <1>1, <1>2, PTL DEF Spec

(* decrypt never hands out the packet of one vector twice, whatever the      *)
(* network delays, reorders and repeats.                                     *)
THEOREM NoRepeat == Spec => []AtMostOnce
  <1>1. Init => IInv
    BY InvInit
  <1>2. IInv /\ [Next]_cryptVars => IInv'
    BY InvStep
  <1>3. IInv => AtMostOnce
    BY DEF IInv
  <1> QED BY <1>1, <1>2, <1>3, PTL DEF Spec

-----------------------------------------------------------------------------
(* Counting.  Missing are the packets up to the newest that have not come.   *)
Missing == (Start + 1 .. decrypt_iv) \ Got

CountInv == IInv /\ uiGood = Cardinality(Got) /\ uiLost = Cardinality(Missing)

CountsBounded ==
    /\ IsFiniteSet(Got) /\ Cardinality(Got) \in Nat /\ Cardinality(Got) <= MaxPackets
    /\ IsFiniteSet(Missing) /\ Cardinality(Missing) \in Nat
    /\ Cardinality(Missing) <= MaxPackets

LEMMA Finite == TypeOK => CountsBounded
  <1> SUFFICES ASSUME TypeOK PROVE CountsBounded
    OBVIOUS
  <1>1. IsFiniteSet(IVs) /\ Cardinality(IVs) = MaxPackets
    BY FS_Interval, CryptAssumption DEF IVs
  <1>2. Got \subseteq IVs
    BY DEF Got
  <1>3. Missing \subseteq IVs
    BY CryptAssumption DEF Missing, IVs, TypeOK
  <1>4. \A S : S \subseteq IVs => /\ IsFiniteSet(S)
                                 /\ Cardinality(S) \in Nat
                                 /\ Cardinality(S) <= MaxPackets
    BY <1>1, FS_Subset, FS_CardinalityType
  <1> QED BY <1>2, <1>3, <1>4 DEF CountsBounded

\* Accepting one packet, in terms of the sets that are counted.
LEMMA CountStep ==
  ASSUME CountInv, TypeOK', NEW iv \in Start + 1 .. encrypt_iv, Accept(iv)
  PROVE  /\ iv \notin Got
         /\ Got' = Got \cup {iv}
         /\ decrypt_iv' = IF iv > decrypt_iv THEN iv ELSE decrypt_iv
         /\ uiGood' = Cardinality(Got)'
         /\ uiLost' = Cardinality(Missing)'
  <1>0. TypeOK /\ IInv /\ Accepts(iv)
    BY DEF CountInv, IInv, Accept
  <1>1. iv \in IVs /\ iv \in Nat /\ decrypt_iv \in Nat /\ iv > Start /\ Start \in Nat
    BY <1>0, CryptAssumption DEF TypeOK, IVs
  <1>2. accepted' = [accepted EXCEPT ![iv] = @ + 1] /\ accepted \in [IVs -> Nat]
    BY <1>0 DEF Accept, TypeOK
  <1>3. accepted[iv] = 0
    BY <1>0, FreshAccepted
  <1>4. iv \notin Got
    BY <1>1, <1>3 DEF Got
  <1>5. Got' = Got \cup {iv}
    BY <1>1, <1>2, <1>3 DEF Got
  <1>6. decrypt_iv' = IF iv > decrypt_iv THEN iv ELSE decrypt_iv
    BY <1>0, <1>1, AcceptCases DEF Accept
  <1>7. Cardinality(Got)' = Cardinality(Got) + 1
    <2>1. Cardinality(Got \cup {iv}) = Cardinality(Got) + 1
      BY <1>0, <1>4, Finite, FS_AddElement DEF CountsBounded
    <2> QED BY <2>1, <1>5
  <1>8. CountsBounded'
    BY Finite, PTL
  <1>9. uiGood' = Cardinality(Got)'
    <2>1. uiGood' = UAdd(uiGood, 1) /\ uiGood = Cardinality(Got)
      BY DEF Accept, CountInv
    <2>2. Cardinality(Got) \in Nat
      BY <1>0, Finite DEF CountsBounded
    <2> QED BY <2>1, <2>2, <1>7, <1>8, CryptAssumption DEF UAdd, CountsBounded
  <1>10. uiLost' = UAdd(uiLost, LostByAccepting(iv)) /\ uiLost = Cardinality(Missing)
    BY DEF Accept, CountInv
  <1>11. CASE IsLate(Byte0(iv))
    <2>1. iv < decrypt_iv /\ decrypt_iv' = decrypt_iv
      BY <1>0, <1>1, <1>11, AcceptCases DEF Accept
    <2>2. iv \in Missing /\ Missing' = Missing \ {iv}
      BY <2>1, <1>1, <1>4, <1>5 DEF Missing
    <2>3. Cardinality(Missing)' = Cardinality(Missing) - 1
      <3>1. Cardinality(Missing \ {iv}) = Cardinality(Missing) - 1
        BY <1>0, <2>2, Finite, FS_RemoveElement DEF CountsBounded
      <3> QED BY <3>1, <2>2
    <2>4. LostByAccepting(iv) = -1
      BY <1>11 DEF LostByAccepting
    <2>5. Cardinality(Missing) \in Nat
      BY <1>0, Finite DEF CountsBounded
    <2>6. uiLost' = Cardinality(Missing)'
      BY <2>3, <2>4, <2>5, <1>8, <1>10, CryptAssumption DEF UAdd, CountsBounded
    <2> QED BY <1>4, <1>5, <1>6, <1>9, <2>6
  <1>12. CASE ~IsLate(Byte0(iv))
    <2> DEFINE gap == decrypt_iv + 1 .. iv - 1
    <2>1. iv > decrypt_iv /\ decrypt_iv' = iv
      BY <1>0, <1>1, <1>12, AcceptCases DEF Accept
    <2>2. \A x \in Got : x <= decrypt_iv
      BY <1>0 DEF IInv, GotBelow, Got
    <2>3. Missing' = Missing \cup gap
      <3>1. decrypt_iv >= Start
        BY <1>0, CryptAssumption DEF TypeOK
      <3>2. Start + 1 .. iv = (Start + 1 .. decrypt_iv) \cup gap \cup {iv}
        BY <2>1, <3>1, <1>1
      <3>3. \A x \in gap : x \notin Got
        BY <2>2, <1>1
      <3>4. iv \notin Start + 1 .. decrypt_iv /\ iv \notin gap
        BY <2>1, <1>1
      <3> QED BY <2>1, <1>5, <3>2, <3>3, <3>4 DEF Missing
    <2>4. Missing \cap gap = {}
      BY <1>1 DEF Missing
    <2>5. IsFiniteSet(gap) /\ Cardinality(gap) = iv - decrypt_iv - 1
      <3>1. decrypt_iv + 1 \in Int /\ iv - 1 \in Int
        BY <1>1
      <3>2. /\ IsFiniteSet(gap)
            /\ Cardinality(gap) = IF decrypt_iv + 1 > iv - 1 THEN 0
                                  ELSE (iv - 1) - (decrypt_iv + 1) + 1
        BY <3>1, FS_Interval
      <3> HIDE DEF gap
      <3> QED BY <3>2, <2>1, <1>1
    <2>6. Cardinality(Missing)' = Cardinality(Missing) + (iv - decrypt_iv - 1)
      <3> HIDE DEF gap
      <3>1. IsFiniteSet(Missing) /\ Cardinality(Missing) \in Nat
        BY <1>0, Finite DEF CountsBounded
      <3>2. Cardinality(Missing \cup gap)
              = Cardinality(Missing) + Cardinality(gap) - Cardinality(Missing \cap gap)
        BY <3>1, <2>5, FS_Union
      <3>3. Cardinality(Missing \cap gap) = 0
        BY <2>4, FS_EmptySet
      <3> QED BY <2>3, <2>5, <3>1, <3>2, <3>3, <1>1
    <2>7. LostByAccepting(iv) = iv - decrypt_iv - 1
      BY <1>12 DEF LostByAccepting
    <2>8. Cardinality(Missing) \in Nat
      BY <1>0, Finite DEF CountsBounded
    <2>9. uiLost' = Cardinality(Missing)'
      BY <2>6, <2>7, <2>8, <1>8, <1>10, CryptAssumption DEF UAdd, CountsBounded
    <2> QED BY <1>4, <1>5, <1>6, <1>9, <2>9
  <1> QED BY <1>11, <1>12

LEMMA CountInit == Init => CountInv
  <1> SUFFICES ASSUME Init PROVE CountInv
    OBVIOUS
  <1>1. IInv
    BY InvInit
  <1>2. Got = {}
    BY DEF Init, Got
  <1>3. Missing = {}
    BY CryptAssumption DEF Init, Missing
  <1>4. Cardinality({}) = 0
    BY FS_EmptySet
  <1> QED BY <1>1, <1>2, <1>3, <1>4 DEF Init, CountInv

LEMMA CountNext == CountInv /\ [Next]_cryptVars => CountInv'
  <1> SUFFICES ASSUME CountInv, [Next]_cryptVars PROVE CountInv'
    OBVIOUS
  <1>1. IInv'
    BY InvStep DEF CountInv
  <1>2. CASE Encrypt
    BY <1>1, <1>2 DEF Encrypt, recvVars, CountInv, Got, Missing
  <1>3. ASSUME NEW iv \in Start + 1 .. encrypt_iv, Accept(iv)
        PROVE  CountInv'
    <2>1. uiGood' = Cardinality(Got)' /\ uiLost' = Cardinality(Missing)'
      BY <1>1, <1>3, CountStep DEF IInv
    <2> QED BY <1>1, <2>1 DEF CountInv
  <1>4. CASE UNCHANGED cryptVars
    BY <1>1, <1>4 DEF cryptVars, recvVars, CountInv, Got, Missing
  <1> QED BY <1>2, <1>3, <1>4 DEF Next, Decrypt, Reject

(* uiLost is exact at every moment: it never underflows, and late packets    *)
(* are taken off it exactly once.                                            *)
THEOREM LostIsExact == Spec => []LostExact
  <1>1. CountInv => LostExact
    BY DEF CountInv, Missing, LostExact
  <1> QED BY <1>1, CountInit, CountNext, PTL DEF Spec

(* The receiver implements the stream without repetition of VoiceStream.     *)
THEOREM ImplementsStream == Spec => StreamSpec
  <1>1. Init => Stream!Init
    <2> SUFFICES ASSUME Init PROVE Stream!Init
      OBVIOUS
    <2>1. Got = {}
      BY DEF Init, Got
    <2> QED BY <2>1, CryptAssumption DEF Init, Stream!Init
  <1>2. CountInv /\ CountInv' /\ [Next]_cryptVars => [Stream!Next]_(Stream!streamVars)
    <2> SUFFICES ASSUME CountInv, CountInv', [Next]_cryptVars
                 PROVE  [Stream!Next]_(Stream!streamVars)
      OBVIOUS
    <2>1. CASE Encrypt
      <3>1. Got' = Got
        BY <2>1 DEF Encrypt, recvVars, Got
      <3>2. Stream!Send
        BY <2>1, <3>1 DEF Encrypt, recvVars, Stream!Send
      <3> QED BY <3>2 DEF Stream!Next
    <2>2. ASSUME NEW iv \in Start + 1 .. encrypt_iv, Accept(iv)
          PROVE  Stream!Next
      <3>1. /\ iv \notin Got
            /\ Got' = Got \cup {iv}
            /\ decrypt_iv' = IF iv > decrypt_iv THEN iv ELSE decrypt_iv
            /\ uiGood' = Cardinality(Got)'
            /\ uiLost' = Cardinality(Missing)'
        BY <2>2, CountStep DEF CountInv, IInv
      <3>2. encrypt_iv' = encrypt_iv
        BY <2>2 DEF Accept
      <3>3. uiLost' = Cardinality((Start + 1 .. decrypt_iv') \ Got')
        BY <3>1 DEF Missing
      <3>4. uiGood' = Cardinality(Got')
        BY <3>1
      <3>5. \A S : Stream!Cardinality(S) = Cardinality(S)
        BY DEF Cardinality, Stream!Cardinality
      <3>6. Stream!Receive(iv)
        BY <3>1, <3>2, <3>3, <3>4, <3>5 DEF Stream!Receive
      <3> QED BY <3>6 DEF Stream!Next
    <2>3. CASE UNCHANGED cryptVars
      BY <2>3 DEF cryptVars, recvVars, Stream!streamVars, Got
    <2> QED BY <2>1, <2>2, <2>3 DEF Next, Decrypt, Reject
  <1> QED BY <1>1, <1>2, CountInit, CountNext, PTL DEF Spec, StreamSpec, Stream!Spec

-----------------------------------------------------------------------------
(* Resynchronisation: any number of answers under way                        *)

\* Answers carry vectors the sender has been at, older ones first.
Answers ==
    /\ nonces \in Seq(Nat)
    /\ \A i \in DOMAIN nonces : nonces[i] \in Start .. encrypt_iv
    /\ \A i, j \in DOMAIN nonces : i <= j => nonces[i] <= nonces[j]

\* Accepted once more than there were answers, that is, since the last of them.
Recent(iv) == accepted[iv] > uiResync

\* What is recent is not above the receiver's vector, and in its window it is
\* in the history.
RecentBelow == \A iv \in IVs : Recent(iv) => iv <= decrypt_iv
RecentCovered ==
    \A iv \in IVs : Recent(iv) /\ iv + Window > decrypt_iv
                      => decrypt_history[Byte0(iv)] = Byte1(iv)

SyncInv == TypeOK /\ uiResync \in Nat /\ Answers /\ RecentBelow /\ RecentCovered
             /\ RepeatsPerResync

-----------------------------------------------------------------------------
\* A packet that decrypt accepts is not recent.
LEMMA NotRecent ==
  ASSUME SyncInv, NEW iv \in Start + 1 .. encrypt_iv, Accepts(iv)
  PROVE  accepted[iv] <= uiResync
  <1>1. iv \in IVs /\ iv \in Nat /\ decrypt_iv \in Nat
    BY CryptAssumption DEF SyncInv, TypeOK, IVs
  <1>2. \/ iv + Window > decrypt_iv /\ decrypt_history[Byte0(iv)] # Byte1(iv)
        \/ iv > decrypt_iv
    BY AcceptCases DEF SyncInv
  <1>3. Recent(iv) => iv <= decrypt_iv
    BY <1>1 DEF SyncInv, RecentBelow
  <1>4. Recent(iv) /\ iv + Window > decrypt_iv => decrypt_history[Byte0(iv)] = Byte1(iv)
    BY <1>1 DEF SyncInv, RecentCovered
  <1>5. accepted[iv] \in Nat /\ uiResync \in Nat
    BY <1>1 DEF SyncInv, TypeOK
  <1> QED BY <1>1, <1>2, <1>3, <1>4, <1>5 DEF Recent

\* Nothing has been accepted or answered at first.
LEMMA SyncInitInv == SyncInit => SyncInv
  <1> SUFFICES ASSUME SyncInit PROVE SyncInv
    OBVIOUS
  <1>1. TypeOK
    BY TypeInit DEF SyncInit
  <1>2. nonces = <<>> /\ uiResync = 0
    BY DEF SyncInit
  <1>3. Answers
    BY <1>2 DEF Answers
  <1>4. \A iv \in IVs : accepted[iv] = 0
    BY DEF SyncInit, Init
  <1> QED BY <1>1, <1>2, <1>3, <1>4
          DEF SyncInv, Recent, RecentBelow, RecentCovered, RepeatsPerResync

\* The sender goes on.
LEMMA StepEncrypt ==
  ASSUME SyncInv, Encrypt, UNCHANGED syncVars
  PROVE  SyncInv'
  <1>1. TypeOK'
    BY TypeStep DEF SyncInv, Next
  <1>2. /\ encrypt_iv' = encrypt_iv + 1 /\ encrypt_iv \in Nat /\ Start \in Nat
        /\ UNCHANGED <<decrypt_iv, decrypt_history, accepted, nonces, uiResync>>
    BY CryptAssumption DEF Encrypt, recvVars, syncVars, SyncInv, TypeOK
  <1>3. Answers'
    BY <1>2 DEF SyncInv, Answers
  <1> QED BY <1>1, <1>2, <1>3
          DEF SyncInv, Recent, RecentBelow, RecentCovered, RepeatsPerResync

\* The receiver accepts a packet.
LEMMA StepDecrypt ==
  ASSUME SyncInv, NEW iv \in Start + 1 .. encrypt_iv, Accept(iv), UNCHANGED syncVars
  PROVE  SyncInv'
  <1> USE DEF SyncInv
  <1>0. TypeOK'
    BY TypeStep DEF Next, Decrypt
  <1>1. /\ iv \in IVs /\ iv \in Nat /\ decrypt_iv \in Nat /\ decrypt_iv' \in Nat
        /\ \A x \in IVs : x \in Nat
    BY <1>0, CryptAssumption DEF TypeOK, IVs
  <1>2. /\ accepted' = [accepted EXCEPT ![iv] = @ + 1]
        /\ decrypt_history' = [decrypt_history EXCEPT ![Byte0(iv)] = Byte1(iv)]
        /\ decrypt_iv' = IF IsLate(Byte0(iv)) THEN decrypt_iv ELSE iv
        /\ Accepts(iv)
        /\ UNCHANGED <<encrypt_iv, nonces, uiResync>>
    BY DEF Accept, syncVars
  <1>3. \/ /\ IsLate(Byte0(iv))
           /\ iv < decrypt_iv /\ iv + Window > decrypt_iv
        \/ ~IsLate(Byte0(iv)) /\ iv > decrypt_iv
    BY <1>2, AcceptCases
  <1>4. accepted[iv] <= uiResync /\ accepted[iv] \in Nat
    BY <1>1, <1>2, NotRecent DEF TypeOK
  <1>5. iv <= decrypt_iv' /\ decrypt_iv <= decrypt_iv' /\ iv + Window > decrypt_iv'
    BY <1>1, <1>2, <1>3, CryptAssumption
  <1>6. \A x \in IVs : x # iv => accepted'[x] = accepted[x]
    BY <1>1, <1>2 DEF TypeOK
  <1>7. accepted'[iv] = accepted[iv] + 1
    BY <1>1, <1>2 DEF TypeOK
  <1>8. Answers'
    BY <1>2 DEF Answers
  <1>9. RepeatsPerResync'
    BY <1>2, <1>4, <1>6, <1>7 DEF RepeatsPerResync
  <1>10. RecentBelow'
    <2> SUFFICES ASSUME NEW x \in IVs, accepted'[x] > uiResync' PROVE x <= decrypt_iv'
      BY DEF RecentBelow, Recent
    <2>1. CASE x = iv
      BY <2>1, <1>5
    <2>2. CASE x # iv
      <3>1. x <= decrypt_iv
        BY <2>2, <1>2, <1>6 DEF RecentBelow, Recent
      <3> QED BY <3>1, <1>1, <1>5
    <2> QED BY <2>1, <2>2
  <1>11. RecentCovered'
    <2> SUFFICES ASSUME NEW x \in IVs, accepted'[x] > uiResync', x + Window > decrypt_iv'
                 PROVE  decrypt_history'[Byte0(x)] = Byte1(x)
      BY DEF RecentCovered, Recent
    <2>1. Byte0(x) \in 0 .. M - 1 /\ Byte0(iv) \in 0 .. M - 1
      BY <1>1, Digits
    <2>2. CASE x = iv
      BY <1>2, <2>1, <2>2 DEF TypeOK
    <2>3. CASE x # iv
      <3>1. Window \in Nat /\ Window < M /\ x \in Nat /\ M \in Nat
        BY MType, CryptAssumption, <1>1
      <3>2. Recent(x)
        BY <2>3, <1>2, <1>6 DEF Recent
      <3>3. x <= decrypt_iv
        BY <3>2 DEF RecentBelow
      <3>4. x + Window > decrypt_iv
        BY <3>1, <1>1, <1>5
      <3>5. decrypt_history[Byte0(x)] = Byte1(x)
        BY <3>2, <3>4 DEF RecentCovered
      <3>6. x - iv < M /\ iv - x < M
        BY <3>1, <3>3, <1>1, <1>5
      <3>7. Byte0(x) # Byte0(iv)
        BY <3>1, <3>6, <2>3, <1>1, SameSlot
      <3> QED BY <3>5, <3>7, <2>1, <1>2 DEF TypeOK
    <2> QED BY <2>2, <2>3
  <1> QED BY <1>0, <1>2, <1>8, <1>9, <1>10, <1>11

\* The sender answers with the vector it is at, not below those in its answers.
LEMMA StepAnswer ==
  ASSUME SyncInv, AnswerSync
  PROVE  SyncInv'
  <1>1. /\ nonces' = Append(nonces, encrypt_iv) /\ uiResync' = uiResync
        /\ UNCHANGED cryptVars
    BY DEF AnswerSync
  <1>2. TypeOK' /\ RecentBelow' /\ RecentCovered' /\ RepeatsPerResync'
    BY <1>1 DEF SyncInv, cryptVars, recvVars, TypeOK, Recent, RecentBelow, RecentCovered,
                RepeatsPerResync
  <1>3. encrypt_iv' = encrypt_iv /\ encrypt_iv \in Nat /\ Start <= encrypt_iv /\ Start \in Nat
    BY <1>1, CryptAssumption DEF cryptVars, SyncInv, TypeOK
  <1>4. nonces \in Seq(Nat)
    BY DEF SyncInv, Answers
  <1>5. /\ nonces' \in Seq(Nat) /\ Len(nonces') = Len(nonces) + 1 /\ Len(nonces) \in Nat
        /\ DOMAIN nonces = 1 .. Len(nonces) /\ DOMAIN nonces' = 1 .. Len(nonces) + 1
        /\ \A i \in 1 .. Len(nonces) : nonces'[i] = nonces[i]
        /\ nonces'[Len(nonces) + 1] = encrypt_iv
    BY <1>1, <1>3, <1>4
  <1>6. \A i \in DOMAIN nonces : nonces[i] \in Start .. encrypt_iv
    BY DEF SyncInv, Answers
  <1>7. \A i, j \in DOMAIN nonces : i <= j => nonces[i] <= nonces[j]
    BY DEF SyncInv, Answers
  <1>8. \A i \in DOMAIN nonces' : nonces'[i] \in Start .. encrypt_iv
    BY <1>3, <1>5, <1>6
  <1>9. \A i, j \in DOMAIN nonces' : i <= j => nonces'[i] <= nonces'[j]
    <2> SUFFICES ASSUME NEW i \in DOMAIN nonces', NEW j \in DOMAIN nonces', i <= j
                 PROVE  nonces'[i] <= nonces'[j]
      OBVIOUS
    <2>1. CASE j = Len(nonces) + 1
      BY <2>1, <1>3, <1>5, <1>8
    <2>2. CASE j \in DOMAIN nonces
      <3>1. i \in DOMAIN nonces
        BY <2>2, <1>5
      <3> QED BY <3>1, <2>2, <1>5, <1>7
    <2> QED BY <2>1, <2>2, <1>5
  <1>10. Answers'
    BY <1>3, <1>5, <1>8, <1>9 DEF Answers
  <1> QED BY <1>1, <1>2, <1>10 DEF SyncInv

\* The receiver moves to the oldest answer: nothing it accepted is recent then.
LEMMA StepApply ==
  ASSUME SyncInv, ApplySync
  PROVE  SyncInv'
  <1>1. /\ nonces # <<>> /\ nonces' = Tail(nonces) /\ decrypt_iv' = Head(nonces)
        /\ uiResync' = uiResync + 1
        /\ UNCHANGED <<encrypt_iv, decrypt_history, uiGood, uiLate, uiLost, accepted>>
    BY DEF ApplySync, TakeNonce
  <1>2. nonces \in Seq(Nat) /\ uiResync \in Nat
    BY DEF SyncInv, Answers
  <1>3. /\ Len(nonces) \in Nat /\ Len(nonces) >= 1 /\ Head(nonces) = nonces[1]
        /\ DOMAIN nonces = 1 .. Len(nonces)
        /\ nonces' \in Seq(Nat) /\ DOMAIN nonces' = 1 .. Len(nonces) - 1
        /\ \A i \in 1 .. Len(nonces) - 1 : nonces'[i] = nonces[i + 1]
    BY <1>1, <1>2
  <1>4. \A i \in DOMAIN nonces : nonces[i] \in Start .. encrypt_iv
    BY DEF SyncInv, Answers
  <1>5. \A i, j \in DOMAIN nonces : i <= j => nonces[i] <= nonces[j]
    BY DEF SyncInv, Answers
  <1>6. \A i \in DOMAIN nonces' : i + 1 \in DOMAIN nonces /\ nonces'[i] = nonces[i + 1]
    BY <1>3
  <1>7. Answers'
    <2>1. \A i \in DOMAIN nonces' : nonces'[i] \in Start .. encrypt_iv
      BY <1>4, <1>6
    <2>2. \A i, j \in DOMAIN nonces' : i <= j => nonces'[i] <= nonces'[j]
      <3> SUFFICES ASSUME NEW i \in DOMAIN nonces', NEW j \in DOMAIN nonces', i <= j
                   PROVE  nonces'[i] <= nonces'[j]
        OBVIOUS
      <3>1. i + 1 <= j + 1
        BY <1>3
      <3> QED BY <3>1, <1>5, <1>6
    <2> QED BY <2>1, <2>2, <1>1, <1>3 DEF Answers
  <1>8. TypeOK'
    <2>1. decrypt_iv' \in Start .. encrypt_iv
      BY <1>1, <1>3, <1>4
    <2> QED BY <2>1, <1>1 DEF SyncInv, TypeOK
  <1>9. \A iv \in IVs : accepted[iv] <= uiResync + 1 /\ accepted[iv] \in Nat
    BY DEF SyncInv, RepeatsPerResync, TypeOK
  <1>10. \A iv \in IVs : ~(accepted'[iv] > uiResync') /\ accepted'[iv] <= 1 + uiResync'
    BY <1>1, <1>2, <1>9
  <1> QED BY <1>1, <1>2, <1>7, <1>8, <1>10
          DEF SyncInv, Recent, RecentBelow, RecentCovered, RepeatsPerResync

\* Each kind of step keeps the invariant.
LEMMA SyncStep == SyncInv /\ [SyncNext]_vars => SyncInv'
  <1> SUFFICES ASSUME SyncInv, [SyncNext]_vars PROVE SyncInv'
    OBVIOUS
  <1>1. CASE UNCHANGED <<cryptVars, nonces, uiResync>>
    BY <1>1 DEF cryptVars, recvVars, SyncInv, TypeOK, Answers, Recent, RecentBelow,
                RecentCovered, RepeatsPerResync
  <1>2. CASE Voice
    <2>1. CASE Encrypt
      BY <1>2, <2>1, StepEncrypt DEF Voice
    <2>2. ASSUME NEW iv \in Start + 1 .. encrypt_iv, Accept(iv) PROVE SyncInv'
      BY <1>2, <2>2, StepDecrypt DEF Voice
    <2>3. ASSUME NEW iv \in Start + 1 .. encrypt_iv, Reject(iv) PROVE SyncInv'
      BY <1>1, <1>2, <2>3 DEF Voice, Reject, syncVars
    <2> QED BY <1>2, <2>1, <2>2, <2>3 DEF Voice, Next, Decrypt
  <1>3. CASE RequestSync
    BY <1>1, <1>3 DEF RequestSync, Reject
  <1>4. CASE AnswerSync
    BY <1>4, StepAnswer
  <1>5. CASE ApplySync
    BY <1>5, StepApply
  <1>6. CASE UNCHANGED vars
    BY <1>1, <1>6 DEF vars, syncVars
  <1> QED BY <1>2, <1>3, <1>4, <1>5, <1>6 DEF SyncNext

-----------------------------------------------------------------------------
(* Every answer lets the receiver accept a packet once more and no more than *)
(* once, however answers and packets overtake each other.                    *)
THEOREM RepeatsBounded == SyncSpec => []RepeatsPerResync
  <1>1. SyncInv => RepeatsPerResync
    BY DEF SyncInv
  <1> QED BY <1>1, SyncInitInv, SyncStep, PTL DEF SyncSpec

(* The receiver stays at or behind the sender, also when it applies an old   *)
(* answer, and answers arrive in the order of their vectors.                 *)
THEOREM StaysBehind == SyncSpec => []NeverAheadOfSender
  <1>1. SyncInv => NeverAheadOfSender
    <2> SUFFICES ASSUME SyncInv PROVE NeverAheadOfSender
      OBVIOUS
    <2>1. decrypt_iv <= encrypt_iv
      BY CryptAssumption DEF SyncInv, TypeOK
    <2>2. Len(nonces) \in Nat /\ DOMAIN nonces = 1 .. Len(nonces)
      BY DEF SyncInv, Answers
    <2>3. \A i, j \in DOMAIN nonces : i <= j => nonces[i] <= nonces[j]
      BY DEF SyncInv, Answers
    <2>4. \A i \in 1 .. Len(nonces) - 1 : i \in DOMAIN nonces /\ i + 1 \in DOMAIN nonces /\ i <= i + 1
      BY <2>2
    <2> QED BY <2>1, <2>3, <2>4 DEF NeverAheadOfSender
  <1> QED BY <1>1, SyncInitInv, SyncStep, PTL DEF SyncSpec
=============================================================================
