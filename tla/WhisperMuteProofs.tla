------------------------- MODULE WhisperMuteProofs --------------------------
(***************************************************************************)
(* For every set of requests, every set of boxes the user clicks and any   *)
(* number of slots under way: who is deaf is muted, and once everything    *)
(* has run the mute box shows the setting.                                 *)
(***************************************************************************)
EXTENDS WhisperMute, SequenceTheorems, TLAPS

(* The settings are changed by slots only, and a slot leaves them deaf     *)
(* only if muted, whatever the boxes it finds.                             *)
LEMMA SlotMutesTheDeaf ==
    ASSUME NEW b \in Boxes, NEW box \in [Boxes -> BOOLEAN], DeafIsMuted, Slot(b, box)
    PROVE  DeafIsMuted'
<1>1. CASE MuteSlot(box)
  BY <1>1 DEF MuteSlot, DeafIsMuted
<1>2. CASE DeafSlot(box) /\ ~Deafened(box)
  BY <1>2 DEF DeafSlot, MuteSlot, Boxes, DeafIsMuted
<1>3. CASE Deafened(box)
  BY <1>3 DEF Deafened, DeafIsMuted
<1> QED BY <1>1, <1>2, <1>3 DEF Slot

-----------------------------------------------------------------------------
\* Calls come in pairs, a check and a trigger of one box; the first pair may be
\* half done.
OpBefore(left) == IF left \in {0, 2} THEN "trigger" ELSE "check"
Paired(s) ==
    /\ s \in Seq(Call) /\ Len(s) \in 0 .. 4
    /\ \A i \in 1 .. Len(s) : s[i].op = OpBefore(Len(s) - i)
    /\ \A i \in 1 .. Len(s) - 1 : s[i].op = "check" => s[i + 1].box = s[i].box

\* Each pair still to come will post a slot, and there is room for it.
RoomFor ==
    /\ Len(calls) \in {1, 2} => Len(posted) + 1 <= MaxPosted
    /\ Len(calls) \in {3, 4} => Len(posted) + 2 <= MaxPosted

IInv == TypeOK /\ Paired(calls) /\ RoomFor

(* What the types ask of paired calls.                                     *)
LEMMA PairedType == ASSUME NEW s, Paired(s) PROVE s \in Seq(Call) /\ Len(s) <= 4
<1>1. s \in Seq(Call)
  BY DEF Paired
<1>2. Len(s) \in 0 .. 4
  BY DEF Paired
<1>3. \A n : n \in 0 .. 4 => n <= 4
  OBVIOUS
<1> QED BY <1>1, <1>2, <1>3, Zenon

(* One switch is one pair, and two pairs after each other are paired.      *)
LEMMA SwitchPaired ==
    ASSUME NEW box \in Boxes, NEW on \in BOOLEAN
    PROVE  Paired(Switch(box, on)) /\ Len(Switch(box, on)) = 2
<1> DEFINE check == [op |-> "check", box |-> box, on |-> ~on]
           trigger == [op |-> "trigger", box |-> box, on |-> on]
<1>1. check \in Call /\ trigger \in Call
  BY DEF Call
<1>2. check.op = "check" /\ trigger.op = "trigger" /\ check.box = trigger.box
  OBVIOUS
<1>3. Switch(box, on) = <<check, trigger>>
  BY DEF Switch
<1> HIDE DEF check, trigger
<1> QED BY <1>1, <1>2, <1>3 DEF Paired, OpBefore

LEMMA TwoPairs ==
    ASSUME NEW s, NEW t, Paired(s), Paired(t), Len(s) = 2, Len(t) = 2
    PROVE  Paired(s \o t) /\ Len(s \o t) = 4
<1>1. s \in Seq(Call) /\ t \in Seq(Call)
  BY DEF Paired
<1>2. /\ s \o t \in Seq(Call) /\ Len(s \o t) = 4
      /\ \A i \in 1 .. 4 : (s \o t)[i] = IF i <= 2 THEN s[i] ELSE t[i - 2]
  <2>1. /\ s \o t \in Seq(Call) /\ Len(s \o t) = Len(s) + Len(t)
        /\ \A i \in 1 .. Len(s) + Len(t) : (s \o t)[i] =
               IF i <= Len(s) THEN s[i] ELSE t[i - Len(s)]
    BY <1>1, ConcatProperties
  <2>2. Len(s) + Len(t) = 4
    OBVIOUS
  <2> QED BY <2>1, <2>2
<1>3. \A i \in 1 .. 2 : s[i].op = OpBefore(2 - i) /\ t[i].op = OpBefore(2 - i)
  BY DEF Paired
<1>4. ASSUME NEW i \in 1 .. 4 PROVE (s \o t)[i].op = OpBefore(4 - i)
  <2>1. CASE i \in 1 .. 2
    BY <1>2, <1>3, <2>1 DEF OpBefore
  <2>2. CASE i \in 3 .. 4
    BY <1>2, <1>3, <2>2 DEF OpBefore
  <2>3. i \in 1 .. 2 \/ i \in 3 .. 4
    BY <1>4
  <2> QED BY <2>1, <2>2, <2>3
<1>5. ASSUME NEW i \in 1 .. 3, (s \o t)[i].op = "check"
      PROVE  (s \o t)[i + 1].box = (s \o t)[i].box
  <2>1. CASE i = 1
    <3>1. s[1].op = "check" => s[2].box = s[1].box
      BY DEF Paired
    <3> QED BY <1>2, <1>5, <2>1, <3>1
  <2>2. CASE i = 2
    BY <1>4, <1>5, <2>2 DEF OpBefore
  <2>3. CASE i = 3
    <3>1. t[1].op = "check" => t[2].box = t[1].box
      BY DEF Paired
    <3> QED BY <1>2, <1>5, <2>3, <3>1
  <2>4. i = 1 \/ i = 2 \/ i = 3
    BY <1>5
  <2> QED BY <2>1, <2>2, <2>3, <2>4
<1>6. \A i \in 1 .. 3 : (s \o t)[i].op = "check" => (s \o t)[i + 1].box = (s \o t)[i].box
  BY <1>5
<1> QED BY <1>2, <1>4, <1>6 DEF Paired

LEMMA ScriptPaired ==
    ASSUME NEW kind \in AllKinds
    PROVE  Paired(Script(kind)) /\ Len(Script(kind)) \in {0, 2, 4}
<1>1. Paired(<<>>) /\ Len(<<>>) = 0
  BY DEF Paired
<1>2. \A on \in BOOLEAN : /\ Paired(Switch("mute", on)) /\ Len(Switch("mute", on)) = 2
                          /\ Paired(Switch("deaf", on)) /\ Len(Switch("deaf", on)) = 2
  BY SwitchPaired DEF Boxes
<1>3. Paired(MicOffAgain) /\ Len(MicOffAgain) \in {0, 2}
  BY <1>1, <1>2 DEF MicOffAgain
<1>4. Paired(OpenUnlessMuted) /\ Len(OpenUnlessMuted) \in {0, 2}
  BY <1>1, <1>2 DEF OpenUnlessMuted
<1>5. Paired(Switch("deaf", FALSE) \o MicOffAgain)
      /\ Len(Switch("deaf", FALSE) \o MicOffAgain) \in {2, 4}
  <2>1. CASE localMicMuted
    <3>1. MicOffAgain = Switch("mute", TRUE)
      BY <2>1 DEF MicOffAgain
    <3> QED BY <1>2, <3>1, TwoPairs
  <2>2. CASE ~localMicMuted
    <3>1. MicOffAgain = <<>>
      BY <2>2 DEF MicOffAgain
    <3>2. Switch("deaf", FALSE) \in Seq(Call)
      BY <1>2 DEF Paired
    <3>3. \A s \in Seq(Call) : s \o <<>> = s
      OBVIOUS
    <3> QED BY <1>2, <3>1, <3>2, <3>3
  <2> QED BY <2>1, <2>2
<1>6. CASE kind \in {"MicOff", "Disconnect"}
  <2>1. Script(kind) = Switch("mute", TRUE)
    BY <1>6 DEF Script
  <2> QED BY <1>2, <2>1
<1>7. CASE kind = "MicOn"
  <2>1. Script(kind) = Switch("mute", FALSE)
    BY <1>7 DEF Script
  <2> QED BY <1>2, <2>1
<1>8. CASE kind = "SpeakerOff"
  <2>1. Script(kind) = Switch("deaf", TRUE)
    BY <1>8 DEF Script
  <2> QED BY <1>2, <2>1
<1>9. CASE kind = "SpeakerOn"
  <2>1. Script(kind) = Switch("deaf", FALSE) \o MicOffAgain
    BY <1>9 DEF Script
  <2> QED BY <1>5, <2>1
<1>10. CASE kind = "Volume"
  <2>1. Script(kind) = MicOffAgain
    BY <1>10 DEF Script
  <2> QED BY <1>3, <2>1
<1>11. CASE kind = "Create"
  <2>1. Script(kind) = OpenUnlessMuted
    BY <1>11 DEF Script
  <2> QED BY <1>4, <2>1
<1> QED BY <1>6, <1>7, <1>8, <1>9, <1>10, <1>11 DEF AllKinds

(* Making the first call leaves the rest paired, and tells how many        *)
(* pairs are left.                                                         *)
LEMMA FirstCall ==
    ASSUME NEW s, Paired(s), s # <<>>
    PROVE  /\ Head(s) \in Call /\ Paired(Tail(s)) /\ Len(Tail(s)) = Len(s) - 1
           /\ Head(s).op = "trigger" <=> Len(s) \in {1, 3}
           /\ Head(s).op = "check" =>
                 /\ Tail(s) # <<>> /\ Head(Tail(s)).box = Head(s).box
                 /\ Head(Tail(s)).op = "trigger"
<1>1. s \in Seq(Call) /\ Len(s) \in 1 .. 4
  BY DEF Paired
<1>2. Head(s) = s[1] /\ Head(s) \in Call
  BY <1>1
<1>3. Tail(s) \in Seq(Call) /\ Len(Tail(s)) = Len(s) - 1
  BY <1>1
<1>4. ASSUME NEW i \in 1 .. Len(Tail(s)) PROVE Tail(s)[i].op = OpBefore(Len(Tail(s)) - i)
  <2>1. Tail(s)[i] = s[i + 1] /\ i + 1 \in 1 .. Len(s)
    BY <1>1, <1>3
  <2>2. s[i + 1].op = OpBefore(Len(s) - (i + 1))
    BY <2>1 DEF Paired
  <2>3. Len(s) - (i + 1) = Len(Tail(s)) - i
    BY <1>1, <1>3
  <2> QED BY <2>1, <2>2, <2>3
<1>5. Head(s).op = "trigger" <=> Len(s) \in {1, 3}
  <2>1. s[1].op = OpBefore(Len(s) - 1)
    BY <1>1 DEF Paired
  <2> QED BY <1>1, <1>2, <2>1 DEF OpBefore
<1>6. Paired(Tail(s))
  <2> DEFINE rest == Tail(s)
  <2>1. /\ rest \in Seq(Call) /\ Len(rest) \in 0 .. 4
        /\ \A i \in 1 .. Len(rest) : rest[i].op = OpBefore(Len(rest) - i)
    BY <1>1, <1>3, <1>4
  <2>2. ASSUME NEW i \in 1 .. Len(rest) - 1, rest[i].op = "check"
        PROVE  rest[i + 1].box = rest[i].box
    <3>1. rest[i] = s[i + 1] /\ rest[i + 1] = s[(i + 1) + 1]
      BY <1>1, <1>3
    <3>2. i + 1 \in 1 .. Len(s) - 1
      BY <1>1, <1>3
    <3>3. s[i + 1].op = "check" => s[(i + 1) + 1].box = s[i + 1].box
      BY <3>2 DEF Paired
    <3> QED BY <2>2, <3>1, <3>3
  <2>3. \A i \in 1 .. Len(rest) - 1 : rest[i].op = "check" => rest[i + 1].box = rest[i].box
    BY <2>2
  <2> HIDE DEF rest
  <2>4. Paired(rest)
    BY <2>1, <2>3 DEF Paired
  <2> QED BY <2>4 DEF rest
<1>7. ASSUME Head(s).op = "check"
      PROVE  /\ Tail(s) # <<>> /\ Head(Tail(s)).box = Head(s).box
             /\ Head(Tail(s)).op = "trigger"
  <2>1. Len(s) \in {2, 4}
    <3>1. Len(s) \notin {1, 3}
      BY <1>5, <1>7
    <3> QED BY <1>1, <3>1
  <2>2. Tail(s) # <<>> /\ Head(Tail(s)) = s[2]
    <3>1. Len(Tail(s)) \in {1, 3}
      BY <1>3, <2>1
    <3>2. Tail(s) # <<>>
      <4>1. Len(Tail(s)) # 0
        BY <3>1
      <4> QED BY <1>3, <4>1, EmptySeq, Zenon
    <3>3. Head(Tail(s)) = Tail(s)[1]
      BY <1>3, <3>2
    <3>4. Tail(s)[1] = s[2]
      BY <1>1, <1>3, <3>1
    <3> QED BY <3>2, <3>3, <3>4
  <2>3. s[2].box = s[1].box
    BY <1>2, <1>7, <2>1 DEF Paired
  <2>4. s[2].op = OpBefore(Len(s) - 2)
    BY <2>1 DEF Paired
  <2>5. Len(s) - 2 \in {0, 2}
    BY <2>1
  <2> QED BY <1>2, <2>2, <2>3, <2>4, <2>5 DEF OpBefore
<1> QED BY <1>2, <1>3, <1>5, <1>6, <1>7

LEMMA TypeInit == Init => TypeOK
<1> SUFFICES ASSUME Init PROVE TypeOK
  OBVIOUS
<1>1. checked \in [Boxes -> BOOLEAN]
  BY DEF Init
<1>2. calls \in Seq(Call) /\ Len(calls) <= 4
  BY DEF Init
<1>3. posted \in Seq(Boxes) /\ Len(posted) <= MaxPosted
  BY MuteAssumption DEF Init
<1>4. bAutoUnmute \in BOOLEAN /\ localMicMuted \in BOOLEAN /\ userMute \in BOOLEAN
  BY DEF Init
<1> QED BY <1>1, <1>2, <1>3, <1>4 DEF Init, TypeOK

(* A slot changes boxes and settings, and keeps both of their types.       *)
LEMMA SlotType ==
    ASSUME TypeOK, NEW b \in Boxes, NEW box \in [Boxes -> BOOLEAN], Slot(b, box)
    PROVE  /\ checked' \in [Boxes -> BOOLEAN]
           /\ bMute' \in BOOLEAN /\ bDeaf' \in BOOLEAN /\ bAutoUnmute' \in BOOLEAN
<1> USE DEF Boxes
<1>1. ASSUME NEW any \in [Boxes -> BOOLEAN], MuteSlot(any)
      PROVE  checked' \in [Boxes -> BOOLEAN] /\ bMute' \in BOOLEAN /\ bDeaf' \in BOOLEAN
  BY <1>1, Zenon DEF MuteSlot, TypeOK
<1>2. CASE b = "mute" /\ MuteSlot(box) /\ UNCHANGED bAutoUnmute
  BY <1>1, <1>2 DEF TypeOK
<1>3. CASE ~box["deaf"] /\ bAutoUnmute
           /\ MuteSlot([x \in Boxes |-> x = "deaf"]) /\ UNCHANGED bAutoUnmute
  <2>1. [x \in Boxes |-> x = "deaf"] \in [Boxes -> BOOLEAN]
    OBVIOUS
  <2> QED BY <1>1, <1>3, <2>1 DEF TypeOK
<1>4. CASE Deafened(box)
  <2>1. checked' \in [Boxes -> BOOLEAN]
    BY <1>4, Zenon DEF Deafened, TypeOK
  <2>2. bMute' \in BOOLEAN /\ bDeaf' \in BOOLEAN /\ bAutoUnmute' \in BOOLEAN
    BY <1>4, Zenon DEF Deafened, TypeOK
  <2> QED BY <2>1, <2>2
<1> QED BY <1>2, <1>3, <1>4 DEF Slot, DeafSlot

LEMMA InvInit == Init => IInv
<1>1. Init => calls = <<>>
  BY DEF Init
<1> QED BY <1>1, TypeInit DEF IInv, Paired, RoomFor

LEMMA InvStep == IInv /\ [Next]_vars => IInv'
<1> SUFFICES ASSUME IInv, [Next]_vars PROVE IInv'
  OBVIOUS
<1> USE DEF IInv
<1>1. ASSUME NEW kind \in Kinds, Handle(kind) PROVE IInv'
  <2>1. Paired(Script(kind)) /\ Len(Script(kind)) \in {0, 2, 4}
    BY <1>1, ScriptPaired, MuteAssumption
  <2>2. Paired(calls)' /\ RoomFor'
    BY <1>1, <2>1, MuteAssumption DEF Handle, TypeOK, Paired, RoomFor
  <2>3. calls' \in Seq(Call) /\ Len(calls') <= 4
    <3>1. Paired(calls')
      BY <2>2
    <3> QED BY <3>1, PairedType
  <2>4. localMicMuted' \in BOOLEAN /\ userMute' \in BOOLEAN
    BY <1>1, Zenon DEF Handle, TypeOK
  <2> QED BY <1>1, <2>2, <2>3, <2>4 DEF Handle, TypeOK
<1>2. CASE SetChecked
  <2>1. /\ Head(calls) \in Call /\ Paired(Tail(calls)) /\ Len(Tail(calls)) = Len(calls) - 1
        /\ Len(calls) \in {2, 4}
    <3>1. Len(calls) \in 0 .. 4 /\ Head(calls).op # "trigger"
      BY <1>2 DEF SetChecked, Paired
    <3>2. Len(calls) # 0
      BY <1>2 DEF SetChecked, TypeOK
    <3> QED BY <1>2, <3>1, <3>2, FirstCall DEF SetChecked
  <2>2. checked' \in [Boxes -> BOOLEAN]
    BY <1>2, <2>1 DEF SetChecked, TypeOK, Call
  <2>3. Paired(calls)' /\ RoomFor'
    <3>1. calls' = Tail(calls) /\ posted' = posted
      BY <1>2 DEF SetChecked
    <3>2. Paired(calls')
      BY <2>1, <3>1
    <3>3. /\ Len(calls') \in {1, 3} /\ Len(calls) = Len(calls') + 1
          /\ Len(posted') = Len(posted) /\ Len(posted) \in Nat
      BY <2>1, <3>1 DEF TypeOK
    <3>4. RoomFor'
      <4>1. CASE Len(calls') = 1
        BY <3>3, <4>1, MuteAssumption DEF RoomFor
      <4>2. CASE Len(calls') = 3
        BY <3>3, <4>2, MuteAssumption DEF RoomFor
      <4> QED BY <3>3, <4>1, <4>2
    <3> QED BY <3>2, <3>4
  <2>4. calls' \in Seq(Call) /\ Len(calls') <= 4
    <3>1. Paired(calls')
      BY <2>3
    <3> QED BY <3>1, PairedType
  <2> QED BY <1>2, <2>2, <2>3, <2>4 DEF SetChecked, TypeOK
<1>3. CASE Trigger
  <2>1. /\ Head(calls) \in Call /\ Paired(Tail(calls)) /\ Len(Tail(calls)) = Len(calls) - 1
        /\ Len(calls) \in {1, 3}
    BY <1>3, FirstCall DEF Trigger
  <2>2. checked' \in [Boxes -> BOOLEAN]
    BY <1>3, <2>1 DEF Trigger, TypeOK, Call
  <2>3. posted' \in Seq(Boxes) /\ Len(posted') = Len(posted) + 1
    BY <1>3, <2>1 DEF Trigger, TypeOK, Call
  <2>4. Len(posted') <= MaxPosted /\ RoomFor' /\ Paired(calls)'
    <3>1. calls' = Tail(calls)
      BY <1>3 DEF Trigger
    <3>2. Paired(calls')
      BY <2>1, <3>1
    <3>3. Len(posted) \in Nat
      BY DEF TypeOK
    <3>4. Len(calls') \in {0, 2} /\ Len(calls) = Len(calls') + 1
      BY <2>1, <3>1
    <3>5. Len(posted') <= MaxPosted /\ RoomFor'
      <4>1. CASE Len(calls') = 0
        BY <2>3, <3>3, <3>4, <4>1, MuteAssumption DEF RoomFor
      <4>2. CASE Len(calls') = 2
        BY <2>3, <3>3, <3>4, <4>2, MuteAssumption DEF RoomFor
      <4> QED BY <3>4, <4>1, <4>2
    <3> QED BY <3>2, <3>5
  <2>5. calls' \in Seq(Call) /\ Len(calls') <= 4
    <3>1. Paired(calls')
      BY <2>4
    <3> QED BY <3>1, PairedType
  <2> QED BY <1>3, <2>2, <2>3, <2>4, <2>5 DEF Trigger, TypeOK
<1>4. CASE RunSlot
  <2>1. Head(posted) \in Boxes /\ Tail(posted) \in Seq(Boxes) /\ Len(Tail(posted)) = Len(posted) - 1
    BY <1>4 DEF RunSlot, TypeOK
  <2>2. checked \in [Boxes -> BOOLEAN]
    BY DEF TypeOK
  <2>3. Paired(calls)' /\ RoomFor' /\ Len(posted') <= MaxPosted
    BY <1>4, <2>1, MuteAssumption DEF RunSlot, TypeOK, Paired, RoomFor
  <2> QED BY <1>4, <2>1, <2>2, <2>3, SlotType DEF RunSlot, TypeOK
<1>5. ASSUME NEW b \in Clicks, Click(b) PROVE IInv'
  <2>1. b \in Boxes /\ [checked EXCEPT ![b] = ~@] \in [Boxes -> BOOLEAN]
    BY MuteAssumption DEF TypeOK
  <2>2. TypeOK'
    BY <1>5, <2>1, SlotType DEF Click, TypeOK
  <2> QED BY <1>5, <2>2 DEF Click, Paired, RoomFor
<1>6. CASE ServerMute \/ UNCHANGED vars
  <2>1. TypeOK'
    BY <1>6, Zenon DEF ServerMute, vars, TypeOK
  <2> QED BY <1>6, <2>1 DEF ServerMute, vars, Paired, RoomFor
<1> QED BY <1>1, <1>2, <1>3, <1>4, <1>5, <1>6 DEF Next

(* All variables keep their types; in particular the slots under way stay  *)
(* within their bound, because a request starts only if there is room for  *)
(* all the slots it will post.                                             *)
THEOREM TypeCorrect == Spec => []TypeOK
<1>1. IInv => TypeOK
  BY DEF IInv
<1> QED BY <1>1, InvInit, InvStep, PTL DEF Spec

-----------------------------------------------------------------------------
LEMMA MutedStep == DeafIsMuted /\ TypeOK /\ [Next]_vars => DeafIsMuted'
<1> SUFFICES ASSUME DeafIsMuted, TypeOK, [Next]_vars PROVE DeafIsMuted'
  OBVIOUS
<1>1. ASSUME NEW kind \in Kinds, Handle(kind) PROVE DeafIsMuted'
  BY <1>1 DEF Handle, DeafIsMuted
<1>2. CASE SetChecked \/ Trigger \/ ServerMute \/ UNCHANGED vars
  BY <1>2 DEF SetChecked, Trigger, ServerMute, vars, DeafIsMuted
<1>3. CASE RunSlot
  <2>1. Head(posted) \in Boxes /\ checked \in [Boxes -> BOOLEAN]
    BY <1>3 DEF RunSlot, TypeOK
  <2> QED BY <1>3, <2>1, SlotMutesTheDeaf DEF RunSlot
<1>4. ASSUME NEW b \in Clicks, Click(b) PROVE DeafIsMuted'
  <2>1. b \in Boxes /\ [checked EXCEPT ![b] = ~@] \in [Boxes -> BOOLEAN]
    BY MuteAssumption DEF TypeOK
  <2> QED BY <1>4, <2>1, SlotMutesTheDeaf DEF Click
<1> QED BY <1>1, <1>2, <1>3, <1>4 DEF Next

LEMMA MutedInit == Init => DeafIsMuted
BY DEF Init, DeafIsMuted

(* The client is never deaf with its microphone open, in whatever order    *)
(* the two threads set boxes, trigger them and run their slots.            *)
THEOREM DeafAreMuted == Spec => []DeafIsMuted
BY MutedInit, MutedStep, TypeCorrect, PTL DEF Spec

-----------------------------------------------------------------------------
\* The box differs from the setting only while a slot of it is on the way: posted,
\* or to be posted by the trigger that comes next.
MutePending ==
    \/ \E i \in 1 .. Len(posted) : posted[i] = "mute"
    \/ calls # <<>> /\ Head(calls).op = "trigger" /\ Head(calls).box = "mute"

Shown == checked["mute"] = bMute \/ MutePending

(* The mute slot makes setting and box agree; the deaf slot keeps them so. *)
LEMMA SlotShows ==
    ASSUME TypeOK, NEW b \in Boxes, NEW box \in [Boxes -> BOOLEAN], Slot(b, box),
           b = "mute" \/ box["mute"] = bMute
    PROVE  checked'["mute"] = bMute'
<1>1. ASSUME NEW any \in [Boxes -> BOOLEAN], MuteSlot(any) PROVE checked'["mute"] = bMute'
  BY <1>1 DEF MuteSlot, Boxes
<1>2. CASE b = "mute"
  BY <1>1, <1>2 DEF Slot
<1>3. CASE box["mute"] = bMute /\ Deafened(box)
  BY <1>3 DEF Deafened, Boxes, TypeOK
<1>4. CASE MuteSlot([x \in Boxes |-> x = "deaf"])
  <2>1. [x \in Boxes |-> x = "deaf"] \in [Boxes -> BOOLEAN]
    OBVIOUS
  <2> QED BY <1>1, <1>4, <2>1
<1> QED BY <1>2, <1>3, <1>4 DEF Slot, DeafSlot

LEMMA ShownInit == Init => Shown
BY DEF Init, Shown, Boxes

LEMMA ShownStep == IInv /\ Shown /\ [Next]_vars => Shown'
<1> SUFFICES ASSUME IInv, Shown, [Next]_vars PROVE Shown'
  OBVIOUS
<1> USE DEF IInv
<1>1. ASSUME NEW kind \in Kinds, Handle(kind) PROVE Shown'
  BY <1>1 DEF Handle, Shown, MutePending
<1>2. CASE SetChecked
  <2>1. /\ Head(calls) \in Call /\ calls' = Tail(calls) /\ posted' = posted /\ bMute' = bMute
        /\ checked' = [checked EXCEPT ![Head(calls).box] = Head(calls).on]
        /\ Tail(calls) # <<>> /\ Head(Tail(calls)).box = Head(calls).box
        /\ Head(Tail(calls)).op = "trigger"
    BY <1>2, FirstCall DEF SetChecked
  \* The trigger of the same box comes next.
  <2>2. CASE Head(calls).box = "mute"
    BY <2>1, <2>2 DEF Shown, MutePending
  <2>3. CASE Head(calls).box # "mute"
    BY <1>2, <2>1, <2>3 DEF SetChecked, Shown, MutePending, TypeOK, Boxes
  <2> QED BY <2>2, <2>3
<1>3. CASE Trigger
  <2>1. /\ Head(calls) \in Call /\ bMute' = bMute
        /\ checked' = [checked EXCEPT ![Head(calls).box] = ~@]
        /\ posted' = Append(posted, Head(calls).box)
    BY <1>3, FirstCall DEF Trigger
  <2>2. /\ Len(posted') = Len(posted) + 1 /\ Len(posted) \in Nat
        /\ posted'[Len(posted')] = Head(calls).box
        /\ \A i \in 1 .. Len(posted) : posted'[i] = posted[i]
    BY <2>1 DEF TypeOK, Call
  <2>3. CASE Head(calls).box = "mute"
    BY <2>2, <2>3 DEF Shown, MutePending
  <2>4. CASE Head(calls).box # "mute"
    <3>1. checked'["mute"] = checked["mute"]
      BY <2>1, <2>4 DEF TypeOK, Boxes
    <3>2. ASSUME NEW i \in 1 .. Len(posted), posted[i] = "mute" PROVE MutePending'
      BY <2>2, <3>2 DEF MutePending
    <3> QED BY <2>1, <2>4, <3>1, <3>2 DEF Shown, MutePending
  <2> QED BY <2>3, <2>4
<1>4. CASE RunSlot
  <2>1. /\ Head(posted) \in Boxes /\ checked \in [Boxes -> BOOLEAN]
        /\ Slot(Head(posted), checked) /\ posted' = Tail(posted) /\ calls' = calls
    BY <1>4 DEF RunSlot, TypeOK
  <2>2. CASE Head(posted) = "mute" \/ checked["mute"] = bMute
    BY <2>1, <2>2, SlotShows DEF Shown
  \* Another slot of the box is behind the one that runs.
  <2>3. CASE Head(posted) # "mute" /\ MutePending
    <3>1. ASSUME NEW i \in 1 .. Len(posted), posted[i] = "mute" PROVE MutePending'
      <4>1. i # 1
        BY <1>4, <2>3, <3>1 DEF RunSlot, TypeOK
      <4>2. /\ i - 1 \in 1 .. Len(Tail(posted)) /\ Tail(posted)[i - 1] = posted[i]
        BY <1>4, <4>1 DEF RunSlot, TypeOK
      <4> QED BY <2>1, <3>1, <4>2 DEF MutePending
    <3> QED BY <2>1, <2>3, <3>1 DEF Shown, MutePending
  <2> QED BY <2>2, <2>3 DEF Shown
<1>5. ASSUME NEW b \in Clicks, Click(b) PROVE Shown'
  <2> DEFINE box == [checked EXCEPT ![b] = ~@]
  <2>1. /\ b \in Boxes /\ box \in [Boxes -> BOOLEAN]
        /\ b # "mute" => box["mute"] = checked["mute"]
    BY MuteAssumption DEF TypeOK, Boxes
  <2>2. Slot(b, box) /\ posted' = posted /\ calls' = calls
    BY <1>5 DEF Click
  <2> HIDE DEF box
  <2>3. CASE b = "mute" \/ checked["mute"] = bMute
    BY <2>1, <2>2, <2>3, SlotShows DEF Shown
  <2>4. CASE MutePending
    BY <2>2, <2>4 DEF Shown, MutePending
  <2> QED BY <2>3, <2>4 DEF Shown
<1>6. CASE ServerMute \/ UNCHANGED vars
  BY <1>6 DEF ServerMute, vars, Shown, MutePending
<1> QED BY <1>1, <1>2, <1>3, <1>4, <1>5, <1>6 DEF Next

(* Once no request is under way and no slot is waiting, the mute box shows *)
(* the setting that closes the microphone, whatever the order in which     *)
(* requests, slots and clicks have been.                                   *)
THEOREM BoxShowsMute == Spec => []MuteShown
<1>1. TypeOK /\ Shown => MuteShown
  BY DEF Shown, MutePending, MuteShown, Settled
<1>2. IInv => TypeOK
  BY DEF IInv
<1> QED BY <1>1, <1>2, InvInit, InvStep, ShownInit, ShownStep, PTL DEF Spec
=============================================================================
