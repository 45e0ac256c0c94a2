---------------------------- MODULE WhisperMute ----------------------------
(***************************************************************************)
(* Who has the microphone closed.  The viewer asks Whisper to close or     *)
(* open microphone and speaker; its requests run in the ViewerHandler      *)
(* thread and drive the two check boxes of MainWindow, "mute" and "deaf",  *)
(* by QAction::setChecked and QAction::trigger.  trigger flips the box at  *)
(* once, in the calling thread; the slot connected to it belongs to an     *)
(* object of the main thread, so a call from another thread only posts it  *)
(* (Qt's AutoConnection), and it reads the boxes when it finally runs.     *)
(***************************************************************************)
EXTENDS Naturals, Sequences

CONSTANTS
    Kinds,      \* the requests the viewer sends, a subset of AllKinds
    Clicks,     \* the boxes the user may click, a subset of Boxes
    MaxPosted   \* bound: slots posted to the main thread and not yet run

Boxes == {"mute", "deaf"}
AllKinds == {"MicOff", "MicOn", "SpeakerOff", "SpeakerOn",
             "Volume", "Create", "Disconnect"}

ASSUME MuteAssumption ==
    /\ Kinds \subseteq AllKinds
    /\ Clicks \subseteq Boxes
    /\ MaxPosted \in Nat

VARIABLES
    checked,        \* MainWindow: qaAudioMute and qaAudioDeaf
    bMute,          \* Settings::bMute, what AudioInput obeys
    bDeaf,          \* Settings::bDeaf
    bAutoUnmute,    \* MainWindow::bAutoUnmute
    localMicMuted,  \* Connection::localMicMuted, what the viewer asked for
    userMute,       \* ClientUser::bMute of oneself, the server's mute
    calls,          \* what the request being handled has still to call
    posted          \* slots waiting in the main thread's event queue

vars == <<checked, bMute, bDeaf, bAutoUnmute, localMicMuted, userMute,
          calls, posted>>

Call == [op : {"check", "trigger"}, box : Boxes, on : BOOLEAN]

TypeOK ==
    /\ checked \in [Boxes -> BOOLEAN]
    /\ bMute \in BOOLEAN /\ bDeaf \in BOOLEAN /\ bAutoUnmute \in BOOLEAN
    /\ localMicMuted \in BOOLEAN /\ userMute \in BOOLEAN
    /\ calls \in Seq(Call) /\ Len(calls) <= 4
    /\ posted \in Seq(Boxes) /\ Len(posted) <= MaxPosted

\* The two settings are those saved when the client last ran.
Init ==
    /\ bMute \in BOOLEAN /\ bDeaf \in BOOLEAN /\ (bDeaf => bMute)
    /\ checked = [b \in Boxes |-> IF b = "mute" THEN bMute ELSE bDeaf]
    /\ bAutoUnmute = FALSE
    /\ localMicMuted = FALSE /\ userMute = FALSE
    /\ calls = <<>> /\ posted = <<>>

-----------------------------------------------------------------------------
(* The viewer's thread: what each request calls. *)

\* Set the box to the opposite, so that the trigger flips it to "on".
Switch(box, on) == <<[op |-> "check", box |-> box, on |-> ~on],
                     [op |-> "trigger", box |-> box, on |-> on]>>

\* "If mic was off: switch it off again."
MicOffAgain == IF localMicMuted THEN Switch("mute", TRUE) ELSE <<>>

\* Session.Create.1 opens the microphone unless the viewer closed it.
OpenUnlessMuted == IF localMicMuted THEN <<>> ELSE Switch("mute", FALSE)

Script(kind) ==
    CASE kind = "MicOff"     -> Switch("mute", TRUE)
      [] kind = "MicOn"      -> Switch("mute", FALSE)
      [] kind = "SpeakerOff" -> Switch("deaf", TRUE)
      [] kind = "SpeakerOn"  -> Switch("deaf", FALSE) \o MicOffAgain
      [] kind = "Volume"     -> MicOffAgain
      [] kind = "Create"     -> OpenUnlessMuted
      [] kind = "Disconnect" -> Switch("mute", TRUE)

\* Faulty variant: a request starts while another is being handled.
Handle_WhileBusy(kind) ==
    /\ Len(posted) + 2 <= MaxPosted
    /\ calls' = calls \o Script(kind)
    /\ localMicMuted' = CASE kind = "MicOff" -> TRUE
                          [] kind = "MicOn"  -> FALSE
                          [] OTHER           -> localMicMuted
    /\ userMute' = (userMute /\ kind \notin {"MicOn", "Create"})
    /\ UNCHANGED <<checked, bMute, bDeaf, bAutoUnmute, posted>>

\* A request is parsed and starts to execute; the thread takes the next one
\* only when this one's calls are made.
Handle(kind) ==
    /\ calls = <<>>
    /\ Len(posted) + 2 <= MaxPosted
    /\ calls' = Script(kind)
    /\ localMicMuted' = CASE kind = "MicOff" -> TRUE
                          [] kind = "MicOn"  -> FALSE
                          [] OTHER           -> localMicMuted
    /\ userMute' = (userMute /\ kind \notin {"MicOn", "Create"})
    /\ UNCHANGED <<checked, bMute, bDeaf, bAutoUnmute, posted>>

SetChecked ==
    /\ calls # <<>> /\ Head(calls).op = "check"
    /\ checked' = [checked EXCEPT ![Head(calls).box] = Head(calls).on]
    /\ calls' = Tail(calls)
    /\ UNCHANGED <<bMute, bDeaf, bAutoUnmute, localMicMuted, userMute, posted>>

Trigger ==
    /\ calls # <<>> /\ Head(calls).op = "trigger"
    /\ checked' = [checked EXCEPT ![Head(calls).box] = ~@]
    /\ posted' = Append(posted, Head(calls).box)
    /\ calls' = Tail(calls)
    /\ UNCHANGED <<bMute, bDeaf, bAutoUnmute, localMicMuted, userMute>>

-----------------------------------------------------------------------------
(* The main thread: the slots.  box is the state of the two boxes they find. *)

\* Faulty variant: opening the microphone leaves the speaker off.
MuteSlot_StaysDeaf(box) ==
    /\ bMute' = box["mute"]
    /\ bDeaf' = bDeaf
    /\ checked' = box

\* MainWindow::on_qaAudioMute_triggered
MuteSlot(box) ==
    /\ bMute' = box["mute"]
    /\ bDeaf' = (bDeaf /\ box["mute"])
    /\ checked' = [box EXCEPT !["deaf"] = @ /\ (box["mute"] \/ ~bDeaf)]

\* Faulty variant: the "mute" box is not checked along with the setting.
Deafened_BoxLeft(box) ==
    /\ bDeaf' = box["deaf"]
    /\ bMute' = (bMute \/ box["deaf"])
    /\ bAutoUnmute' = (bAutoUnmute \/ (box["deaf"] /\ ~bMute))
    /\ checked' = box

\* Deafening closes the microphone, and remembers having done so for ever.
Deafened(box) ==
    /\ bDeaf' = box["deaf"]
    /\ bMute' = (bMute \/ box["deaf"])
    /\ bAutoUnmute' = (bAutoUnmute \/ (box["deaf"] /\ ~bMute))
    /\ checked' = [box EXCEPT !["mute"] = @ \/ (box["deaf"] /\ ~bMute)]

\* MainWindow::on_qaAudioDeaf_triggered
DeafSlot(box) ==
    \/ /\ ~box["deaf"] /\ bAutoUnmute
       /\ MuteSlot([b \in Boxes |-> b = "deaf"])
       /\ UNCHANGED bAutoUnmute
    \/ /\ box["deaf"] \/ ~bAutoUnmute
       /\ Deafened(box)

Slot(b, box) == \/ b = "mute" /\ MuteSlot(box) /\ UNCHANGED bAutoUnmute
                \/ b = "deaf" /\ DeafSlot(box)

\* The event loop runs the oldest posted slot.
RunSlot ==
    /\ posted # <<>>
    /\ Slot(Head(posted), checked)
    /\ posted' = Tail(posted)
    /\ UNCHANGED <<localMicMuted, userMute, calls>>

\* The user clicks a box or hits its shortcut: flip and slot in one go.
Click(b) ==
    /\ Slot(b, [checked EXCEPT ![b] = ~@])
    /\ UNCHANGED <<localMicMuted, userMute, calls, posted>>

\* The server mutes or unmutes us.
ServerMute ==
    /\ userMute' = ~userMute
    /\ UNCHANGED <<checked, bMute, bDeaf, bAutoUnmute, localMicMuted, calls,
                   posted>>

Next == \/ \E kind \in Kinds : Handle(kind)
        \/ SetChecked \/ Trigger \/ RunSlot \/ ServerMute
        \/ \E b \in Clicks : Click(b)

Spec == Init /\ [][Next]_vars

-----------------------------------------------------------------------------
\* No request is under way and no slot is waiting.
Settled == calls = <<>> /\ posted = <<>>

\* Once everything has run, the "mute" box shows the setting that closes the
\* microphone, whatever the order in which the two threads touched it.
MuteShown == Settled => checked["mute"] = bMute

\* Deaf and talking is no state of the client: whoever cannot hear has the
\* microphone closed, at every moment and in every order of slots.
DeafIsMuted == bDeaf => bMute

\* A microphone the viewer closed is closed once everything has run: requests
\* that touch speaker or session may not open it (wRequest.cpp:545 and 574,
\* "if mic was off: switch it off again").
MicStaysOff == Settled /\ localMicMuted => bMute
=============================================================================
