--------------------------- MODULE MCVoiceThread ---------------------------
(* Instances of VoiceThread: two users behind one address. *)
EXTENDS VoiceThread, TLC

CONSTANTS u1, u2, h1, c1

OneHost == (u1 :> h1) @@ (u2 :> h1)
ToUserOrChannel == {[sessions |-> {u2}, channels |-> {}], [sessions |-> {}, channels |-> {c1}]}
=============================================================================
