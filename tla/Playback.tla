------------------------------- MODULE Playback -------------------------------
(***************************************************************************)
(* What playing a stream of a file promises its listener, whatever queue,  *)
(* threads and decoder are behind it: the frames that can be played, one   *)
(* after the other in the file's order, none of them twice and none left   *)
(* out, and then the end.  Where the player may lose frames (lossy), those *)
(* it plays are in order all the same.  FFAudio implements this module,    *)
(* and Player for each of its two streams, up to the decoder: its frames   *)
(* are the stream's packets, played when they are decoded.                 *)
(***************************************************************************)
EXTENDS Integers, Sequences

CONSTANT Before(_, _)   \* the order of the file's frames

VARIABLES frames,       \* the frames of the file that can be played
          lossy,        \* some of them may be left out
          played,       \* the frames heard so far, in this order
          ended         \* the player has said that this was all

vars == <<frames, lossy, played, ended>>

Heard == {played[i] : i \in 1 .. Len(played)}

Init == played = <<>> /\ ended = FALSE

\* The next frame is heard.
Play(f) == /\ ~ended
           /\ \A g \in Heard : Before(g, f)
           /\ lossy \/ \A g \in frames : Before(g, f) => g \in Heard
           /\ played' = Append(played, f)
           /\ UNCHANGED <<frames, lossy, ended>>

\* The end is reached after the last frame, not before it.
Finish == /\ ~ended /\ ended'
          /\ lossy \/ frames \subseteq Heard
          /\ UNCHANGED <<frames, lossy, played>>

Next == Finish \/ \E f \in frames : Play(f)

Spec == Init /\ [][Next]_vars
=============================================================================
