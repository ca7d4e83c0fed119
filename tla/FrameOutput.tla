---------------------------- MODULE FrameOutput ----------------------------
(***************************************************************************)
(* What the image pipeline of lq/ promises: of the frames it accepted it   *)
(* shows some, each at most once and in the order they came in.  Frames    *)
(* may be left out, never repeated or shown late.                          *)
(***************************************************************************)
EXTENDS Integers

VARIABLES
  accepted,  \* number of frames accepted: they are the frames 0 .. accepted - 1
  shown      \* the frame shown last, -1 before the first

Init == accepted = 0 /\ shown = -1

Accept == accepted' = accepted + 1 /\ UNCHANGED shown

Show == shown' \in shown + 1 .. accepted - 1 /\ UNCHANGED accepted

Next == Accept \/ Show

Spec == Init /\ [][Next]_<<accepted, shown>>
=============================================================================
