------------------------------ MODULE LatestFrame ------------------------------
(***************************************************************************)
(* What the video stream promises its clients: each frame shown is the     *)
(* latest one at the moment it is picked, so a client never goes back in   *)
(* time, and a client that stays ends up with the last frame.  A frame is  *)
(* the number of frames published up to it; 0 is the placeholder.          *)
(***************************************************************************)
EXTENDS Naturals

CONSTANTS Client, MaxPushes   \* bound: frames published

VARIABLES published, shown

vars == <<published, shown>>

Init == published = 0 /\ shown = [c \in Client |-> 0]

Publish ==
  /\ published < MaxPushes
  /\ published' = published + 1
  /\ UNCHANGED shown

Show(c) ==
  /\ shown' = [shown EXCEPT ![c] = published]
  /\ UNCHANGED published

\* A client leaves and another takes its place.
Connect(c) ==
  /\ shown' = [shown EXCEPT ![c] = 0]
  /\ UNCHANGED published

Next == Publish \/ \E c \in Client : Show(c) \/ Connect(c)

Safety == Init /\ [][Next]_vars

Spec == Safety /\ \A c \in Client : WF_vars(Show(c))
================================================================================
