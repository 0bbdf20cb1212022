------------------------------- MODULE FramePool -------------------------------
(***************************************************************************)
(* What the frame queue promises its callers: a frame it accepts is held   *)
(* until it has a result or is given up, it is let go only then, and once  *)
(* let go it never comes back.                                             *)
(***************************************************************************)
CONSTANT Frame

VARIABLES submitted, held, delivered, dropped, refused

vars == <<submitted, held, delivered, dropped, refused>>

Init ==
  /\ submitted = {} /\ held = {}
  /\ delivered = {} /\ dropped = {} /\ refused = {}

Submit(f) == f \notin submitted /\ submitted' = submitted \cup {f}

Accept(f) ==
  /\ Submit(f)
  /\ held' = held \cup {f}
  /\ UNCHANGED <<delivered, dropped, refused>>

Refuse(f) ==
  /\ Submit(f)
  /\ refused' = refused \cup {f}
  /\ UNCHANGED <<held, delivered, dropped>>

\* A result may come late, and more than once.
Deliver(f) ==
  /\ f \in submitted \ refused
  /\ delivered' = delivered \cup {f}
  /\ UNCHANGED <<submitted, held, dropped, refused>>

\* One copy of the frame is given up; another may still be worked on.
GiveUp(f) ==
  /\ f \in held
  /\ dropped' = dropped \cup {f}
  /\ held' \in {held, held \ {f}}
  /\ UNCHANGED <<submitted, delivered, refused>>

Release(f) ==
  /\ f \in held \cap (delivered \cup dropped)
  /\ held' = held \ {f}
  /\ UNCHANGED <<submitted, delivered, dropped, refused>>

Next ==
  \E f \in Frame : Accept(f) \/ Refuse(f) \/ Deliver(f) \/ GiveUp(f) \/ Release(f)

Spec == Init /\ [][Next]_vars
================================================================================
