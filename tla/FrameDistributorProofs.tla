------------------------ MODULE FrameDistributorProofs ------------------------
(***************************************************************************)
(* FrameDistributor keeps its inductive invariant, and its stream          *)
(* implements the safety part of the latest-value register, for any number *)
(* of pushers, clients and frames.                                         *)
(***************************************************************************)
EXTENDS FrameDistributor, TLAPS

\* Nothing has been pushed and every client starts from zero (frame_distributor.py:24-28, 59).
LEMMA InitInv == Init => IInv
  BY DEF Init, IInv, TypeOK, NeverAhead, QuietStart, NoLostWakeup

\* Every step of push and of iter_frames keeps the invariant.
LEMMA StepInv == IInv /\ [Next]_vars => IInv'
<1> SUFFICES ASSUME IInv, [Next]_vars
             PROVE  IInv'
  OBVIOUS
<1> USE DEF IInv, TypeOK, NeverAhead, QuietStart, NoLostWakeup, pushVars, clientVars
<1>1. ASSUME NEW p \in Pusher, Store(p) PROVE IInv'
  BY <1>1 DEF Store
<1>2. ASSUME NEW p \in Pusher, Notify(p) PROVE IInv'
  BY <1>2 DEF Notify
<1>3. ASSUME NEW c \in Client, Wake(c) PROVE IInv'
  BY <1>3 DEF Wake, Arrives
<1>4. ASSUME NEW c \in Client, TimeOut(c) PROVE IInv'
  BY <1>4 DEF TimeOut, Arrives
<1>5. ASSUME NEW c \in Client, Yield(c) PROVE IInv'
  BY <1>5 DEF Yield, Arrives, Picked
<1>6. ASSUME NEW c \in Client, Resume(c) PROVE IInv'
  BY <1>6 DEF Resume, Arrives
<1>7. ASSUME NEW c \in Client, Reconnect(c) PROVE IInv'
  BY <1>7 DEF Reconnect, Arrives
<1>8. CASE UNCHANGED vars
  BY <1>8 DEF vars
<1>. QED
  BY <1>1, <1>2, <1>3, <1>4, <1>5, <1>6, <1>7, <1>8 DEF Next, Round

\* The invariant holds in every reachable state.
THEOREM Invariant == Spec => []IInv
<1>1. Init => IInv
  BY InitInv
<1>2. IInv /\ [Next]_vars => IInv'
  BY StepInv
<1>. QED
  BY <1>1, <1>2, PTL DEF Spec

\* Every variable keeps its type, for any number of pushers and clients.
THEOREM TypeCorrect == Spec => []TypeOK
<1>1. IInv => TypeOK
  BY DEF IInv
<1>. QED
  BY <1>1, Invariant, PTL

\* A client that would sleep has shown the latest frame or is about to be woken, for
\* any number of pushers and clients (frame_distributor.py:32-36, 61-65).
THEOREM WakeupKept == Spec => []NoLostWakeup
<1>1. IInv => NoLostWakeup
  BY DEF IInv
<1>. QED
  BY <1>1, Invariant, PTL

\* Every step of the two-lock buffer is a step of the register or leaves it alone.
LEMMA StepRefines == IInv /\ [Next]_vars => [Register!Next]_<<latest, shown>>
<1> SUFFICES ASSUME IInv, [Next]_vars
             PROVE  Register!Next \/ UNCHANGED <<latest, shown>>
  OBVIOUS
<1> USE DEF pushVars, clientVars
<1>1. ASSUME NEW p \in Pusher, Store(p) PROVE Register!Publish
  BY <1>1 DEF Store, Register!Publish
<1>2. ASSUME NEW p \in Pusher, Notify(p) PROVE UNCHANGED <<latest, shown>>
  BY <1>2 DEF Notify
<1>3. ASSUME NEW c \in Client, Wake(c) \/ TimeOut(c) \/ Resume(c)
      PROVE UNCHANGED <<latest, shown>>
  BY <1>3 DEF Wake, TimeOut, Resume
<1>4. ASSUME NEW c \in Client, Yield(c) PROVE Register!Show(c)
  BY <1>4 DEF Yield, Picked, Register!Show
<1>5. ASSUME NEW c \in Client, Reconnect(c) PROVE Register!Connect(c)
  BY <1>5 DEF Reconnect, Register!Connect
<1>6. CASE UNCHANGED vars
  BY <1>6 DEF vars
<1>. QED
  BY <1>1, <1>2, <1>3, <1>4, <1>5, <1>6 DEF Next, Round, Register!Next

\* The stream implements the safety part of the register: what a client is shown is
\* the latest frame when it is picked, so it never goes back in time, however the
\* pushes and the rounds interleave between their two locks (frame_distributor.py:30-68).
THEOREM ImplementsSafety == Spec => Register!Safety
<1>1. Init => Register!Init
  BY DEF Init, Register!Init
<1>2. IInv /\ [Next]_vars => [Register!Next]_Register!vars
  BY StepRefines DEF Register!vars
<1>. QED
  BY <1>1, <1>2, Invariant, PTL DEF Spec, Register!Safety
================================================================================
