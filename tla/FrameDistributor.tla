--------------------------- MODULE FrameDistributor ---------------------------
(***************************************************************************)
(* The buffer behind the MJPEG stream (FrameDistributor).  The latest      *)
(* frame is guarded by one lock and its version by the condition of        *)
(* another, so a push and a client's round are two steps each, and the     *)
(* pushes of several inference threads interleave.                         *)
(*                                                                         *)
(* A frame is named by its place in the order of the writes.               *)
(***************************************************************************)
EXTENDS Naturals, FiniteSets

CONSTANTS
  Pusher,    \* threads that run inference
  Client,    \* connections to /video-stream
  MaxPushes  \* bound: frames pushed

ASSUME FrameDistributorAssumption == IsFiniteSet(Pusher) /\ MaxPushes \in Nat

VARIABLES
  latest,    \* _latest_jpeg; 0 is None
  version,   \* _version
  stored,    \* the pushers between the two locks of push
  at,        \* where the generator of a client is
  last_seen, \* its local variable
  shown      \* the last frame it yielded, 0 for the placeholder

pushVars == <<latest, version, stored>>
clientVars == <<at, last_seen, shown>>
vars == <<pushVars, clientVars>>

Init ==
  /\ latest = 0 /\ version = 0 /\ stored = {}
  /\ at = [c \in Client |-> "waiting"]
  /\ last_seen = [c \in Client |-> 0]
  /\ shown = [c \in Client |-> 0]

-----------------------------------------------------------------------------
\* push

Store(p) ==
  /\ p \notin stored /\ latest < MaxPushes
  /\ latest' = latest + 1
  /\ stored' = stored \cup {p}
  /\ UNCHANGED <<version, clientVars>>

Notify(p) ==
  /\ p \in stored
  /\ version' = version + 1
  /\ stored' = stored \ {p}
  /\ UNCHANGED <<latest, clientVars>>

-----------------------------------------------------------------------------
\* iter_frames

Arrives(c, here, next) == at[c] = here /\ at' = [at EXCEPT ![c] = next]

\* Mutant: the comparison is off by one, and the newest frame waits for the next.
WakeLate(c) ==
  /\ version > last_seen[c] + 1
  /\ Arrives(c, "waiting", "reading")
  /\ last_seen' = [last_seen EXCEPT ![c] = version]
  /\ UNCHANGED <<pushVars, shown>>

\* wait_for ends with a newer version or with the timeout; both take the version.
Wake(c) ==
  /\ version > last_seen[c]
  /\ Arrives(c, "waiting", "reading")
  /\ last_seen' = [last_seen EXCEPT ![c] = version]
  /\ UNCHANGED <<pushVars, shown>>

TimeOut(c) ==
  /\ version <= last_seen[c]
  /\ Arrives(c, "waiting", "reading")
  /\ last_seen' = [last_seen EXCEPT ![c] = version]
  /\ UNCHANGED <<pushVars, shown>>

\* Mutant: the frame before the latest.
PickedOlder == latest - 1

\* The frame a client sends; with none stored yet, 0, it is the placeholder.
Picked == latest

Yield(c) ==
  /\ Arrives(c, "reading", "yielded")
  /\ shown' = [shown EXCEPT ![c] = Picked]
  /\ UNCHANGED <<pushVars, last_seen>>

\* Mutant: the version is read after the frame.
ResumeSeeing(c) ==
  /\ Arrives(c, "yielded", "waiting")
  /\ last_seen' = [last_seen EXCEPT ![c] = version]
  /\ UNCHANGED <<pushVars, shown>>

\* The response has taken the chunk and asks for the next one.
Resume(c) ==
  /\ Arrives(c, "yielded", "waiting")
  /\ UNCHANGED <<pushVars, last_seen, shown>>

\* The connection closes at the yield; a new one starts with a fresh generator.
Reconnect(c) ==
  /\ Arrives(c, "yielded", "waiting")
  /\ last_seen' = [last_seen EXCEPT ![c] = 0]
  /\ shown' = [shown EXCEPT ![c] = 0]
  /\ UNCHANGED pushVars

Round(c) == Wake(c) \/ Yield(c) \/ Resume(c)

Next ==
  \/ \E p \in Pusher : Store(p) \/ Notify(p)
  \/ \E c \in Client : Round(c) \/ TimeOut(c) \/ Reconnect(c)

Spec == Init /\ [][Next]_vars

\* Threads go on when they can, clients take what they asked for.  No timeout is
\* relied on.
FairSpec ==
  /\ Spec
  /\ \A p \in Pusher : WF_vars(Notify(p))
  /\ \A c \in Client : WF_vars(Round(c))

-----------------------------------------------------------------------------
\* Properties.

TypeOK ==
  /\ latest \in Nat /\ version \in Nat
  /\ stored \subseteq Pusher
  /\ at \in [Client -> {"waiting", "reading", "yielded"}]
  /\ last_seen \in [Client -> Nat]
  /\ shown \in [Client -> Nat]

\* No wake-up is lost: a client that would sleep has shown the latest frame, or a
\* pusher is on its way to wake it, whichever way pushes and rounds interleave
\* between their two locks (frame_distributor.py:32-36, 58-64).
NoLostWakeup ==
  \A c \in Client :
    at[c] # "reading" /\ last_seen[c] >= version =>
      shown[c] = latest \/ stored # {}

\* What makes NoLostWakeup inductive: no client is ahead of the version, and while
\* there is no version and nobody pushes there is no frame.
NeverAhead == \A c \in Client : last_seen[c] <= version
QuietStart == version = 0 /\ stored = {} => latest = 0
IInv == TypeOK /\ NeverAhead /\ QuietStart /\ NoLostWakeup

\* The stream implements a latest-value register, without the help of a timeout: a
\* client never goes back in time and shows the last frame in the end.
Register == INSTANCE LatestFrame WITH published <- latest, shown <- shown
ImplementsRegister == Register!Spec
================================================================================
