----------------------------- MODULE WorkerManager -----------------------------
(***************************************************************************)
(* The coordinator's registry of worker nodes (WorkerManager).  Every      *)
(* method takes the registry lock once, so each is an operator from the    *)
(* registry to the registry; the modules that own the registry variable    *)
(* decide which of them run in one step.                                   *)
(*                                                                         *)
(* A heartbeat's age is kept as the one bit the code tests: `silent` is    *)
(* "last_heartbeat is older than HEARTBEAT_TIMEOUT_SECS".                  *)
(***************************************************************************)
EXTENDS Naturals

CONSTANTS
  Worker,                   \* worker ids that may ever register
  Capable,                  \* the workers that advertise the default "yolov8n"
  CIRCUIT_BREAKER_THRESHOLD \* consecutive timeouts that open the breaker

ASSUME WorkerManagerAssumption ==
  /\ Capable \subseteq Worker
  /\ CIRCUIT_BREAKER_THRESHOLD \in Nat \ {0}

Available == {"active", "idle"}

WorkerInfo ==
  [ status               : {"absent", "offline"} \cup Available,
    pending_frames       : Nat,
    avg_processing_ms    : Nat,
    silent               : BOOLEAN,
    consecutive_timeouts : 0 .. CIRCUIT_BREAKER_THRESHOLD ]

\* What a worker id that is not a key of the registry maps to.
Unregistered ==
  [ status |-> "absent", pending_frames |-> 0, avg_processing_ms |-> 0,
    silent |-> FALSE, consecutive_timeouts |-> 0 ]

IsRegistered(r, w) == r[w].status # "absent"

\* _do_register, first half: a new entry, whatever was there before.
Registered(r, w) == [r EXCEPT ![w] = [Unregistered EXCEPT !.status = "active"]]

\* The timeout counter lives in a dictionary of its own and outlives the entry.
Removed(r, w) ==
  [r EXCEPT ![w] =
     [Unregistered EXCEPT !.consecutive_timeouts = r[w].consecutive_timeouts]]

\* The methods below look the worker up and do nothing when it is not there.
Updated(r, w, info) == IF IsRegistered(r, w) THEN [r EXCEPT ![w] = info] ELSE r

PendingIncremented(r, w) ==
  Updated(r, w, [r[w] EXCEPT !.pending_frames = @ + 1])

OneLessUnclamped(n) == n - 1                  \* a mutant of the next
OneLess(n) == IF n = 0 THEN 0 ELSE n - 1

PendingDecremented(r, w) ==
  Updated(r, w, [r[w] EXCEPT !.pending_frames = OneLess(@)])

\* increment_frames: a result arrived; processing_ms = 0 leaves the average alone.
FramesIncremented(r, w, processing_ms) ==
  Updated(r, w,
    [r[w] EXCEPT
       !.pending_frames = OneLess(@),
       !.status = "active",
       !.avg_processing_ms =
          IF processing_ms = 0 THEN @
          ELSE IF @ = 0 THEN processing_ms
          ELSE (8 * @ + 2 * processing_ms) \div 10])

\* record_timeout.  The counter is only compared with the threshold, so it
\* saturates there.
TimeoutRecorded(r, w) ==
  LET full  == CIRCUIT_BREAKER_THRESHOLD
      count == IF r[w].consecutive_timeouts = full THEN full
               ELSE r[w].consecutive_timeouts + 1
      opens == count = full /\ r[w].status # "offline"
  IN  Updated(r, w,
        [r[w] EXCEPT
           !.consecutive_timeouts = count,
           !.status               = IF opens THEN "offline" ELSE @,
           !.pending_frames       = IF opens THEN 0 ELSE @])

TimeoutReset(r, w) == [r EXCEPT ![w].consecutive_timeouts = 0]

HeartbeatNoted(r, w) ==                       \* a mutant of the next
  Updated(r, w, [r[w] EXCEPT !.silent = FALSE])
HeartbeatRecorded(r, w) ==
  Updated(r, w, [r[w] EXCEPT !.silent = FALSE, !.status = "active"])

\* The clock passes the heartbeat deadline of w.
FallenSilent(r, w) == Updated(r, w, [r[w] EXCEPT !.silent = TRUE])

StaleIdleEvicted(r) ==                        \* a mutant of the next
  [w \in Worker |->
     IF r[w].silent /\ r[w].status = "idle"
     THEN [r[w] EXCEPT !.status = "offline", !.pending_frames = 0]
     ELSE r[w]]
StaleEvicted(r) ==
  [w \in Worker |->
     IF r[w].silent /\ r[w].status \in Available
     THEN [r[w] EXCEPT !.status = "offline", !.pending_frames = 0]
     ELSE r[w]]

\* least_loaded: the candidates, and those of lowest pending * speed.  A tie is
\* broken by dictionary order in the code, by any choice here.  The code takes the
\* scores after it has released the lock; the choice is one step here, and no property
\* depends on which candidate is chosen.
Candidates(r) == {w \in Capable : r[w].status \in Available}

Score(r, w) ==
  r[w].pending_frames *
    (IF r[w].avg_processing_ms > 0 THEN r[w].avg_processing_ms ELSE 1000)

LeastLoaded(r) ==
  {w \in Candidates(r) : \A v \in Candidates(r) : Score(r, w) <= Score(r, v)}

================================================================================
