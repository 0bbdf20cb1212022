-------------------------- MODULE WorkerManagerProofs --------------------------
(***************************************************************************)
(* Every method of the registry maps a well-typed registry to one, for any *)
(* workers and any threshold of the circuit breaker.                       *)
(***************************************************************************)
EXTENDS WorkerManager, TLAPS

Registry == [Worker -> WorkerInfo]

\* WorkerManager's update of one entry keeps the registry well typed.
LEMMA UpdatedTyped ==
  ASSUME NEW r \in Registry, NEW w \in Worker, NEW info \in WorkerInfo
  PROVE  Updated(r, w, info) \in Registry
BY DEF Updated, Registry

\* increment_pending and decrement_pending keep it well typed: the decrement is
\* clamped at zero.
LEMMA PendingTyped ==
  ASSUME NEW r \in Registry, NEW w \in Worker
  PROVE  /\ PendingIncremented(r, w) \in Registry
         /\ PendingDecremented(r, w) \in Registry
<1>1. r[w] \in WorkerInfo
  BY DEF Registry
<1>2. [r[w] EXCEPT !.pending_frames = @ + 1] \in WorkerInfo
  BY <1>1 DEF WorkerInfo
<1>3. [r[w] EXCEPT !.pending_frames = OneLess(@)] \in WorkerInfo
  BY <1>1 DEF WorkerInfo, OneLess
<1>4. QED
  BY <1>2, <1>3, UpdatedTyped DEF PendingIncremented, PendingDecremented

\* So does the arrival of a result (increment_frames with processing_ms = 0).
LEMMA FramesTyped ==
  ASSUME NEW r \in Registry, NEW w \in Worker
  PROVE  FramesIncremented(r, w, 0) \in Registry
<1>1. r[w] \in WorkerInfo
  BY DEF Registry
<1> DEFINE info == [r[w] EXCEPT
       !.pending_frames = OneLess(@),
       !.status = "active",
       !.avg_processing_ms =
          IF 0 = 0 THEN @
          ELSE IF @ = 0 THEN 0
          ELSE (8 * @ + 2 * 0) \div 10]
<1>2. info = [r[w] EXCEPT !.pending_frames = OneLess(@), !.status = "active"]
  BY <1>1 DEF WorkerInfo
<1>3. [r[w] EXCEPT !.pending_frames = OneLess(@), !.status = "active"] \in WorkerInfo
  <2>1. \A n \in Nat : [r[w] EXCEPT !.pending_frames = n, !.status = "active"] \in WorkerInfo
    BY <1>1 DEF WorkerInfo, Available
  <2>2. OneLess(r[w].pending_frames) \in Nat
    BY <1>1 DEF WorkerInfo, OneLess
  <2>3. QED
    BY <2>1, <2>2, Zenon
<1>4. info \in WorkerInfo
  BY <1>2, <1>3, Zenon
<1>5. QED
  BY <1>4, UpdatedTyped DEF FramesIncremented

\* So does record_timeout: the counter stays within the breaker's threshold.
LEMMA TimeoutTyped ==
  ASSUME NEW r \in Registry, NEW w \in Worker
  PROVE  TimeoutRecorded(r, w) \in Registry
<1>1. r[w] \in WorkerInfo /\ CIRCUIT_BREAKER_THRESHOLD \in Nat
  BY WorkerManagerAssumption DEF Registry
<1> DEFINE full  == CIRCUIT_BREAKER_THRESHOLD
           count == IF r[w].consecutive_timeouts = full THEN full
                    ELSE r[w].consecutive_timeouts + 1
           opens == count = full /\ r[w].status # "offline"
           info  == [r[w] EXCEPT
                       !.consecutive_timeouts = count,
                       !.status               = IF opens THEN "offline" ELSE @,
                       !.pending_frames       = IF opens THEN 0 ELSE @]
<1>2. count \in 0 .. full
  BY <1>1 DEF WorkerInfo
<1>3. info \in WorkerInfo
  <2> HIDE DEF count
  <2> QED BY <1>1, <1>2 DEF WorkerInfo, Available
<1>4. QED
  BY <1>3, UpdatedTyped DEF TimeoutRecorded

\* So do the remaining registry methods.
LEMMA EntryTyped ==
  ASSUME NEW r \in Registry, NEW w \in Worker
  PROVE  /\ Registered(r, w) \in Registry
         /\ Removed(r, w) \in Registry
         /\ TimeoutReset(r, w) \in Registry
         /\ HeartbeatRecorded(r, w) \in Registry
         /\ FallenSilent(r, w) \in Registry
<1>1. r[w] \in WorkerInfo /\ 0 \in 0 .. CIRCUIT_BREAKER_THRESHOLD
  BY WorkerManagerAssumption DEF Registry
<1>2. [Unregistered EXCEPT !.status = "active"] \in WorkerInfo
  BY <1>1 DEF WorkerInfo, Unregistered, Available
<1>3. [Unregistered EXCEPT !.consecutive_timeouts = r[w].consecutive_timeouts] \in WorkerInfo
  BY <1>1 DEF WorkerInfo, Unregistered, Available
<1>4. [r[w] EXCEPT !.consecutive_timeouts = 0] \in WorkerInfo
  BY <1>1 DEF WorkerInfo
<1>5. [r[w] EXCEPT !.silent = FALSE, !.status = "active"] \in WorkerInfo
  BY <1>1 DEF WorkerInfo, Available
<1>6. [r[w] EXCEPT !.silent = TRUE] \in WorkerInfo
  BY <1>1 DEF WorkerInfo
<1>7. Registered(r, w) \in Registry /\ Removed(r, w) \in Registry
  BY <1>2, <1>3 DEF Registered, Removed, Registry
<1>8. TimeoutReset(r, w) = [r EXCEPT ![w] = [r[w] EXCEPT !.consecutive_timeouts = 0]]
  BY DEF TimeoutReset, Registry
<1>9. TimeoutReset(r, w) \in Registry
  BY <1>4, <1>8 DEF Registry
<1>10. QED
  BY <1>5, <1>6, <1>7, <1>9, UpdatedTyped DEF HeartbeatRecorded, FallenSilent

\* So does the eviction of stale workers.
LEMMA EvictionTyped ==
  ASSUME NEW r \in Registry
  PROVE  StaleEvicted(r) \in Registry
<1> SUFFICES ASSUME NEW w \in Worker
             PROVE  (IF r[w].silent /\ r[w].status \in Available
                     THEN [r[w] EXCEPT !.status = "offline", !.pending_frames = 0]
                     ELSE r[w]) \in WorkerInfo
  BY DEF StaleEvicted, Registry
<1>1. r[w] \in WorkerInfo
  BY DEF Registry
<1>2. QED
  BY <1>1 DEF WorkerInfo, Available

\* least_loaded returns a worker that may be dispatched to.
LEMMA LeastLoadedIsWorker ==
  ASSUME NEW r
  PROVE  LeastLoaded(r) \subseteq Worker
BY WorkerManagerAssumption DEF LeastLoaded, Candidates

\* A registration and a heartbeat set last_heartbeat: the worker is not silent.
LEMMA RegistrationStamps ==
  ASSUME NEW r \in Registry, NEW w \in Worker
  PROVE  /\ ~Registered(r, w)[w].silent
         /\ IsRegistered(r, w) => ~HeartbeatRecorded(r, w)[w].silent
<1>1. r[w] \in WorkerInfo
  BY DEF Registry
<1>2. ~Registered(r, w)[w].silent
  BY DEF Registered, Registry, Unregistered
<1>3. IsRegistered(r, w) => ~HeartbeatRecorded(r, w)[w].silent
  BY <1>1 DEF HeartbeatRecorded, Updated, Registry, WorkerInfo
<1>. QED
  BY <1>2, <1>3

\* The remaining methods neither make a worker silent nor bring one into the registry.
LEMMA OthersKeepStamp ==
  ASSUME NEW r \in Registry, NEW w \in Worker,
         NEW s \in {Removed(r, w), TimeoutReset(r, w), FramesIncremented(r, w, 0),
                    TimeoutRecorded(r, w), StaleEvicted(r)}
  PROVE  /\ ~r[w].silent => ~s[w].silent
         /\ IsRegistered(s, w) => IsRegistered(r, w)
<1> USE DEF Registry, IsRegistered
<1>1. r[w] \in WorkerInfo
  OBVIOUS
<1>2. CASE s = Removed(r, w)
  BY <1>2 DEF Removed, Unregistered
<1>3. CASE s = TimeoutReset(r, w)
  BY <1>1, <1>3 DEF TimeoutReset, WorkerInfo
<1>4. CASE s = FramesIncremented(r, w, 0)
  BY <1>1, <1>4 DEF FramesIncremented, Updated, WorkerInfo
<1>5. CASE s = TimeoutRecorded(r, w)
  BY <1>1, <1>5 DEF TimeoutRecorded, Updated, WorkerInfo
<1>6. CASE s = StaleEvicted(r)
  BY <1>1, <1>6 DEF StaleEvicted, WorkerInfo, Available
<1>. QED
  BY <1>2, <1>3, <1>4, <1>5, <1>6

\* Only a registration brings a worker into the registry.
LEMMA NoNewEntries ==
  ASSUME NEW r \in Registry, NEW w \in Worker, NEW v \in Worker,
         NEW s \in {PendingIncremented(r, w), PendingDecremented(r, w), FramesIncremented(r, w, 0),
                    TimeoutRecorded(r, w), TimeoutReset(r, w), Removed(r, w),
                    HeartbeatRecorded(r, w), FallenSilent(r, w), StaleEvicted(r)}
  PROVE  IsRegistered(s, v) => IsRegistered(r, v)
<1> USE DEF Registry, IsRegistered
<1>1. r[v] \in WorkerInfo /\ r[w] \in WorkerInfo
  OBVIOUS
<1>2. CASE s = PendingIncremented(r, w) \/ s = PendingDecremented(r, w)
  BY <1>1, <1>2 DEF PendingIncremented, PendingDecremented, Updated, WorkerInfo
<1>3. CASE s = FramesIncremented(r, w, 0)
  BY <1>1, <1>3 DEF FramesIncremented, Updated, WorkerInfo
<1>4. CASE s = TimeoutRecorded(r, w)
  BY <1>1, <1>4 DEF TimeoutRecorded, Updated, WorkerInfo
<1>5. CASE s = TimeoutReset(r, w)
  BY <1>1, <1>5 DEF TimeoutReset, WorkerInfo
<1>6. CASE s = Removed(r, w)
  BY <1>6 DEF Removed, Unregistered
<1>7. CASE s = HeartbeatRecorded(r, w) \/ s = FallenSilent(r, w)
  BY <1>1, <1>7 DEF HeartbeatRecorded, FallenSilent, Updated, WorkerInfo
<1>8. CASE s = StaleEvicted(r)
  BY <1>1, <1>8 DEF StaleEvicted, WorkerInfo, Available
<1>. QED
  BY <1>2, <1>3, <1>4, <1>5, <1>6, <1>7, <1>8

================================================================================
