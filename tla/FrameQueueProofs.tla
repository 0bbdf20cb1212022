--------------------------- MODULE FrameQueueProofs ---------------------------
(***************************************************************************)
(* Theorems about FrameQueue for every set of workers and frames and every *)
(* value of the thresholds.  In this order: type correctness; the          *)
(* watchdog's phases and NoSilentLoss; the retry budget; the refinement of *)
(* FramePool; and the bounds on copies and attempts, for which tasks are   *)
(* shown to stay apart, callbacks to be counted by re-registrations, and   *)
(* the retries the copies of a frame have left to be a resource that every *)
(* step spends and only a callback renews.                                 *)
(***************************************************************************)
EXTENDS FrameQueue, WorkerManagerProofs, SumTheorems

-----------------------------------------------------------------------------
\* Type correctness.

\* A dispatched task is a task, and what the queue makes of a task is a task again.
LEMMA DispatchedIsTask == Dispatched \subseteq Task
BY DEF Dispatched, Task, TaskOf

LEMMA BufferTyped ==
  ASSUME NEW t \in Task
  PROVE  /\ Buffered(t) \in Task
         /\ BufferedRetry(t) \in Task
         /\ [Buffered(t) EXCEPT !.retries = 0] \in Task
<1>1. Buffered(t) \in Task
  BY DEF Buffered, Task, TaskOf
<1>2. \A u \in Task : [u EXCEPT !.retries = 0] \in Task
  BY DEF Task, TaskOf
<1>3. \A u \in Task : [u EXCEPT !.retries = @ + 1] \in Task
  BY DEF Task, TaskOf
<1>4. QED
  BY <1>1, <1>2, <1>3 DEF BufferedRetry

LEMMA AssignTyped ==
  ASSUME NEW t \in Task, NEW w \in Worker
  PROVE  [t EXCEPT !.assigned_worker = w] \in Dispatched
BY DEF Dispatched, Task, TaskOf

\* A retry is a task of the same frame, one attempt further.
LEMMA RetryTyped ==
  ASSUME NEW t \in Task, NEW w \in Worker, minted \in [Frame -> Nat]
  PROVE  /\ RetryOf(t, w) \in Dispatched
         /\ RetryOf(t, w).frame_id = t.frame_id
         /\ RetryOf(t, w).retries = t.retries + 1
BY DEF RetryOf, NextId, Dispatched, Task, TaskOf

\* A new call, and a call that has moved on or lost its caller, are calls.
LEMMA CallTyped ==
  /\ \A t \in Dispatched, owner \in {"enqueue", "drain", "retry"} : NewCall(t, owner) \in Call
  /\ \A c \in Call, stage \in {"running", "stored", "answered"} :
       [c EXCEPT !.stage = stage] \in Call
  /\ \A c \in Call : [c EXCEPT !.open = FALSE] \in Call
BY DEF NewCall, Call

\* Moving a call on, closing it or leaving its execution behind keeps the set typed.
LEMMA ReachesTyped ==
  ASSUME calls \subseteq Call, NEW c \in calls
  PROVE  /\ \A stage \in {"running", "stored", "answered"} : Reaches(c, stage) => calls' \subseteq Call
         /\ Answers(c) => calls' \subseteq Call
BY CallTyped DEF Reaches, Answers

LEMMA EnqueueTyped ==
  ASSUME TypeOK, NEW f \in Frame, Enqueue(f)
  PROVE  TypeOK'
<1> USE DEF TypeOK, vars, queueVars, watchdogVars, envVars, outcomeVars
<1>1. CASE Candidates(workers) = {} /\ refused' = refused \cup {f} /\ UNCHANGED <<minted, calls>>
  BY <1>1 DEF Enqueue
<1>2. ASSUME NEW w \in LeastLoaded(workers),
             calls' = calls \cup
               {NewCall([frame_id |-> f, seq |-> minted[f],
                         assigned_worker |-> w, retries |-> 0], "enqueue")},
             minted' = [minted EXCEPT ![f] = @ + 1],
             UNCHANGED refused
      PROVE  TypeOK'
  <2>1. w \in Worker
    BY LeastLoadedIsWorker
  <2>2. [frame_id |-> f, seq |-> minted[f], assigned_worker |-> w, retries |-> 0]
          \in Dispatched
    BY <2>1 DEF Dispatched, TaskOf
  <2>3. calls' \subseteq Call
    BY <1>2, <2>2, CallTyped
  <2>4. minted' \in [Frame -> Nat]
    BY <1>2
  <2>5. QED
    BY <1>2, <2>3, <2>4 DEF Enqueue
<1>3. QED
  BY <1>1, <1>2 DEF Enqueue

LEMMA CallStepTyped ==
  ASSUME TypeOK, NEW c \in calls, CallStep(c)
  PROVE  TypeOK'
<1> USE DEF TypeOK, vars, queueVars, watchdogVars, envVars, outcomeVars
<1>1. c \in Call /\ c.task \in Dispatched /\ WorkerOf(c) \in Worker /\ workers \in Registry
  BY DEF Call, WorkerOf, Dispatched, TaskOf, Registry
<1>2. c.task \in Task
  BY <1>1, DispatchedIsTask
<1>3. CASE CountCall(c)
  BY <1>1, <1>3, ReachesTyped, PendingTyped DEF CountCall, Registry
<1>4. CASE StoreResult(c)
  <2>1. c.task.frame_id \in Frame
    BY <1>1 DEF Dispatched, TaskOf
  <2>2. QED
    BY <1>1, <1>4, <2>1, ReachesTyped, FramesTyped DEF StoreResult, Registry
<1>5. CASE LoseResult(c)
  BY <1>5, ReachesTyped DEF LoseResult
<1>6. CASE Acknowledge(c)
  <2>1. workers' \in Registry
    <3>1. ASSUME NEW t \in inflight, workers' = TimeoutReset(workers, t.assigned_worker)
          PROVE  workers' \in Registry
      <4>1. t.assigned_worker \in Worker
        BY DEF Dispatched, TaskOf
      <4>2. QED
        BY <1>1, <3>1, <4>1, EntryTyped
    <3>2. QED
      BY <1>1, <1>6, <3>1 DEF Acknowledge
  <2>2. inflight' \subseteq Dispatched /\ overdue' \subseteq inflight'
    BY <1>6 DEF Acknowledge, Without
  <2>3. QED
    BY <1>6, <2>1, <2>2, ReachesTyped DEF Acknowledge, Registry
<1>7. CASE LoseAck(c)
  <2>1. calls' \subseteq Call
    BY <1>1, <1>7, ReachesTyped, CallTyped DEF LoseAck
  <2>2. QED
    BY <1>7, <2>1 DEF LoseAck
<1>8. CASE Return(c)
  <2>1. inflight' \subseteq Dispatched /\ overdue' \subseteq inflight'
    BY <1>1, <1>8 DEF Return, Insert, Without
  <2>2. QED
    BY <1>8, <2>1 DEF Return, Resume
<1>9. CASE Fail(c)
  <2>1. calls' \subseteq Call
    BY <1>1, <1>9, CallTyped DEF Fail
  <2>2. pending' \subseteq Task /\ dropped' \subseteq Frame
    <3>1. c.task.frame_id \in Frame
      BY <1>1 DEF Dispatched, TaskOf
    <3>2. QED
      BY <1>2, <1>9, <3>1, BufferTyped DEF Fail
  <2>3. workers' \in Registry
    BY <1>1, <1>9, PendingTyped DEF Fail
  <2>4. QED
    BY <1>9, <2>1, <2>2, <2>3 DEF Fail, Resume, Registry
<1>10. QED
  BY <1>3, <1>4, <1>5, <1>6, <1>7, <1>8, <1>9 DEF CallStep

LEMMA WatchdogTyped ==
  ASSUME TypeOK, Watchdog
  PROVE  TypeOK'
<1> USE DEF TypeOK, vars, queueVars, watchdogVars, envVars, outcomeVars
<1>1. CASE Drain
  BY <1>1 DEF Drain
<1>2. CASE Rebuffer
  BY <1>2 DEF Rebuffer
<1>3. CASE Scan
  BY <1>3 DEF Scan, Snapshot
<1>4. CASE EndRound
  BY <1>4 DEF EndRound
<1>5. ASSUME NEW t \in drained, Assign(t) PROVE TypeOK'
  <2>1. CASE noWorker' = noWorker \cup {t} /\ UNCHANGED calls
    BY <1>5, <2>1 DEF Assign
  <2>2. ASSUME NEW w \in LeastLoaded(workers),
               calls' = calls \cup {NewCall([t EXCEPT !.assigned_worker = w], "drain")},
               UNCHANGED noWorker
        PROVE  TypeOK'
    <3>1. w \in Worker
      BY LeastLoadedIsWorker
    <3>2. [t EXCEPT !.assigned_worker = w] \in Dispatched
      BY <3>1, AssignTyped
    <3>3. calls' \subseteq Call
      BY <2>2, <3>2, CallTyped
    <3>4. QED
      BY <1>5, <2>2, <3>3 DEF Assign
  <2>3. QED
    BY <1>5, <2>1, <2>2 DEF Assign
<1>6. ASSUME NEW t \in timedOut, TimeOut(t) PROVE TypeOK'
  <2>1. t.assigned_worker \in Worker /\ workers \in Registry
    BY DEF Dispatched, TaskOf, Registry
  <2>2. workers' \in Registry
    BY <1>6, <2>1, PendingTyped, TimeoutTyped DEF TimeOut
  <2>3. inflight' \subseteq Dispatched /\ overdue' \subseteq inflight'
    BY <1>6 DEF TimeOut, Without
  <2>4. QED
    BY <1>6, <2>2, <2>3 DEF TimeOut, Registry
<1>7. ASSUME NEW t \in current, Drop(t) \/ BufferRetry(t) \/ Retry(t) PROVE TypeOK'
  <2>1. t \in Task /\ t.frame_id \in Frame
    BY DispatchedIsTask DEF Task, TaskOf
  <2>2. CASE Drop(t)
    BY <2>1, <2>2 DEF Drop
  <2>3. CASE BufferRetry(t)
    BY <2>1, <2>3, BufferTyped DEF BufferRetry
  <2>4. CASE Retry(t)
    <3>1. PICK w \in LeastLoaded(workers) :
            calls' = calls \cup {NewCall(RetryOf(t, w), "retry")}
      BY <2>4 DEF Retry
    <3>2. RetryOf(t, w) \in Dispatched
      BY <2>1, LeastLoadedIsWorker, RetryTyped
    <3>3. calls' \subseteq Call
      BY <3>1, <3>2, CallTyped
    <3>4. minted' \in [Frame -> Nat]
      BY <2>1, <2>4 DEF Retry
    <3>5. QED
      BY <2>4, <3>3, <3>4 DEF Retry
  <2>5. QED
    BY <1>7, <2>2, <2>3, <2>4
<1>8. QED
  BY <1>1, <1>2, <1>3, <1>4, <1>5, <1>6, <1>7 DEF Watchdog

LEMMA EnvironmentTyped ==
  ASSUME TypeOK, Environment
  PROVE  TypeOK'
<1> USE DEF TypeOK, vars, queueVars, watchdogVars, envVars, outcomeVars
<1>1. workers \in Registry
  BY DEF Registry
<1>2. ASSUME NEW w \in Worker, Register(w) PROVE TypeOK'
  <2>1. workers' \in Registry
    BY <1>1, <1>2, EntryTyped DEF Register
  <2>2. cancelling' \in [Worker -> Nat] /\ registrations' \in [Worker -> Nat]
    BY <1>2 DEF Register
  <2>3. QED
    BY <1>2, <2>1, <2>2 DEF Register, Registry
<1>3. ASSUME NEW w \in Worker, Remove(w) \/ Heartbeat(w) \/ GoSilent(w) PROVE TypeOK'
  <2>1. workers' \in Registry
    BY <1>1, <1>3, EntryTyped DEF Remove, Heartbeat, GoSilent
  <2>2. QED
    BY <1>3, <2>1 DEF Remove, Heartbeat, GoSilent, Registry
<1>4. ASSUME NEW w \in Worker, CancelInflight(w) PROVE TypeOK'
  <2>1. cancelling' \in [Worker -> Nat]
    BY <1>4 DEF CancelInflight
  <2>2. inflight' \subseteq Dispatched /\ overdue' \subseteq inflight'
    BY <1>4 DEF CancelInflight
  <2>3. \A ts \in SUBSET inflight : TakenBack(ts) \subseteq Task
    BY BufferTyped, DispatchedIsTask DEF TakenBack
  <2>4. pending' \subseteq Task
    BY <1>4, <2>3 DEF CancelInflight
  <2>5. QED
    BY <1>4, <2>1, <2>2, <2>4 DEF CancelInflight
<1>5. CASE EvictionTick
  <2>1. Local \in Worker
    BY WorkerManagerAssumption, FrameQueueAssumption
  <2>2. workers' \in Registry
    BY <1>1, <1>5, <2>1, EntryTyped, EvictionTyped DEF EvictionTick
  <2>3. QED
    BY <1>5, <2>2 DEF EvictionTick, Registry
<1>6. ASSUME NEW t \in inflight \ overdue, Expire(t) PROVE TypeOK'
  BY <1>6 DEF Expire
<1>7. QED
  BY <1>2, <1>3, <1>4, <1>5, <1>6 DEF Environment

LEMMA InitTyped == Init => TypeOK
<1> SUFFICES ASSUME Init PROVE TypeOK
  OBVIOUS
<1>1. Local \in Worker
  BY WorkerManagerAssumption, FrameQueueAssumption
<1>2. [w \in Worker |-> Unregistered] \in Registry
  BY WorkerManagerAssumption DEF Registry, WorkerInfo, Unregistered
<1>3. workers \in Registry
  BY <1>1, <1>2, EntryTyped DEF Init
<1>4. registrations \in [Worker -> Nat]
  BY DEF Init
<1>5. QED
  BY <1>3, <1>4 DEF Init, TypeOK, Registry

\* Every variable keeps its type through every step of callers, workers, watchdog
\* and environment.
LEMMA StepTyped == TypeOK /\ [Next]_vars => TypeOK'
<1> SUFFICES ASSUME TypeOK, [Next]_vars PROVE TypeOK'
  OBVIOUS
<1>1. CASE UNCHANGED vars
  BY <1>1 DEF TypeOK, vars, queueVars, watchdogVars, envVars, outcomeVars
<1>2. CASE Next
  BY <1>2, EnqueueTyped, CallStepTyped, WatchdogTyped, EnvironmentTyped DEF Next
<1>3. QED
  BY <1>1, <1>2

\* TypeOK for every set of workers and frames and every value of the limits: in
\* particular pending_frames never goes negative and the breaker's counter stays
\* within its threshold.
THEOREM TypeCorrect == Spec => []TypeOK
<1>1. Init => TypeOK
  BY InitTyped
<1>2. TypeOK /\ [Next]_vars => TypeOK'
  BY StepTyped
<1>3. QED
  BY <1>1, <1>2, PTL DEF Spec

-----------------------------------------------------------------------------
\* The watchdog's phases.

\* A step of a call leaves the local lists alone, and lets the watchdog resume only
\* when it closes the retry call it was waiting for.
LEMMA CallStepPhases ==
  ASSUME TypeOK, WatchdogPhases, NEW c \in calls, CallStep(c)
  PROVE  WatchdogPhases'
<1> USE DEF vars, queueVars, watchdogVars, envVars, outcomeVars
<1>1. c \in Call
  BY DEF TypeOK
<1>2. UNCHANGED <<drained, noWorker, timedOut, current>>
  BY DEF CallStep, CountCall, StoreResult, LoseResult, Acknowledge, LoseAck, Return, Fail
<1>3. ASSUME NEW stage \in {"running", "stored", "answered"}, Reaches(c, stage),
             wpc' = wpc
      PROVE  WatchdogPhases'
  <2>1. [c EXCEPT !.stage = stage].open = c.open /\ [c EXCEPT !.stage = stage].owner = c.owner
    BY <1>1 DEF Call
  <2>2. wpc' # "await" => OpenCalls("retry")' = {}
    BY <1>3, <2>1 DEF Reaches, OpenCalls, WatchdogPhases
  <2>3. \A d, e \in OpenCalls("retry")' : d = e
    BY <1>3, <2>1 DEF Reaches, OpenCalls, WatchdogPhases
  <2>4. QED
    BY <1>2, <1>3, <2>2, <2>3 DEF WatchdogPhases
<1>4. ASSUME calls' \subseteq calls \cup {d \in Call : ~d.open}, wpc' = wpc
      PROVE  WatchdogPhases'
  <2>1. OpenCalls("retry")' \subseteq OpenCalls("retry")
    BY <1>4 DEF OpenCalls
  <2>2. QED
    BY <1>2, <1>4, <2>1 DEF WatchdogPhases
<1>5. ASSUME c.open, calls' \subseteq (calls \ {c}) \cup {d \in Call : ~d.open}, Resume(c)
      PROVE  WatchdogPhases'
  <2>1. OpenCalls("retry")' \subseteq OpenCalls("retry") \ {c}
    BY <1>5 DEF OpenCalls
  <2>2. CASE c.owner = "retry"
    <3>1. c \in OpenCalls("retry") /\ wpc = "await"
      BY <1>5, <2>2 DEF OpenCalls, WatchdogPhases
    <3>2. OpenCalls("retry")' = {} /\ wpc' = "retry"
      BY <1>5, <2>1, <2>2, <3>1 DEF WatchdogPhases, Resume
    <3>3. QED
      BY <1>2, <3>1, <3>2 DEF WatchdogPhases
  <2>3. CASE c.owner # "retry"
    BY <1>2, <1>5, <2>1, <2>3 DEF WatchdogPhases, Resume
  <2>4. QED
    BY <2>2, <2>3
<1>6. [c EXCEPT !.open = FALSE] \in Call /\ ~[c EXCEPT !.open = FALSE].open
  BY <1>1 DEF Call
<1>7. CASE CountCall(c)
  BY <1>3, <1>7 DEF CountCall
<1>8. CASE StoreResult(c)
  BY <1>3, <1>8 DEF StoreResult
<1>9. CASE LoseResult(c)
  BY <1>3, <1>4, <1>9 DEF LoseResult, Answers
<1>10. CASE Acknowledge(c)
  BY <1>3, <1>4, <1>10 DEF Acknowledge, Answers
<1>11. CASE LoseAck(c)
  <2>1. CASE Answers(c)
    BY <1>3, <1>4, <1>11, <2>1 DEF LoseAck, Answers
  <2>2. CASE calls' = (calls \ {c}) \cup {[c EXCEPT !.stage = "answered"],
                                         [c EXCEPT !.open = FALSE]}
    <3>1. [c EXCEPT !.stage = "answered"].open = c.open
            /\ [c EXCEPT !.stage = "answered"].owner = c.owner
      BY <1>1 DEF Call
    <3>2. wpc' # "await" => OpenCalls("retry")' = {}
      BY <1>6, <1>11, <2>2, <3>1 DEF LoseAck, OpenCalls, WatchdogPhases
    <3>3. \A d, e \in OpenCalls("retry")' : d = e
      BY <1>6, <1>11, <2>2, <3>1 DEF LoseAck, OpenCalls, WatchdogPhases
    <3>4. QED
      BY <1>2, <1>11, <3>2, <3>3 DEF LoseAck, WatchdogPhases
  <2>3. QED
    BY <1>11, <2>1, <2>2 DEF LoseAck
<1>12. CASE Return(c)
  BY <1>5, <1>12 DEF Return
<1>13. CASE Fail(c)
  BY <1>5, <1>6, <1>13 DEF Fail
<1>14. QED
  BY <1>7, <1>8, <1>9, <1>10, <1>11, <1>12, <1>13 DEF CallStep

LEMMA WatchdogStepPhases ==
  ASSUME TypeOK, WatchdogPhases, Watchdog
  PROVE  WatchdogPhases'
<1> USE DEF vars, queueVars, watchdogVars, envVars, outcomeVars
<1>1. CASE Drain
  BY <1>1 DEF Drain, WatchdogPhases, OpenCalls
<1>2. CASE Rebuffer
  BY <1>2 DEF Rebuffer, WatchdogPhases, OpenCalls
<1>3. CASE Scan
  BY <1>3 DEF Scan, WatchdogPhases, OpenCalls
<1>4. CASE EndRound
  BY <1>4 DEF EndRound, WatchdogPhases, OpenCalls
<1>5. ASSUME NEW t \in drained, Assign(t) PROVE WatchdogPhases'
  <2>1. OpenCalls("retry")' = OpenCalls("retry")
    BY <1>5 DEF Assign, OpenCalls, NewCall
  <2>2. QED
    BY <1>5, <2>1 DEF Assign, WatchdogPhases
<1>6. ASSUME NEW t \in timedOut, TimeOut(t) PROVE WatchdogPhases'
  BY <1>6 DEF TimeOut, WatchdogPhases, OpenCalls
<1>7. ASSUME NEW t \in current, Drop(t) \/ BufferRetry(t) \/ Retry(t) PROVE WatchdogPhases'
  <2>1. CASE Drop(t)
    BY <2>1 DEF Drop, WatchdogPhases, OpenCalls
  <2>2. CASE BufferRetry(t)
    BY <2>2 DEF BufferRetry, WatchdogPhases, OpenCalls
  <2>3. CASE Retry(t)
    <3>1. OpenCalls("retry") = {}
      BY <2>3 DEF Retry, WatchdogPhases
    <3>2. \A d, e \in OpenCalls("retry")' : d = e
      BY <2>3, <3>1 DEF Retry, OpenCalls
    <3>3. QED
      BY <2>3, <3>2 DEF Retry, WatchdogPhases
  <2>4. QED
    BY <1>7, <2>1, <2>2, <2>3
<1>8. QED
  BY <1>1, <1>2, <1>3, <1>4, <1>5, <1>6, <1>7 DEF Watchdog

\* WatchdogPhases is inductive relative to TypeOK.
LEMMA StepPhases == TypeOK /\ WatchdogPhases /\ [Next]_vars => WatchdogPhases'
<1> SUFFICES ASSUME TypeOK, WatchdogPhases, [Next]_vars PROVE WatchdogPhases'
  OBVIOUS
<1> USE DEF vars, queueVars, watchdogVars, envVars, outcomeVars
<1>1. CASE UNCHANGED vars
  BY <1>1 DEF WatchdogPhases, OpenCalls
<1>2. ASSUME NEW f \in Frame, Enqueue(f) PROVE WatchdogPhases'
  <2>1. OpenCalls("retry")' = OpenCalls("retry")
    BY <1>2 DEF Enqueue, OpenCalls, NewCall
  <2>2. QED
    BY <1>2, <2>1 DEF Enqueue, WatchdogPhases
<1>3. CASE Environment
  <2>1. UNCHANGED <<calls, watchdogVars>>
    BY <1>3 DEF Environment, Register, Remove, Heartbeat, GoSilent, CancelInflight,
                EvictionTick, Expire
  <2>2. QED
    BY <2>1 DEF WatchdogPhases, OpenCalls
<1>4. QED
  BY <1>1, <1>2, <1>3, CallStepPhases, WatchdogStepPhases DEF Next

-----------------------------------------------------------------------------
\* No silent loss.  A task leaves a place only for another place, or when its
\* frame is delivered or dropped.  The one step that removes a task for good, an
\* acknowledgement, is safe because its execution stored the result before: that
\* is StoredIsDelivered, without which NoSilentLoss is not inductive.

LossInv == TypeOK /\ WatchdogPhases /\ StoredIsDelivered /\ NoSilentLoss

\* Where a frame without an outcome can be found.
Somewhere(f) ==
  \/ f \in Settled
  \/ \E t \in pending  : t.frame_id = f
  \/ \E t \in inflight : t.frame_id = f
  \/ \E t \in drained  : t.frame_id = f
  \/ \E t \in noWorker : t.frame_id = f
  \/ \E t \in timedOut : t.frame_id = f
  \/ \E t \in current  : t.frame_id = f
  \/ \E c \in calls : c.open /\ c.task.frame_id = f

LEMMA LossPlaceByPlace ==
  /\ NoSilentLoss <=> \A f \in submitted : Somewhere(f)
  /\ NoSilentLoss' <=> \A f \in submitted' : Somewhere(f)'
BY DEF NoSilentLoss, Somewhere, Held

\* Rewriting a task for the buffer or for another attempt keeps its frame.
LEMMA SameFrame ==
  ASSUME NEW t \in Task
  PROVE  /\ Buffered(t).frame_id = t.frame_id
         /\ BufferedRetry(t).frame_id = t.frame_id
         /\ [Buffered(t) EXCEPT !.retries = 0].frame_id = t.frame_id
         /\ \A w \in Worker : [t EXCEPT !.assigned_worker = w].frame_id = t.frame_id
<1>1. Buffered(t) \in Task /\ Buffered(t).frame_id = t.frame_id
  BY DEF Buffered, Task, TaskOf
<1>2. \A u \in Task : [u EXCEPT !.retries = 0].frame_id = u.frame_id
  BY DEF Task, TaskOf
<1>3. \A u \in Task : [u EXCEPT !.retries = @ + 1].frame_id = u.frame_id
  BY DEF Task, TaskOf
<1>4. \A w \in Worker : [t EXCEPT !.assigned_worker = w].frame_id = t.frame_id
  BY DEF Task, TaskOf
<1>5. QED
  BY <1>1, <1>2, <1>3, <1>4 DEF BufferedRetry

\* A new call is open and holds the task it was made for.
LEMMA NewCallHolds ==
  ASSUME NEW t, NEW owner
  PROVE  NewCall(t, owner).open /\ NewCall(t, owner).task = t
BY DEF NewCall

\* A step that submits nothing has to keep every frame somewhere.
LEMMA LossStep ==
  ASSUME NoSilentLoss, submitted' = submitted,
         \A f \in submitted : Somewhere(f) => Somewhere(f)'
  PROVE  NoSilentLoss'
BY LossPlaceByPlace

LEMMA EnqueueKeeps ==
  ASSUME LossInv, NEW f \in Frame, Enqueue(f)
  PROVE  StoredIsDelivered' /\ NoSilentLoss'
<1> USE DEF LossInv, vars, queueVars, watchdogVars, envVars, outcomeVars
<1>1. StoredIsDelivered'
  BY DEF Enqueue, StoredIsDelivered, NewCall
<1>2. Somewhere(f)'
  <2>1. CASE refused' = refused \cup {f}
    BY <2>1 DEF Somewhere, Settled
  <2>2. ASSUME NEW w \in LeastLoaded(workers),
               calls' = calls \cup
                 {NewCall([frame_id |-> f, seq |-> minted[f],
                           assigned_worker |-> w, retries |-> 0], "enqueue")}
        PROVE  Somewhere(f)'
    <3> DEFINE t == [frame_id |-> f, seq |-> minted[f], assigned_worker |-> w, retries |-> 0]
    <3>1. t.frame_id = f
      OBVIOUS
    <3>2. NewCall(t, "enqueue") \in calls'
      BY <2>2
    <3> HIDE DEF t
    <3>3. QED
      BY <3>1, <3>2, NewCallHolds DEF Somewhere
  <2>3. QED
    BY <2>1, <2>2 DEF Enqueue
<1>3. \A g \in submitted : Somewhere(g) => Somewhere(g)'
  BY DEF Enqueue, Somewhere, Settled
<1>4. QED
  BY <1>1, <1>2, <1>3, LossPlaceByPlace DEF Enqueue

LEMMA CallStepKeeps ==
  ASSUME LossInv, NEW c \in calls, CallStep(c)
  PROVE  StoredIsDelivered' /\ NoSilentLoss'
<1> USE DEF LossInv, vars, queueVars, watchdogVars, envVars, outcomeVars
<1>1. c \in Call /\ c.task \in Task /\ calls \subseteq Call
  BY DispatchedIsTask DEF TypeOK, Call
<1>2. ASSUME NEW stage \in {"running", "stored", "answered"}, Reaches(c, stage),
             UNCHANGED <<queueVars, watchdogVars>>, NEW f \in submitted, Somewhere(f),
             Settled \subseteq Settled'
      PROVE  Somewhere(f)'
  <2>1. [c EXCEPT !.stage = stage].open = c.open /\ [c EXCEPT !.stage = stage].task = c.task
    BY <1>1 DEF Call
  <2>2. QED
    BY <1>2, <2>1 DEF Reaches, Somewhere
<1>3. CASE CountCall(c)
  <2>1. StoredIsDelivered'
    BY <1>1, <1>3 DEF CountCall, Reaches, StoredIsDelivered, Call
  <2>2. QED
    BY <1>2, <1>3, <2>1, LossStep DEF CountCall, Settled
<1>4. CASE StoreResult(c)
  <2>1. StoredIsDelivered'
    BY <1>1, <1>4 DEF StoreResult, Reaches, StoredIsDelivered, Call
  <2>2. QED
    BY <1>2, <1>4, <2>1, LossStep DEF StoreResult, Settled
<1>5. CASE LoseResult(c)
  <2>1. StoredIsDelivered'
    BY <1>1, <1>5 DEF LoseResult, Answers, Reaches, StoredIsDelivered, Call
  <2>2. QED
    BY <1>2, <1>5, <2>1, LossStep DEF LoseResult, Answers, Settled, Somewhere
<1>6. CASE Acknowledge(c)
  <2>1. StoredIsDelivered'
    BY <1>1, <1>6 DEF Acknowledge, Answers, Reaches, StoredIsDelivered, Call
  <2>2. c.task.frame_id \in delivered
    BY <1>6 DEF Acknowledge, StoredIsDelivered
  <2>3. \A t \in inflight \ inflight' : t.frame_id = c.task.frame_id
    BY <1>6 DEF Acknowledge, Without, TaskId
  <2>4. ASSUME NEW f \in submitted, Somewhere(f), f # c.task.frame_id
        PROVE  Somewhere(f)'
    BY <1>1, <1>6, <2>3, <2>4 DEF Acknowledge, Answers, Reaches, Somewhere, Settled, Call
  <2>5. Somewhere(c.task.frame_id)'
    BY <1>6, <2>2 DEF Acknowledge, Somewhere, Settled
  <2>6. QED
    BY <1>6, <2>1, <2>4, <2>5, LossStep DEF Acknowledge
<1>7. CASE LoseAck(c)
  <2>1. StoredIsDelivered'
    BY <1>1, <1>7 DEF LoseAck, Answers, Reaches, StoredIsDelivered, Call
  <2>2. c.task.frame_id \in delivered
    BY <1>7 DEF LoseAck, StoredIsDelivered
  <2>3. ASSUME NEW f \in submitted, Somewhere(f), f # c.task.frame_id PROVE Somewhere(f)'
    BY <1>7, <2>3 DEF LoseAck, Answers, Reaches, Somewhere, Settled
  <2>4. QED
    BY <1>7, <2>1, <2>2, <2>3, LossStep DEF LoseAck, Somewhere, Settled
<1>8. CASE Return(c)
  <2>1. StoredIsDelivered'
    BY <1>8 DEF Return, StoredIsDelivered
  <2>2. \A t \in inflight \ inflight' : t.frame_id = c.task.frame_id
    BY <1>8 DEF Return, Insert, Without, TaskId
  <2>3. ASSUME NEW f \in submitted, Somewhere(f) PROVE Somewhere(f)'
    <3>1. CASE f = c.task.frame_id
      BY <1>8, <3>1 DEF Return, Insert, Somewhere
    <3>2. CASE f # c.task.frame_id
      BY <1>8, <2>2, <2>3, <3>2 DEF Return, Somewhere, Settled
    <3>3. QED
      BY <3>1, <3>2
  <2>4. QED
    BY <1>8, <2>1, <2>3, LossStep DEF Return
<1>9. CASE Fail(c)
  <2>1. StoredIsDelivered'
    BY <1>1, <1>9 DEF Fail, StoredIsDelivered, Call
  <2>2. Somewhere(c.task.frame_id)'
    BY <1>1, <1>9, SameFrame DEF Fail, Somewhere, Settled
  <2>3. ASSUME NEW f \in submitted, Somewhere(f), f # c.task.frame_id
        PROVE  Somewhere(f)'
    BY <1>9, <2>3 DEF Fail, Somewhere, Settled
  <2>4. QED
    BY <1>9, <2>1, <2>2, <2>3, LossStep DEF Fail
<1>10. QED
  BY <1>3, <1>4, <1>5, <1>6, <1>7, <1>8, <1>9 DEF CallStep

LEMMA WatchdogKeeps ==
  ASSUME LossInv, Watchdog
  PROVE  StoredIsDelivered' /\ NoSilentLoss'
<1> USE DEF LossInv, vars, queueVars, watchdogVars, envVars, outcomeVars
<1>1. CASE Drain
  <2>1. drained = {}
    BY <1>1 DEF Drain, WatchdogPhases
  <2>2. QED
    BY <1>1, <2>1, LossStep DEF Drain, Somewhere, Settled, StoredIsDelivered
<1>2. CASE Rebuffer
  BY <1>2, LossStep DEF Rebuffer, Somewhere, Settled, StoredIsDelivered
<1>3. CASE Scan
  <2>1. timedOut = {}
    BY <1>3 DEF Scan, WatchdogPhases
  <2>2. QED
    BY <1>3, <2>1, LossStep DEF Scan, Somewhere, Settled, StoredIsDelivered
<1>4. CASE EndRound
  BY <1>4, LossStep DEF EndRound, Somewhere, Settled, StoredIsDelivered
<1>5. ASSUME NEW t \in drained, Assign(t) PROVE StoredIsDelivered' /\ NoSilentLoss'
  <2>1. t \in Task
    BY DEF TypeOK
  <2>2. StoredIsDelivered'
    BY <1>5 DEF Assign, StoredIsDelivered, NewCall
  <2>3. ASSUME NEW f \in submitted, Somewhere(f), f # t.frame_id PROVE Somewhere(f)'
    BY <1>5, <2>3 DEF Assign, Somewhere, Settled
  <2>4. Somewhere(t.frame_id)'
    <3>1. CASE noWorker' = noWorker \cup {t}
      BY <3>1 DEF Somewhere
    <3>2. ASSUME NEW w \in LeastLoaded(workers),
                 calls' = calls \cup {NewCall([t EXCEPT !.assigned_worker = w], "drain")}
          PROVE  Somewhere(t.frame_id)'
      <4> DEFINE u == [t EXCEPT !.assigned_worker = w]
      <4>1. u.frame_id = t.frame_id
        BY <2>1, LeastLoadedIsWorker, SameFrame
      <4>2. NewCall(u, "drain") \in calls'
        BY <3>2
      <4> HIDE DEF u
      <4>3. QED
        BY <4>1, <4>2, NewCallHolds DEF Somewhere
    <3>3. QED
      BY <1>5, <3>1, <3>2 DEF Assign
  <2>5. QED
    BY <1>5, <2>2, <2>3, <2>4, LossStep DEF Assign
<1>6. ASSUME NEW t \in timedOut, TimeOut(t) PROVE StoredIsDelivered' /\ NoSilentLoss'
  <2>1. \A u \in inflight \ inflight' : u.frame_id = t.frame_id
    BY <1>6 DEF TimeOut, Without, TaskId
  <2>2. current = {}
    BY <1>6 DEF TimeOut, WatchdogPhases
  <2>3. Somewhere(t.frame_id)'
    BY <1>6 DEF TimeOut, Somewhere
  <2>4. ASSUME NEW f \in submitted, Somewhere(f), f # t.frame_id PROVE Somewhere(f)'
    BY <1>6, <2>1, <2>2, <2>4 DEF TimeOut, Somewhere, Settled
  <2>5. QED
    BY <1>6, <2>3, <2>4, LossStep DEF TimeOut, StoredIsDelivered
<1>7. ASSUME NEW t \in current, Drop(t) \/ BufferRetry(t) \/ Retry(t)
      PROVE  StoredIsDelivered' /\ NoSilentLoss'
  <2>1. t \in Task /\ current = {t} /\ minted \in [Frame -> Nat]
    BY DispatchedIsTask DEF TypeOK, WatchdogPhases
  <2>2. CASE Drop(t)
    BY <2>1, <2>2, LossStep DEF Drop, Somewhere, Settled, StoredIsDelivered
  <2>3. CASE BufferRetry(t)
    <3>1. BufferedRetry(t).frame_id = t.frame_id
      BY <2>1, SameFrame
    <3>2. QED
      BY <2>1, <2>3, <3>1, LossStep DEF BufferRetry, Somewhere, Settled, StoredIsDelivered
  <2>4. CASE Retry(t)
    <3>1. PICK w \in LeastLoaded(workers) :
            calls' = calls \cup {NewCall(RetryOf(t, w), "retry")}
      BY <2>4 DEF Retry
    <3>2. RetryOf(t, w).frame_id = t.frame_id
      BY <2>1, LeastLoadedIsWorker, RetryTyped
    <3>3. Somewhere(t.frame_id)'
      BY <3>1, <3>2, NewCallHolds DEF Somewhere
    <3>4. ASSUME NEW f \in submitted, Somewhere(f), f # t.frame_id PROVE Somewhere(f)'
      BY <2>1, <2>4, <3>1, <3>4 DEF Retry, Somewhere, Settled
    <3>5. StoredIsDelivered'
      BY <2>4, <3>1 DEF Retry, StoredIsDelivered, NewCall
    <3>6. QED
      BY <2>4, <3>3, <3>4, <3>5, LossStep DEF Retry
  <2>5. QED
    BY <1>7, <2>2, <2>3, <2>4
<1>8. QED
  BY <1>1, <1>2, <1>3, <1>4, <1>5, <1>6, <1>7 DEF Watchdog

LEMMA EnvironmentKeeps ==
  ASSUME LossInv, Environment
  PROVE  StoredIsDelivered' /\ NoSilentLoss'
<1> USE DEF LossInv, vars, queueVars, watchdogVars, envVars, outcomeVars
<1>1. ASSUME NEW w \in Worker, CancelInflight(w)
      PROVE  StoredIsDelivered' /\ NoSilentLoss'
  <2>1. \A t \in inflight \ inflight' : \E u \in pending' : u.frame_id = t.frame_id
    <3>1. ASSUME NEW t \in inflight \ inflight'
          PROVE  \E u \in pending' : u.frame_id = t.frame_id
      <4>1. t \in Task /\ t.assigned_worker = w
        BY <1>1, DispatchedIsTask DEF CancelInflight, TypeOK
      <4>2. [Buffered(t) EXCEPT !.retries = 0] \in pending'
        BY <1>1, <4>1 DEF CancelInflight, TakenBack
      <4>3. QED
        BY <4>1, <4>2, SameFrame
    <3>2. QED
      BY <3>1
  <2>2. pending \subseteq pending'
    BY <1>1 DEF CancelInflight
  <2>3. ASSUME NEW f \in submitted, Somewhere(f) PROVE Somewhere(f)'
    BY <1>1, <2>1, <2>2, <2>3 DEF CancelInflight, Somewhere, Settled
  <2>4. QED
    BY <1>1, <2>3, LossStep DEF CancelInflight, StoredIsDelivered
<1>2. CASE UNCHANGED <<submitted, pending, inflight, calls, watchdogVars, outcomeVars>>
  BY <1>2, LossStep DEF Somewhere, Settled, StoredIsDelivered
<1>3. QED
  BY <1>1, <1>2 DEF Environment, Register, Remove, Heartbeat, GoSilent, EvictionTick, Expire

\* The inductive invariant behind NoSilentLoss holds initially and in every step.
LEMMA LossInductive ==
  /\ Init => LossInv
  /\ LossInv /\ [Next]_vars => LossInv'
<1>1. Init => LossInv
  BY InitTyped DEF Init, LossInv, WatchdogPhases, OpenCalls, StoredIsDelivered, NoSilentLoss
<1>2. ASSUME LossInv, [Next]_vars PROVE LossInv'
  <2>1. TypeOK' /\ WatchdogPhases'
    BY <1>2, StepTyped, StepPhases DEF LossInv
  <2>2. CASE UNCHANGED vars
    <3>1. UNCHANGED <<submitted, pending, inflight, calls, watchdogVars, outcomeVars>>
      BY <2>2 DEF vars, queueVars
    <3>2. \A f \in submitted : Somewhere(f) => Somewhere(f)'
      BY <3>1 DEF Somewhere, Settled, watchdogVars, outcomeVars
    <3>3. StoredIsDelivered'
      BY <1>2, <3>1 DEF LossInv, StoredIsDelivered, outcomeVars
    <3>4. QED
      BY <1>2, <2>1, <3>1, <3>2, <3>3, LossStep DEF LossInv
  <2>3. CASE Next
    <3>1. StoredIsDelivered' /\ NoSilentLoss'
      BY <1>2, <2>3, EnqueueKeeps, CallStepKeeps, WatchdogKeeps, EnvironmentKeeps DEF Next
    <3>2. QED
      BY <2>1, <3>1 DEF LossInv
  <2>4. QED
    BY <1>2, <2>2, <2>3
<1>3. QED
  BY <1>1, <1>2

\* No frame given to enqueue is lost without being counted: it has a result, was
\* dropped or refused, or a task of it is still held, whatever calls, workers,
\* callbacks and the watchdog did in between.
THEOREM NothingLost == Spec => []NoSilentLoss
<1>1. LossInv => NoSilentLoss
  BY DEF LossInv
<1>2. QED
  BY <1>1, LossInductive, PTL DEF Spec

-----------------------------------------------------------------------------
\* The retry budget.

\* Buffering and reassigning a task keep its count of retries, a buffered retry
\* adds one, and a cancel starts again from zero.
LEMMA SameRetries ==
  ASSUME NEW t \in Task
  PROVE  /\ Buffered(t).retries = t.retries
         /\ BufferedRetry(t).retries = t.retries + 1
         /\ [Buffered(t) EXCEPT !.retries = 0].retries = 0
         /\ \A w \in Worker : [t EXCEPT !.assigned_worker = w].retries = t.retries
<1>1. Buffered(t) \in Task /\ Buffered(t).retries = t.retries
  BY DEF Buffered, Task, TaskOf
<1>2. \A u \in Task : [u EXCEPT !.retries = 0].retries = 0
  BY DEF Task, TaskOf
<1>3. \A u \in Task : [u EXCEPT !.retries = @ + 1].retries = u.retries + 1
  BY DEF Task, TaskOf
<1>4. \A w \in Worker : [t EXCEPT !.assigned_worker = w].retries = t.retries
  BY DEF Task, TaskOf
<1>5. QED
  BY <1>1, <1>2, <1>3, <1>4 DEF BufferedRetry

WithinBudget(t) == t.retries <= MAX_RETRIES

\* The places a task can be held in, as a set of tasks.
LEMMA HeldBudget ==
  /\ RetriesBounded <=>
       /\ \A t \in pending \cup inflight \cup drained \cup noWorker \cup timedOut \cup current :
            WithinBudget(t)
       /\ \A c \in calls : c.open => WithinBudget(c.task)
  /\ RetriesBounded' <=>
       /\ \A t \in pending' \cup inflight' \cup drained' \cup noWorker' \cup timedOut' \cup current' :
            WithinBudget(t)
       /\ \A c \in calls' : c.open => WithinBudget(c.task)
BY DEF RetriesBounded, Held, WithinBudget

LEMMA CallStepBudget ==
  ASSUME TypeOK, RetriesBounded, NEW c \in calls, CallStep(c)
  PROVE  RetriesBounded'
<1> USE HeldBudget DEF vars, queueVars, watchdogVars, envVars, outcomeVars
<1>1. c \in Call /\ c.task \in Task
  BY DispatchedIsTask DEF TypeOK, Call
<1>2. \A stage \in {"running", "stored", "answered"} :
        /\ [c EXCEPT !.stage = stage].open = c.open
        /\ [c EXCEPT !.stage = stage].task = c.task
  BY <1>1 DEF Call
<1>3. ~[c EXCEPT !.open = FALSE].open
  BY <1>1 DEF Call
<1>4. CASE CountCall(c) \/ StoreResult(c)
  BY <1>2, <1>4 DEF CountCall, StoreResult, Reaches
<1>5. CASE LoseResult(c)
  BY <1>2, <1>5 DEF LoseResult, Answers, Reaches
<1>6. CASE Acknowledge(c)
  <2>1. inflight' \subseteq inflight
    BY <1>6 DEF Acknowledge, Without
  <2>2. QED
    BY <1>2, <1>6, <2>1 DEF Acknowledge, Answers, Reaches
<1>7. CASE LoseAck(c)
  BY <1>2, <1>3, <1>7 DEF LoseAck, Answers, Reaches
<1>8. CASE Return(c)
  <2>1. inflight' \subseteq inflight \cup {c.task}
    BY <1>8 DEF Return, Insert, Without
  <2>2. QED
    BY <1>8, <2>1 DEF Return
<1>9. CASE Fail(c)
  <2>1. pending' \subseteq pending \cup {Buffered(c.task)}
    BY <1>9 DEF Fail
  <2>2. c.open => WithinBudget(Buffered(c.task))
    BY <1>1, SameRetries DEF WithinBudget
  <2>3. QED
    BY <1>3, <1>9, <2>1, <2>2 DEF Fail
<1>10. QED
  BY <1>4, <1>5, <1>6, <1>7, <1>8, <1>9 DEF CallStep

LEMMA WatchdogBudget ==
  ASSUME TypeOK, RetriesBounded, Watchdog
  PROVE  RetriesBounded'
<1> USE HeldBudget DEF vars, queueVars, watchdogVars, envVars, outcomeVars
<1>1. CASE Drain \/ Rebuffer \/ EndRound
  BY <1>1 DEF Drain, Rebuffer, EndRound
<1>2. CASE Scan
  BY <1>2 DEF Scan, Snapshot, TypeOK
<1>3. ASSUME NEW t \in drained, Assign(t) PROVE RetriesBounded'
  <2>1. t \in Task
    BY DEF TypeOK
  <2>2. CASE noWorker' = noWorker \cup {t} /\ UNCHANGED calls
    BY <1>3, <2>2 DEF Assign
  <2>3. ASSUME NEW w \in LeastLoaded(workers), UNCHANGED noWorker,
               calls' = calls \cup {NewCall([t EXCEPT !.assigned_worker = w], "drain")}
        PROVE  RetriesBounded'
    <3> DEFINE u == [t EXCEPT !.assigned_worker = w]
    <3>1. WithinBudget(u)
      BY <2>1, LeastLoadedIsWorker, SameRetries DEF WithinBudget
    <3>2. calls' = calls \cup {NewCall(u, "drain")}
      BY <2>3
    <3> HIDE DEF u
    <3>3. QED
      BY <1>3, <2>3, <3>1, <3>2, NewCallHolds DEF Assign
  <2>4. QED
    BY <1>3, <2>2, <2>3 DEF Assign
<1>4. ASSUME NEW t \in timedOut, TimeOut(t) PROVE RetriesBounded'
  BY <1>4 DEF TimeOut, Without
<1>5. ASSUME NEW t \in current, Drop(t) \/ BufferRetry(t) \/ Retry(t) PROVE RetriesBounded'
  <2>1. t \in Task /\ t.retries \in Nat /\ MAX_RETRIES \in Nat /\ minted \in [Frame -> Nat]
    BY DispatchedIsTask, FrameQueueAssumption DEF TypeOK, Task, TaskOf
  <2>2. ~Spent(t) => t.retries + 1 <= MAX_RETRIES
    BY <2>1 DEF Spent
  <2>3. CASE Drop(t)
    BY <2>3 DEF Drop
  <2>4. CASE BufferRetry(t)
    <3>1. WithinBudget(BufferedRetry(t))
      BY <2>1, <2>2, <2>4, SameRetries DEF BufferRetry, WithinBudget
    <3>2. QED
      BY <2>4, <3>1 DEF BufferRetry
  <2>5. CASE Retry(t)
    <3>1. PICK w \in LeastLoaded(workers) :
            calls' = calls \cup {NewCall(RetryOf(t, w), "retry")}
      BY <2>5 DEF Retry
    <3>2. WithinBudget(RetryOf(t, w))
      BY <2>1, <2>2, <2>5, LeastLoadedIsWorker, RetryTyped DEF Retry, WithinBudget
    <3>3. QED
      BY <2>5, <3>1, <3>2, NewCallHolds DEF Retry
  <2>6. QED
    BY <1>5, <2>3, <2>4, <2>5
<1>6. QED
  BY <1>1, <1>2, <1>3, <1>4, <1>5 DEF Watchdog

LEMMA EnvironmentBudget ==
  ASSUME TypeOK, RetriesBounded, Environment
  PROVE  RetriesBounded'
<1> USE HeldBudget DEF vars, queueVars, watchdogVars, envVars, outcomeVars
<1>1. ASSUME NEW w \in Worker, CancelInflight(w) PROVE RetriesBounded'
  <2>1. inflight' \subseteq inflight
    BY <1>1 DEF CancelInflight
  <2>2. ASSUME NEW t \in pending' \ pending PROVE WithinBudget(t)
    <3>1. PICK u \in inflight : t = [Buffered(u) EXCEPT !.retries = 0]
      BY <1>1, <2>2 DEF CancelInflight, TakenBack
    <3>2. u \in Task /\ MAX_RETRIES \in Nat
      BY DispatchedIsTask, FrameQueueAssumption DEF TypeOK
    <3>3. t.retries = 0
      BY <3>1, <3>2, SameRetries
    <3>4. QED
      BY <3>2, <3>3 DEF WithinBudget
  <2>3. QED
    BY <1>1, <2>1, <2>2 DEF CancelInflight
<1>2. CASE UNCHANGED <<pending, inflight, calls, watchdogVars>>
  BY <1>2
<1>3. QED
  BY <1>1, <1>2 DEF Environment, Register, Remove, Heartbeat, GoSilent, EvictionTick, Expire

LEMMA StepBudget == TypeOK /\ RetriesBounded /\ [Next]_vars => RetriesBounded'
<1> SUFFICES ASSUME TypeOK, RetriesBounded, [Next]_vars PROVE RetriesBounded'
  OBVIOUS
<1>1. CASE UNCHANGED vars
  BY <1>1, HeldBudget DEF vars, queueVars, watchdogVars
<1>2. ASSUME NEW f \in Frame, Enqueue(f) PROVE RetriesBounded'
  <2>1. CASE UNCHANGED calls
    BY <1>2, <2>1, HeldBudget DEF Enqueue, queueVars, watchdogVars
  <2>2. ASSUME NEW w \in LeastLoaded(workers),
               calls' = calls \cup
                 {NewCall([frame_id |-> f, seq |-> minted[f],
                           assigned_worker |-> w, retries |-> 0], "enqueue")}
        PROVE  RetriesBounded'
    <3> DEFINE t == [frame_id |-> f, seq |-> minted[f], assigned_worker |-> w,
                     retries |-> 0]
    <3>1. WithinBudget(t)
      BY FrameQueueAssumption DEF WithinBudget
    <3>2. calls' = calls \cup {NewCall(t, "enqueue")}
      BY <2>2
    <3> HIDE DEF t
    <3>3. QED
      BY <1>2, <3>1, <3>2, HeldBudget, NewCallHolds DEF Enqueue, queueVars, watchdogVars
  <2>3. QED
    BY <1>2, <2>1, <2>2 DEF Enqueue
<1>3. QED
  BY <1>1, <1>2, CallStepBudget, WatchdogBudget, EnvironmentBudget DEF Next

\* No task is ever held with more retries than MAX_RETRIES, on any path through
\* buffer, drain, cancel and retry.
THEOREM BudgetKept == Spec => []RetriesBounded
<1>1. Init => TypeOK /\ RetriesBounded
  BY InitTyped DEF Init, RetriesBounded, Held
<1>2. QED
  BY <1>1, StepBudget, StepTyped, PTL DEF Spec

-----------------------------------------------------------------------------
\* FrameQueue implements FramePool: where a held frame is.
In(f) ==
  \/ \E t \in pending  : t.frame_id = f
  \/ \E t \in inflight : t.frame_id = f
  \/ \E t \in drained  : t.frame_id = f
  \/ \E t \in noWorker : t.frame_id = f
  \/ \E t \in timedOut : t.frame_id = f
  \/ \E t \in current  : t.frame_id = f
  \/ \E c \in calls : c.open /\ c.task.frame_id = f

LEMMA HeldIsIn ==
  /\ \A f : f \in HeldFrames <=> In(f)
  /\ \A f : f \in HeldFrames' <=> In(f)'
BY DEF HeldFrames, Held, In

\* The frames the queue or a straggling execution works on were submitted and taken.
Known ==
  /\ refused \subseteq submitted
  /\ \A f \in HeldFrames : f \in submitted \ refused
  /\ \A c \in calls : c.task.frame_id \in submitted \ refused

PoolInv == LossInv /\ Known

PoolStep == [Pool!Next]_Pool!vars

-----------------------------------------------------------------------------
\* How a step of the queue looks from outside.

LEMMA QuietStep ==
  ASSUME UNCHANGED <<submitted, outcomeVars>>, \A f : In(f)' <=> In(f)
  PROVE  PoolStep /\ HeldFrames' = HeldFrames
<1>1. HeldFrames' = HeldFrames BY HeldIsIn
<1> QED BY <1>1 DEF PoolStep, Pool!vars, outcomeVars

LEMMA ReleaseStep ==
  ASSUME NEW g \in Frame, g \in delivered \cup dropped, UNCHANGED <<submitted, outcomeVars>>,
         \A f : In(f)' => In(f), \A f : f # g /\ In(f) => In(f)'
  PROVE  PoolStep /\ HeldFrames' \subseteq HeldFrames
<1>1. CASE In(g) /\ ~In(g)'
  <2>1. g \in HeldFrames /\ HeldFrames' = HeldFrames \ {g} BY <1>1, HeldIsIn
  <2>2. Pool!Release(g) BY <2>1 DEF Pool!Release, outcomeVars
  <2> QED BY <2>1, <2>2 DEF PoolStep, Pool!Next
<1>2. CASE In(g) => In(g)'
  <2>1. \A f : In(f)' <=> In(f) BY <1>2
  <2> QED BY <2>1, QuietStep
<1> QED BY <1>1, <1>2

LEMMA GiveUpStep ==
  ASSUME NEW g \in Frame, In(g), dropped' = dropped \cup {g},
         UNCHANGED <<submitted, delivered, refused>>,
         \A f : In(f)' => In(f), \A f : f # g /\ In(f) => In(f)'
  PROVE  PoolStep /\ HeldFrames' \subseteq HeldFrames
<1>1. g \in HeldFrames /\ HeldFrames' \in {HeldFrames, HeldFrames \ {g}} BY HeldIsIn
<1>2. Pool!GiveUp(g) BY <1>1 DEF Pool!GiveUp
<1> QED BY <1>1, <1>2 DEF PoolStep, Pool!Next

\* A step that keeps what is submitted and refused and holds no new frame keeps Known,
\* if its calls are for frames that were known.
LEMMA KnownStep ==
  ASSUME Known, UNCHANGED <<submitted, refused>>, HeldFrames' \subseteq HeldFrames,
         \A c \in calls' : c.task.frame_id \in submitted \ refused
  PROVE  Known'
BY DEF Known

-----------------------------------------------------------------------------
\* The actions.

LEMMA EnqueueMapped ==
  ASSUME PoolInv, NEW f \in Frame, Enqueue(f)
  PROVE  PoolStep /\ Known'
<1> USE DEF vars, queueVars, watchdogVars, envVars, outcomeVars
<1>1. f \notin submitted /\ submitted' = submitted \cup {f} /\ UNCHANGED <<delivered, dropped>>
  BY DEF Enqueue
<1>2. CASE refused' = refused \cup {f} /\ UNCHANGED <<minted, calls>>
  <2>1. \A g : In(g)' <=> In(g) BY <1>2 DEF Enqueue, In
  <2>2. HeldFrames' = HeldFrames BY <2>1, HeldIsIn
  <2>3. Pool!Refuse(f) BY <1>1, <1>2, <2>2 DEF Pool!Refuse, Pool!Submit
  <2>4. Known' BY <1>1, <1>2, <2>2 DEF PoolInv, Known
  <2> QED BY <2>3, <2>4 DEF PoolStep, Pool!Next
<1>3. ASSUME NEW w \in LeastLoaded(workers), UNCHANGED refused,
             calls' = calls \cup
               {NewCall([frame_id |-> f, seq |-> minted[f],
                         assigned_worker |-> w, retries |-> 0], "enqueue")}
      PROVE  PoolStep /\ Known'
  <2> DEFINE t == [frame_id |-> f, seq |-> minted[f], assigned_worker |-> w, retries |-> 0]
             c == NewCall(t, "enqueue")
  <2>1. c.open /\ c.task.frame_id = f BY NewCallHolds
  <2>2. calls' = calls \cup {c} BY <1>3
  <2> HIDE DEF t, c
  <2>3. \A g : In(g)' <=> In(g) \/ g = f BY <2>1, <2>2 DEF Enqueue, In
  <2>4. HeldFrames' = HeldFrames \cup {f} BY <2>3, HeldIsIn
  <2>5. Pool!Accept(f) BY <1>1, <1>3, <2>4 DEF Pool!Accept, Pool!Submit
  <2>6. f \notin refused BY <1>1 DEF PoolInv, Known
  <2>7. Known' BY <1>1, <1>3, <2>1, <2>2, <2>4, <2>6 DEF PoolInv, Known
  <2> QED BY <2>5, <2>7 DEF PoolStep, Pool!Next
<1> QED BY <1>2, <1>3 DEF Enqueue

LEMMA CallStepMapped ==
  ASSUME PoolInv, NEW c \in calls, CallStep(c)
  PROVE  PoolStep /\ Known'
<1> USE DEF PoolInv, LossInv, vars, queueVars, watchdogVars, envVars, outcomeVars
<1> DEFINE g == c.task.frame_id
<1>1. c \in Call /\ c.task \in Task /\ calls \subseteq Call /\ g \in Frame
  BY DispatchedIsTask DEF TypeOK, Call, Task, TaskOf
<1>2. g \in submitted \ refused BY DEF Known
<1>3. ASSUME NEW stage \in {"running", "stored", "answered"}, Reaches(c, stage)
      PROVE  /\ \A f : (\E d \in calls' : d.open /\ d.task.frame_id = f)
                         <=> \E d \in calls : d.open /\ d.task.frame_id = f
             /\ \A d \in calls' : \E e \in calls : d.task = e.task
  <2>1. [c EXCEPT !.stage = stage].open = c.open /\ [c EXCEPT !.stage = stage].task = c.task
    BY <1>1 DEF Call
  <2> QED BY <1>3, <2>1 DEF Reaches
<1>4. ASSUME Answers(c)
      PROVE  /\ \A f : (\E d \in calls' : d.open /\ d.task.frame_id = f)
                         <=> \E d \in calls : d.open /\ d.task.frame_id = f
             /\ \A d \in calls' : \E e \in calls : d.task = e.task
  BY <1>3, <1>4 DEF Answers
<1>5. (\A d \in calls' : \E e \in calls : d.task = e.task) /\ UNCHANGED <<submitted, refused>>
        => \A d \in calls' : d.task.frame_id \in submitted \ refused
  BY DEF Known
<1>6. CASE CountCall(c)
  BY <1>3, <1>5, <1>6, QuietStep, KnownStep DEF CountCall, In
<1>7. CASE StoreResult(c)
  <2>1. \A f : In(f)' <=> In(f) BY <1>3, <1>7 DEF StoreResult, In
  <2>2. HeldFrames' = HeldFrames BY <2>1, HeldIsIn
  <2>3. Pool!Deliver(g) BY <1>2, <1>7, <2>2 DEF StoreResult, Pool!Deliver
  <2>4. Known' BY <1>3, <1>5, <1>7, <2>2, KnownStep DEF StoreResult
  <2> QED BY <1>1, <2>3, <2>4 DEF PoolStep, Pool!Next
<1>8. CASE LoseResult(c)
  BY <1>4, <1>5, <1>8, QuietStep, KnownStep DEF LoseResult, In
<1>9. CASE Acknowledge(c)
  <2>1. g \in delivered BY <1>9 DEF Acknowledge, StoredIsDelivered
  <2>2. inflight' \subseteq inflight /\ \A t \in inflight \ inflight' : t.frame_id = g
    BY <1>9 DEF Acknowledge, Without, TaskId
  <2>3. /\ Answers(c)
        /\ UNCHANGED <<submitted, pending, drained, noWorker, timedOut, current, outcomeVars>>
    BY <1>9 DEF Acknowledge
  <2>4. \A f : In(f)' => In(f) BY <1>4, <2>2, <2>3 DEF In
  <2>5. \A f : f # g /\ In(f) => In(f)' BY <1>4, <2>2, <2>3 DEF In
  <2>6. PoolStep /\ HeldFrames' \subseteq HeldFrames
    BY <1>1, <2>1, <2>3, <2>4, <2>5, ReleaseStep
  <2> QED BY <1>4, <1>5, <2>3, <2>6, KnownStep
<1>10. CASE LoseAck(c)
  <2>1. CASE Answers(c) BY <1>4, <1>5, <1>10, <2>1, QuietStep, KnownStep DEF LoseAck, In
  <2>2. CASE /\ c.open
             /\ calls' = (calls \ {c}) \cup {[c EXCEPT !.stage = "answered"],
                                             [c EXCEPT !.open = FALSE]}
    <3> DEFINE d == [c EXCEPT !.stage = "answered"]
               e == [c EXCEPT !.open = FALSE]
    <3>1. d.open /\ d.task = c.task /\ ~e.open /\ e.task = c.task
      BY <1>1, <2>2 DEF Call
    <3>2. calls' = (calls \ {c}) \cup {d, e} BY <2>2
    <3> HIDE DEF d, e
    <3>3. \A f : (\E x \in calls' : x.open /\ x.task.frame_id = f)
                    <=> \E x \in calls : x.open /\ x.task.frame_id = f
      BY <2>2, <3>1, <3>2
    <3>4. \A x \in calls' : \E y \in calls : x.task = y.task BY <3>1, <3>2
    <3> QED BY <1>5, <1>10, <3>3, <3>4, QuietStep, KnownStep DEF LoseAck, In
  <2> QED BY <1>10, <2>1, <2>2 DEF LoseAck
<1>11. CASE Return(c)
  <2>1. /\ c.open /\ calls' = calls \ {c}
        /\ UNCHANGED <<submitted, pending, drained, noWorker, timedOut, current, outcomeVars>>
    BY <1>11 DEF Return
  <2>2. /\ c.task \in inflight' /\ inflight' \subseteq inflight \cup {c.task}
        /\ \A t \in inflight \ inflight' : t.frame_id = g
    BY <1>11 DEF Return, Insert, Without, TaskId
  <2>3. In(g) BY <2>1 DEF In
  <2>4. \A f : In(f)' => In(f) BY <2>1, <2>2, <2>3 DEF In
  <2>5. In(g)' BY <2>2 DEF In
  <2>6. \A f : f # g /\ In(f) => In(f)' BY <2>1, <2>2 DEF In
  <2>7. PoolStep /\ HeldFrames' = HeldFrames BY <2>1, <2>4, <2>5, <2>6, QuietStep
  <2> QED BY <1>5, <2>1, <2>7, KnownStep
<1>12. CASE Fail(c)
  <2>1. /\ c.open
        /\ UNCHANGED <<submitted, inflight, drained, noWorker, timedOut, current,
                       delivered, refused>>
    BY <1>12 DEF Fail
  <2>2. calls' = calls \ {c} \/ calls' = (calls \ {c}) \cup {[c EXCEPT !.open = FALSE]}
    BY <1>12 DEF Fail
  <2>3. /\ calls \ {c} \subseteq calls'
        /\ \A d \in calls' : d \in calls \ {c} \/ (~d.open /\ d.task = c.task)
    <3>1. ~[c EXCEPT !.open = FALSE].open /\ [c EXCEPT !.open = FALSE].task = c.task
      BY <1>1 DEF Call
    <3> QED BY <2>2, <3>1
  <2>4. \A d \in calls' : \E e \in calls : d.task = e.task BY <2>3
  <2>5. In(g) BY <2>1 DEF In
  <2>6. CASE dropped' = dropped \cup {g} /\ UNCHANGED pending
    <3>1. \A f : In(f)' => In(f) BY <2>1, <2>3, <2>6 DEF In
    <3>2. \A f : f # g /\ In(f) => In(f)' BY <2>1, <2>3, <2>6 DEF In
    <3>3. PoolStep /\ HeldFrames' \subseteq HeldFrames
      BY <1>1, <2>1, <2>5, <2>6, <3>1, <3>2, GiveUpStep
    <3> QED BY <1>5, <2>1, <2>4, <3>3, KnownStep
  <2>7. CASE pending' = pending \cup {Buffered(c.task)} /\ UNCHANGED dropped
    <3>1. Buffered(c.task).frame_id = g BY <1>1, SameFrame
    <3>2. In(g)' BY <2>7, <3>1 DEF In
    <3>3. \A f : In(f)' => In(f) BY <2>1, <2>3, <2>5, <2>7, <3>1 DEF In
    <3>4. \A f : f # g /\ In(f) => In(f)' BY <2>1, <2>3, <2>7 DEF In
    <3>5. PoolStep /\ HeldFrames' = HeldFrames BY <2>1, <2>7, <3>2, <3>3, <3>4, QuietStep
    <3> QED BY <1>5, <2>1, <2>4, <3>5, KnownStep
  <2> QED BY <1>12, <2>6, <2>7 DEF Fail
<1> QED BY <1>6, <1>7, <1>8, <1>9, <1>10, <1>11, <1>12 DEF CallStep

LEMMA WatchdogMapped ==
  ASSUME PoolInv, Watchdog
  PROVE  PoolStep /\ Known'
<1> USE DEF PoolInv, LossInv, vars, queueVars, watchdogVars, envVars, outcomeVars
<1>1. ASSUME UNCHANGED <<submitted, calls, outcomeVars>>, \A f : In(f)' <=> In(f)
      PROVE  PoolStep /\ Known'
  <2>1. PoolStep /\ HeldFrames' = HeldFrames BY <1>1, QuietStep
  <2> QED BY <1>1, <2>1, KnownStep DEF Known
<1>2. CASE Drain
  <2>1. drained = {} BY <1>2 DEF Drain, WatchdogPhases
  <2> QED BY <1>1, <1>2, <2>1 DEF Drain, In
<1>3. CASE Rebuffer BY <1>1, <1>3 DEF Rebuffer, In
<1>4. CASE Scan
  <2>1. timedOut = {} BY <1>4 DEF Scan, WatchdogPhases
  <2>2. overdue \subseteq inflight BY DEF TypeOK
  <2>3. \A f : In(f)' <=> In(f) BY <1>4, <2>1, <2>2 DEF Scan, Snapshot, In
  <2> QED BY <1>1, <1>4, <2>3 DEF Scan
<1>5. CASE EndRound BY <1>1, <1>5 DEF EndRound, In
<1>6. ASSUME NEW t \in drained, Assign(t) PROVE PoolStep /\ Known'
  <2>1. t \in Task /\ In(t.frame_id) BY DEF TypeOK, In
  <2>2. /\ drained' = drained \ {t}
        /\ UNCHANGED <<submitted, pending, inflight, timedOut, current, outcomeVars>>
    BY <1>6 DEF Assign
  <2>3. CASE noWorker' = noWorker \cup {t} /\ UNCHANGED calls
    <3>1. \A f : In(f)' <=> In(f) BY <2>2, <2>3 DEF In
    <3> QED BY <1>1, <2>2, <2>3, <3>1
  <2>4. ASSUME NEW w \in LeastLoaded(workers), UNCHANGED noWorker,
               calls' = calls \cup {NewCall([t EXCEPT !.assigned_worker = w], "drain")}
        PROVE  PoolStep /\ Known'
    <3> DEFINE u == [t EXCEPT !.assigned_worker = w]
               c == NewCall(u, "drain")
    <3>1. u.frame_id = t.frame_id BY <2>1, LeastLoadedIsWorker, SameFrame
    <3>2. c.open /\ c.task = u /\ calls' = calls \cup {c} BY <2>4, NewCallHolds
    <3> HIDE DEF u, c
    <3>3. \A f : In(f)' <=> In(f) BY <2>1, <2>2, <2>4, <3>1, <3>2 DEF In
    <3>4. PoolStep /\ HeldFrames' = HeldFrames BY <2>2, <3>3, QuietStep
    <3>5. t.frame_id \in submitted \ refused BY <2>1, HeldIsIn DEF Known
    <3>6. \A d \in calls' : d.task.frame_id \in submitted \ refused
      BY <3>1, <3>2, <3>5 DEF Known
    <3> QED BY <2>2, <3>4, <3>6, KnownStep
  <2> QED BY <1>6, <2>3, <2>4 DEF Assign
<1>7. ASSUME NEW t \in timedOut, TimeOut(t) PROVE PoolStep /\ Known'
  <2>1. inflight' \subseteq inflight /\ \A u \in inflight \ inflight' : u.frame_id = t.frame_id
    BY <1>7 DEF TimeOut, Without, TaskId
  <2>2. current = {} BY <1>7 DEF TimeOut, WatchdogPhases
  <2>3. /\ timedOut' = timedOut \ {t} /\ current' = {t}
        /\ UNCHANGED <<submitted, pending, calls, drained, noWorker, outcomeVars>>
    BY <1>7 DEF TimeOut
  <2>4. \A f : In(f)' <=> In(f) BY <2>1, <2>2, <2>3 DEF In
  <2> QED BY <1>1, <2>3, <2>4
<1>8. ASSUME NEW t \in current, Drop(t) \/ BufferRetry(t) \/ Retry(t)
      PROVE  PoolStep /\ Known'
  <2>1. /\ t \in Task /\ current = {t} /\ minted \in [Frame -> Nat] /\ In(t.frame_id)
        /\ t.frame_id \in Frame
    BY DispatchedIsTask DEF TypeOK, WatchdogPhases, In, Task, TaskOf
  <2>2. CASE Drop(t)
    <3>1. \A f : In(f)' => In(f) BY <2>2 DEF Drop, In
    <3>2. \A f : f # t.frame_id /\ In(f) => In(f)' BY <2>1, <2>2 DEF Drop, In
    <3>3. PoolStep /\ HeldFrames' \subseteq HeldFrames
      BY <2>1, <2>2, <3>1, <3>2, GiveUpStep DEF Drop
    <3> QED BY <2>2, <3>3, KnownStep DEF Drop, Known
  <2>3. CASE BufferRetry(t)
    <3>1. BufferedRetry(t).frame_id = t.frame_id BY <2>1, SameFrame
    <3>2. \A f : In(f)' <=> In(f) BY <2>1, <2>3, <3>1 DEF BufferRetry, In
    <3> QED BY <1>1, <2>3, <3>2 DEF BufferRetry
  <2>4. CASE Retry(t)
    <3>1. PICK w \in LeastLoaded(workers) :
            calls' = calls \cup {NewCall(RetryOf(t, w), "retry")}
      BY <2>4 DEF Retry
    <3> DEFINE c == NewCall(RetryOf(t, w), "retry")
    <3>2. c.open /\ c.task.frame_id = t.frame_id /\ calls' = calls \cup {c}
      BY <2>1, <3>1, LeastLoadedIsWorker, RetryTyped, NewCallHolds
    <3> HIDE DEF c
    <3>3. \A f : In(f)' <=> In(f) BY <2>1, <2>4, <3>2 DEF Retry, In
    <3>4. PoolStep /\ HeldFrames' = HeldFrames BY <2>4, <3>3, QuietStep DEF Retry
    <3>5. t.frame_id \in submitted \ refused BY <2>1, HeldIsIn DEF Known
    <3>6. \A d \in calls' : d.task.frame_id \in submitted \ refused
      BY <3>2, <3>5 DEF Known
    <3> QED BY <2>4, <3>4, <3>6, KnownStep DEF Retry
  <2> QED BY <1>8, <2>2, <2>3, <2>4
<1> QED BY <1>2, <1>3, <1>4, <1>5, <1>6, <1>7, <1>8 DEF Watchdog

LEMMA EnvironmentMapped ==
  ASSUME PoolInv, Environment
  PROVE  PoolStep /\ Known'
<1> USE DEF PoolInv, LossInv, vars, queueVars, watchdogVars, envVars, outcomeVars
<1>1. ASSUME NEW w \in Worker, CancelInflight(w) PROVE \A f : In(f)' <=> In(f)
  <2> DEFINE cancelled == {t \in inflight : t.assigned_worker = w}
  <2>1. /\ inflight' = inflight \ cancelled /\ pending' = pending \cup TakenBack(cancelled)
        /\ UNCHANGED <<calls, watchdogVars>>
    BY <1>1 DEF CancelInflight
  <2>2. \A t \in cancelled : [Buffered(t) EXCEPT !.retries = 0].frame_id = t.frame_id
    BY DispatchedIsTask, SameFrame DEF TypeOK
  <2>3. \A f : (\E u \in TakenBack(cancelled) : u.frame_id = f)
                 <=> \E t \in cancelled : t.frame_id = f
    BY <2>2 DEF TakenBack
  <2>4. cancelled \subseteq inflight OBVIOUS
  <2> HIDE DEF cancelled
  <2> QED BY <2>1, <2>3, <2>4 DEF In
<1>2. CASE \E w \in Worker : CancelInflight(w)
  <2>1. UNCHANGED <<submitted, calls, outcomeVars>> BY <1>2 DEF CancelInflight
  <2>2. \A f : In(f)' <=> In(f) BY <1>1, <1>2
  <2>3. PoolStep /\ HeldFrames' = HeldFrames BY <2>1, <2>2, QuietStep
  <2> QED BY <2>1, <2>3, KnownStep DEF Known
<1>3. CASE UNCHANGED <<submitted, pending, inflight, calls, watchdogVars, outcomeVars>>
  <2>1. \A f : In(f)' <=> In(f) BY <1>3 DEF In
  <2>2. PoolStep /\ HeldFrames' = HeldFrames BY <1>3, <2>1, QuietStep
  <2> QED BY <1>3, <2>2, KnownStep DEF Known
<1> QED
  BY <1>2, <1>3 DEF Environment, Register, Remove, Heartbeat, GoSilent, EvictionTick, Expire

-----------------------------------------------------------------------------
\* The refinement.

LEMMA PoolInductive == PoolInv /\ [Next]_vars => PoolStep /\ PoolInv'
<1> SUFFICES ASSUME PoolInv, [Next]_vars PROVE PoolStep /\ PoolInv'
  OBVIOUS
<1>1. LossInv' BY LossInductive DEF PoolInv
<1>2. CASE UNCHANGED vars
  <2>1. UNCHANGED <<submitted, calls, outcomeVars>> /\ \A f : In(f)' <=> In(f)
    BY <1>2 DEF vars, queueVars, watchdogVars, In
  <2>2. PoolStep /\ HeldFrames' = HeldFrames BY <2>1, QuietStep
  <2> QED BY <1>1, <2>1, <2>2, KnownStep DEF PoolInv, Known, outcomeVars
<1>3. CASE Next
  BY <1>1, <1>3, EnqueueMapped, CallStepMapped, WatchdogMapped, EnvironmentMapped
     DEF Next, PoolInv
<1> QED BY <1>2, <1>3

LEMMA InitMapped == Init => Pool!Init /\ PoolInv
<1> SUFFICES ASSUME Init PROVE Pool!Init /\ PoolInv
  OBVIOUS
<1>1. HeldFrames = {} BY HeldIsIn DEF Init, In
<1> QED BY <1>1, LossInductive DEF Init, Pool!Init, PoolInv, Known

\* The frame queue implements the pool of frames its callers rely on: an accepted frame is
\* let go only with a result or counted as dropped, and does not come back (enqueue,
\* _dispatch_task, acknowledge, _cancel_inflight_for_worker, _watchdog_loop).
THEOREM QueueIsPool == Spec => ImplementsPool
BY InitMapped, PoolInductive, PTL DEF Spec, ImplementsPool, Pool!Spec, PoolStep

-----------------------------------------------------------------------------
\* Bounds on copies and attempts.

\* Powers of two, counted as the subsets of an interval.
LEMMA PowerType ==
  ASSUME NEW n \in Nat
  PROVE  2^n \in Nat /\ Cardinality(SUBSET (1..n)) = 2^n /\ IsFiniteSet(SUBSET (1..n))
<1>1. IsFiniteSet(1..n) /\ Cardinality(1..n) = n BY FS_Interval
<1>2. IsFiniteSet(SUBSET (1..n)) /\ Cardinality(SUBSET (1..n)) = 2^n BY <1>1, FS_SUBSET
<1>3. Cardinality(SUBSET (1..n)) \in Nat BY <1>2, FS_CardinalityType
<1> QED BY <1>2, <1>3

LEMMA PowerGrows ==
  ASSUME NEW m \in Nat, NEW n \in Nat, m <= n
  PROVE  2^m <= 2^n /\ 1 <= 2^n
<1>1. \A k \in Nat : k <= n => 2^k <= 2^n
  <2> SUFFICES ASSUME NEW k \in Nat, k <= n PROVE 2^k <= 2^n OBVIOUS
  <2>1. SUBSET (1..k) \subseteq SUBSET (1..n) OBVIOUS
  <2>2. Cardinality(SUBSET (1..k)) <= Cardinality(SUBSET (1..n)) BY <2>1, PowerType, FS_Subset
  <2> QED BY <2>2, PowerType
<1>2. 2^0 = 1 OBVIOUS
<1>3. 0 \in Nat /\ 0 <= n OBVIOUS
<1>4. 2^0 <= 2^n BY <1>1, <1>3
<1>5. 1 <= 2^n BY <1>2, <1>4
<1> QED BY <1>1, <1>5

LEMMA PowerDoubles == ASSUME NEW n \in Nat PROVE 2^(n+1) = 2^n + 2^n
<1> DEFINE A == SUBSET (1..n)
           B == {T \cup {n+1} : T \in A}
<1>1. SUBSET (1..(n+1)) = A \cup B
  <2>1. ASSUME NEW U \in SUBSET (1..(n+1)) PROVE U \in A \cup B
    <3>1. CASE n+1 \in U
      <4>1. U \ {n+1} \in A BY <3>1
      <4>2. U = (U \ {n+1}) \cup {n+1} BY <3>1
      <4> QED BY <4>1, <4>2
    <3>2. CASE n+1 \notin U BY <3>2
    <3> QED BY <3>1, <3>2
  <2>2. A \subseteq SUBSET (1..(n+1)) OBVIOUS
  <2>3. \A T \in A : T \cup {n+1} \in SUBSET (1..(n+1)) OBVIOUS
  <2>4. B \subseteq SUBSET (1..(n+1)) BY <2>3
  <2> HIDE DEF A, B
  <2> QED BY <2>1, <2>2, <2>4
<1>2. A \cap B = {}
  <2>1. n+1 \notin 1..n OBVIOUS
  <2>2. (\A T \in A : n+1 \notin T) /\ \A T \in B : n+1 \in T BY <2>1
  <2> HIDE DEF A, B
  <2> QED BY <2>2
<1>3. IsFiniteSet(A) /\ Cardinality(A) = 2^n BY PowerType
<1>4. IsFiniteSet(B) /\ Cardinality(B) = Cardinality(A)
  <2> DEFINE h == [T \in A |-> T \cup {n+1}]
  <2>1. h \in Bijection(A, B)
    <3>1. n+1 \notin 1..n OBVIOUS
    <3>2. \A T, U \in A : T \cup {n+1} = U \cup {n+1} => T = U BY <3>1
    <3>3. h \in [A -> B] /\ \A U \in B : \E T \in A : h[T] = U OBVIOUS
    <3>4. \A T, U \in A : h[T] = h[U] => T = U BY <3>2
    <3> HIDE DEF A, B, h
    <3> QED BY <3>3, <3>4 DEF Bijection, Injection, Surjection, IsInjective
  <2> HIDE DEF h, B
  <2> QED BY <1>3, <2>1, FS_Bijection DEF ExistsBijection
<1>5. Cardinality(A \cup B) = Cardinality(A) + Cardinality(B)
  <2> HIDE DEF A, B
  <2>1. Cardinality(A \cup B) = Cardinality(A) + Cardinality(B) - Cardinality(A \cap B)
    BY <1>3, <1>4, FS_Union
  <2>2. Cardinality(A \cap B) = 0 BY <1>2, FS_EmptySet
  <2>3. Cardinality(A) \in Nat /\ Cardinality(B) \in Nat BY <1>3, <1>4, FS_CardinalityType
  <2> QED BY <2>1, <2>2, <2>3
<1>6. n + 1 \in Nat OBVIOUS
<1>7. Cardinality(SUBSET (1..(n+1))) = 2^(n+1) BY <1>6, PowerType
<1>8. 2^n \in Nat BY PowerType
<1> HIDE DEF A, B
<1> QED BY <1>1, <1>3, <1>4, <1>5, <1>7

\* Where a copy can be: a place and a task within the budget.
Holding ==
  {"pending", "drained", "inflight", "current", "call"} \X {t \in Task : t.retries <= MAX_RETRIES}

\* The retries each has left.
Left == [p \in Holding |-> MAX_RETRIES - p[2].retries]

\* The copies S of a frame with m ids are at most b, and even if every copy spends
\* all the retries it has left, the frame gets no more than Most(b) ids.
Most(b) == 1 + MAX_RETRIES * b

Bounded(S, m, b) ==
  /\ S \subseteq Holding
  /\ IsFiniteSet(S) /\ Cardinality(S) <= b
  /\ m + SumFunctionOnSet(Left, S) <= Most(b)

LEMMA LeftTyped ==
  /\ MAX_RETRIES \in Nat
  /\ \A p \in Holding : p[2].retries \in Nat /\ p[2].retries <= MAX_RETRIES
  /\ \A p \in Holding : Left[p] = MAX_RETRIES - p[2].retries
  /\ \A p \in Holding : Left[p] \in Nat
<1>1. MAX_RETRIES \in Nat BY FrameQueueAssumption
<1>2. \A p \in Holding : p[2] \in Task /\ p[2].retries <= MAX_RETRIES BY DEF Holding
<1>3. \A t \in Task : t.retries \in Nat BY DEF Task, TaskOf
<1>4. \A p \in Holding : Left[p] = MAX_RETRIES - p[2].retries BY DEF Left
<1> QED BY <1>1, <1>2, <1>3, <1>4

LEMMA MostTyped ==
  ASSUME NEW b \in Nat
  PROVE  /\ Most(b) \in Nat
         /\ Most(b + b) = Most(b) + MAX_RETRIES * b
         /\ \A c \in Nat : b <= c => Most(b) <= Most(c)
<1>1. MAX_RETRIES \in Nat BY FrameQueueAssumption
<1>2. \A m, c \in Nat : b <= c => m * b <= m * c OBVIOUS
<1>3. \A m \in Nat : m * b \in Nat /\ m * (b + b) = m * b + m * b OBVIOUS
<1>4. \A m, c \in Nat : m * c \in Nat OBVIOUS
<1> QED BY <1>1, <1>2, <1>3, <1>4 DEF Most

\* What a step may do to the copies of a frame.  Some of them disappear,
LEMMA BoundedLess ==
  ASSUME NEW A, NEW m \in Nat, NEW b \in Nat, Bounded(A, m, b), NEW B, B \subseteq A
  PROVE  Bounded(B, m, b)
<1> USE DEF Bounded
<1>1. IsFiniteSet(B) /\ Cardinality(B) <= Cardinality(A) BY FS_Subset
<1>2. Cardinality(A) \in Nat /\ Cardinality(B) \in Nat BY <1>1, FS_CardinalityType
<1>3. \A x \in A : Left[x] \in Nat BY LeftTyped
<1>4. SumFunctionOnSet(Left, B) <= SumFunctionOnSet(Left, A) BY <1>3, SumSubset
<1>5. \A x \in A : Left[x] \in Int BY <1>3
<1>6. \A x \in B : Left[x] \in Int BY <1>3
<1>7. SumFunctionOnSet(Left, A) \in Int /\ SumFunctionOnSet(Left, B) \in Int
  BY <1>1, <1>5, <1>6, SumType
<1>8. Most(b) \in Nat BY MostTyped
<1> QED BY <1>1, <1>2, <1>4, <1>7, <1>8

\* the bound grows,
LEMMA BoundedMore ==
  ASSUME NEW A, NEW m \in Nat, NEW b \in Nat, Bounded(A, m, b), NEW c \in Nat, b <= c
  PROVE  Bounded(A, m, c)
<1> USE DEF Bounded
<1>1. Most(b) \in Nat /\ Most(c) \in Nat /\ Most(b) <= Most(c) BY MostTyped
<1>2. Cardinality(A) \in Nat BY FS_CardinalityType
<1>3. \A x \in A : Left[x] \in Int BY LeftTyped
<1>4. SumFunctionOnSet(Left, A) \in Int BY <1>3, SumType
<1> QED BY <1>1, <1>2, <1>4

\* one moves and is charged a retry for every id it gets,
LEMMA BoundedMoved ==
  ASSUME NEW A, NEW m \in Nat, NEW b \in Nat, Bounded(A, m, b), NEW p \in A, NEW q \in Holding,
         NEW B, B \subseteq (A \ {p}) \cup {q}, NEW n \in Nat,
         n + p[2].retries <= m + q[2].retries
  PROVE  Bounded(B, n, b)
<1> USE DEF Bounded
<1> DEFINE C == A \ {p}
           D == C \cup {q}
           Sum(S) == SumFunctionOnSet(Left, S)
<1>1. IsFiniteSet(C) /\ Cardinality(C) = Cardinality(A) - 1 BY FS_RemoveElement
<1>2. IsFiniteSet(D) /\ Cardinality(D) <= Cardinality(A)
  <2>1. Cardinality(A) \in Nat BY FS_CardinalityType
  <2> HIDE DEF C
  <2>2. /\ IsFiniteSet(C \cup {q})
        /\ Cardinality(C \cup {q}) \in {Cardinality(C), Cardinality(C) + 1}
    BY <1>1, FS_AddElement
  <2> QED BY <1>1, <2>1, <2>2
<1>3. Cardinality(A) \in Nat /\ Cardinality(D) \in Nat BY <1>2, FS_CardinalityType
<1>4. D \subseteq Holding OBVIOUS
<1>5. \A S \in SUBSET Holding : \A x \in S : Left[x] \in Int BY LeftTyped
<1>6. A \in SUBSET Holding /\ C \in SUBSET Holding /\ D \in SUBSET Holding BY <1>4
<1>7. Sum(A) = Left[p] + Sum(C)
  <2>1. \A x \in A : Left[x] \in Int BY <1>5
  <2> QED BY <2>1, SumRemove
<1>8. Sum(C) \in Int
  <2>1. \A x \in C : Left[x] \in Int BY <1>5
  <2> QED BY <1>1, <2>1, SumType
<1>9. Sum(D) <= Left[q] + Sum(C)
  <2>1. Left[q] \in Nat BY LeftTyped
  <2>2. CASE q \in C
    <3>1. D = C BY <2>2
    <3> HIDE DEF C, D
    <3> QED BY <1>8, <2>1, <3>1
  <2>3. CASE q \notin C
    <3>1. \A x \in C \cup {q} : Left[x] \in Int BY <1>5, <1>6
    <3> HIDE DEF C
    <3>2. Sum(C \cup {q}) = Left[q] + Sum(C) BY <1>1, <2>3, <3>1, SumAdd
    <3> QED BY <1>8, <2>1, <3>2
  <2> QED BY <2>2, <2>3
<1>10. Sum(D) \in Int
  <2>1. \A x \in D : Left[x] \in Int BY <1>5, <1>6
  <2> HIDE DEF D
  <2> QED BY <1>2, <2>1, SumType
<1>11. p \in Holding /\ Most(b) \in Nat BY MostTyped
<1>12. /\ Left[p] = MAX_RETRIES - p[2].retries /\ Left[q] = MAX_RETRIES - q[2].retries
       /\ p[2].retries \in Nat /\ q[2].retries \in Nat /\ MAX_RETRIES \in Nat
  BY <1>11, LeftTyped
<1>13. m + Sum(A) <= Most(b) /\ Cardinality(A) <= b OBVIOUS
<1>14. Bounded(D, n, b)
  <2> HIDE DEF C, D, Sum
  <2>1. n + Sum(D) <= Most(b) BY <1>7, <1>8, <1>9, <1>10, <1>11, <1>12, <1>13
  <2>2. Cardinality(D) <= b BY <1>2, <1>3, <1>13
  <2> USE DEF Sum
  <2> QED BY <1>2, <1>4, <2>1, <2>2
<1>15. B \subseteq D OBVIOUS
<1> HIDE DEF Bounded, D
<1> QED BY <1>14, <1>15, BoundedLess

\* all move at once,
LEMMA BoundedRenamed ==
  ASSUME NEW A, NEW m \in Nat, NEW b \in Nat, Bounded(A, m, b), NEW B, B \subseteq Holding,
         NEW r \in [B -> A], \A x, y \in B : r[x] = r[y] => x = y,
         \A x \in B : x[2].retries = r[x][2].retries
  PROVE  Bounded(B, m, b)
<1> USE DEF Bounded
<1>1. \A x \in A : Left[x] \in Nat BY LeftTyped
<1>2. \A x \in B : Left[x] \in Nat BY LeftTyped
<1>3. \A x \in B : Left[x] <= Left[r[x]]
  <2> SUFFICES ASSUME NEW x \in B PROVE Left[x] <= Left[r[x]] OBVIOUS
  <2>1. x \in Holding /\ r[x] \in Holding OBVIOUS
  <2>2. Left[x] = Left[r[x]] BY <2>1, LeftTyped
  <2>3. Left[x] \in Nat BY <1>2
  <2> QED BY <2>2, <2>3
<1>4. /\ IsFiniteSet(B) /\ Cardinality(B) <= Cardinality(A)
      /\ SumFunctionOnSet(Left, B) <= SumFunctionOnSet(Left, A)
  BY <1>1, <1>2, <1>3, SumInjection
<1>5. \A x \in A : Left[x] \in Int BY <1>1
<1>6. \A x \in B : Left[x] \in Int BY <1>2
<1>7. SumFunctionOnSet(Left, A) \in Int /\ SumFunctionOnSet(Left, B) \in Int
  BY <1>4, <1>5, <1>6, SumType
<1>8. Cardinality(A) \in Nat /\ Cardinality(B) \in Nat BY <1>4, FS_CardinalityType
<1>9. Most(b) \in Nat BY MostTyped
<1> QED BY <1>4, <1>7, <1>8, <1>9

\* or as many again appear, with the whole budget.
LEMMA BoundedDoubled ==
  ASSUME NEW A, NEW m \in Nat, NEW b \in Nat, Bounded(A, m, b), NEW N, N \subseteq Holding,
         NEW r \in [N -> A], \A x, y \in N : r[x] = r[y] => x = y,
         \A x \in N : x[2].retries = 0,
         NEW B, B \subseteq A \cup N
  PROVE  Bounded(B, m, b + b)
<1> USE DEF Bounded
<1> DEFINE Sum(S) == SumFunctionOnSet(Left, S)
<1>1. IsFiniteSet(N) /\ Cardinality(N) <= Cardinality(A)
  <2>1. r \in Injection(N, A) BY DEF Injection, IsInjective
  <2> QED BY <2>1, FS_Injection
<1>2. Cardinality(A) \in Nat /\ Cardinality(N) \in Nat BY <1>1, FS_CardinalityType
<1>3. \A x \in N : Left[x] = MAX_RETRIES
  <2> SUFFICES ASSUME NEW x \in N PROVE Left[x] = MAX_RETRIES OBVIOUS
  <2>1. x \in Holding /\ x[2].retries = 0 /\ MAX_RETRIES \in Nat BY LeftTyped
  <2> QED BY <2>1, LeftTyped
<1>4. MAX_RETRIES \in Nat BY LeftTyped
<1>5. Sum(N) = MAX_RETRIES * Cardinality(N) BY <1>1, <1>3, <1>4, SumConstant
<1>6. \A k \in Nat : k * Cardinality(N) \in Nat /\ k * b \in Nat /\ k * Cardinality(N) <= k * b
  <2>1. \A k, i, j \in Nat : k * i \in Nat /\ (i <= j => k * i <= k * j) OBVIOUS
  <2>2. Cardinality(N) <= b BY <1>1, <1>2
  <2> QED BY <1>2, <2>1, <2>2
<1>7. Sum(N) \in Nat /\ MAX_RETRIES * b \in Nat /\ Sum(N) <= MAX_RETRIES * b
  BY <1>4, <1>5, <1>6
<1>8. IsFiniteSet(A \cup N) /\ Cardinality(A \cup N) <= b + b
  <2>1. IsFiniteSet(A \cap N) BY FS_Intersection
  <2>2. Cardinality(A \cap N) \in Nat BY <2>1, FS_CardinalityType
  <2>3. /\ IsFiniteSet(A \cup N)
        /\ Cardinality(A \cup N) = Cardinality(A) + Cardinality(N) - Cardinality(A \cap N)
    BY <1>1, FS_Union
  <2>4. Cardinality(A) <= b OBVIOUS
  <2> QED BY <1>1, <1>2, <2>2, <2>3, <2>4
<1>9. Sum(A \cup N) <= Sum(A) + Sum(N)
  <2>1. \A x \in A \cup N : Left[x] \in Nat BY LeftTyped
  <2> QED BY <1>1, <2>1, SumUnion
<1>10. Sum(A) \in Int /\ Sum(A \cup N) \in Int
  <2>1. (\A x \in A : Left[x] \in Int) /\ (\A x \in A \cup N : Left[x] \in Int) BY LeftTyped
  <2> QED BY <1>8, <2>1, SumType
<1>11. Most(b) \in Nat /\ Most(b + b) = Most(b) + MAX_RETRIES * b BY MostTyped
<1>12. m + Sum(A) <= Most(b) OBVIOUS
<1>13. m + Sum(A \cup N) <= Most(b + b)
  <2> HIDE DEF Sum
  <2> QED BY <1>7, <1>9, <1>10, <1>11, <1>12
<1>14. Bounded(A \cup N, m, b + b) BY <1>8, <1>13
<1>15. b + b \in Nat OBVIOUS
<1> HIDE DEF Bounded
<1> QED BY <1>14, <1>15, BoundedLess

\* A frame's first copy.
LEMMA BoundedFirst ==
  ASSUME NEW p \in Holding, NEW B, B \subseteq {p}, NEW b \in Nat, 1 <= b
  PROVE  Bounded(B, 1, b)
<1>1. IsFiniteSet({p}) /\ Cardinality({p}) = 1 BY FS_Singleton
<1>2. SumFunctionOnSet(Left, {p}) = Left[p]
  <2>1. IsFiniteSet({}) /\ {} \cup {p} = {p} BY FS_EmptySet
  <2>2. \A y \in {p} : Left[y] \in Int BY LeftTyped
  <2>3. SumFunctionOnSet(Left, {}) = 0 BY SumEmpty
  <2>4. SumFunctionOnSet(Left, {} \cup {p}) = Left[p] + SumFunctionOnSet(Left, {})
    BY <2>1, <2>2, SumAdd
  <2> QED BY <2>1, <2>2, <2>3, <2>4
<1>3. /\ p[2].retries \in Nat /\ p[2].retries <= MAX_RETRIES /\ MAX_RETRIES \in Nat
      /\ Left[p] = MAX_RETRIES - p[2].retries
  BY LeftTyped
<1>4. Left[p] <= MAX_RETRIES /\ Left[p] \in Nat BY <1>3, LeftTyped
<1>5. Most(1) = 1 + MAX_RETRIES BY <1>3 DEF Most
<1>6. Bounded({p}, 1, 1) BY <1>1, <1>2, <1>3, <1>4, <1>5 DEF Bounded
<1>7. Bounded({p}, 1, b) BY <1>6, BoundedMore
<1> QED BY <1>7, BoundedLess

-----------------------------------------------------------------------------
\* Callbacks.

\* The re-registrations, and those whose callback has run.
Rereg == {p \in Worker \X (2 .. MaxRegistrations) : p[2] <= registrations[p[1]]}

Absorbed ==
  {p \in Worker \X (2 .. MaxRegistrations) : p[2] + cancelling[p[1]] <= registrations[p[1]]}

Doublings == Cardinality(Absorbed)

\* Each callback to come belongs to a re-registration of its worker.
CallbackInv ==
  /\ IsFiniteSet(Rereg)
  /\ \A w \in Worker : IsRegistered(workers, w) => registrations[w] >= 1
  /\ \A w \in Worker : cancelling[w] > 0 =>
       cancelling[w] < registrations[w] /\ registrations[w] <= MaxRegistrations

LEMMA AbsorbedFinite ==
  TypeOK /\ CallbackInv =>
    IsFiniteSet(Absorbed) /\ Doublings \in Nat /\ Doublings <= Reregistrations
<1> SUFFICES ASSUME TypeOK, CallbackInv
             PROVE  IsFiniteSet(Absorbed) /\ Doublings \in Nat /\ Doublings <= Reregistrations
  OBVIOUS
<1>1. Absorbed \subseteq Rereg
  <2> SUFFICES ASSUME NEW p \in Absorbed PROVE p \in Rereg OBVIOUS
  <2>1. /\ p \in Worker \X (2 .. MaxRegistrations) /\ p[1] \in Worker /\ p[2] \in Nat
        /\ p[2] + cancelling[p[1]] <= registrations[p[1]]
    BY FrameQueueAssumption DEF Absorbed
  <2>2. cancelling[p[1]] \in Nat /\ registrations[p[1]] \in Nat BY <2>1 DEF TypeOK
  <2>3. p[2] <= registrations[p[1]] BY <2>1, <2>2
  <2> QED BY <2>1, <2>3 DEF Rereg
<1>2. IsFiniteSet(Absorbed) /\ Cardinality(Absorbed) <= Cardinality(Rereg)
  BY <1>1, FS_Subset DEF CallbackInv
<1>3. Cardinality(Absorbed) \in Nat BY <1>2, FS_CardinalityType
<1>4. Reregistrations = Cardinality(Rereg) BY DEF Reregistrations, Rereg
<1> QED BY <1>2, <1>3, <1>4 DEF Doublings

\* A callback runs.
LEMMA CancelAbsorbs ==
  ASSUME TypeOK, CallbackInv, NEW w \in Worker, CancelInflight(w)
  PROVE  CallbackInv' /\ Absorbed \subseteq Absorbed' /\ Doublings' = Doublings + 1
<1> DEFINE x == <<w, registrations[w] - cancelling[w] + 1>>
<1>1. /\ cancelling \in [Worker -> Nat] /\ registrations \in [Worker -> Nat]
      /\ MaxRegistrations \in Nat
  BY FrameQueueAssumption DEF TypeOK
<1>2. /\ cancelling[w] > 0 /\ cancelling' = [cancelling EXCEPT ![w] = @ - 1]
      /\ registrations' = registrations /\ workers' = workers
  BY DEF CancelInflight
<1>3. cancelling[w] < registrations[w] /\ registrations[w] <= MaxRegistrations
  BY <1>2 DEF CallbackInv
<1>4. x \in Worker \X (2 .. MaxRegistrations) /\ x \notin Absorbed
  BY <1>1, <1>2, <1>3 DEF Absorbed
<1>5. Absorbed' = Absorbed \cup {x}
  <2>1. ASSUME NEW p \in Worker \X (2 .. MaxRegistrations)
        PROVE  p \in Absorbed' <=> p \in Absorbed \/ p = x
    <3>1. p = <<p[1], p[2]>> /\ p[1] \in Worker /\ p[2] \in Nat BY <1>1
    <3>2. CASE p[1] = w
      <4>1. p \in Absorbed' <=> p[2] + (cancelling[w] - 1) <= registrations[w]
        BY <1>1, <1>2, <3>2 DEF Absorbed
      <4>2. p \in Absorbed <=> p[2] + cancelling[w] <= registrations[w]
        BY <3>2 DEF Absorbed
      <4>3. p = x <=> p[2] = registrations[w] - cancelling[w] + 1 BY <3>1, <3>2
      <4> QED BY <1>1, <3>1, <4>1, <4>2, <4>3
    <3>3. CASE p[1] # w BY <1>1, <1>2, <3>1, <3>3 DEF Absorbed
    <3> QED BY <3>2, <3>3
  <2>2. Absorbed \subseteq Worker \X (2 .. MaxRegistrations) BY DEF Absorbed
  <2>3. Absorbed' \subseteq Worker \X (2 .. MaxRegistrations) BY DEF Absorbed
  <2> HIDE DEF x
  <2> QED BY <1>4, <2>1, <2>2, <2>3
<1>6. Doublings' = Doublings + 1
  <2>1. IsFiniteSet(Absorbed) BY AbsorbedFinite
  <2> HIDE DEF x
  <2> QED BY <1>4, <1>5, <2>1, FS_AddElement DEF Doublings
<1>7. Rereg' = Rereg BY <1>2 DEF Rereg
<1>8. \A v \in Worker : cancelling'[v] \in {cancelling[v], cancelling[v] - 1}
  BY <1>1, <1>2
<1>9. \A v \in Worker : cancelling'[v] > 0 =>
        cancelling'[v] < registrations'[v] /\ registrations'[v] <= MaxRegistrations
  <2> SUFFICES ASSUME NEW v \in Worker, cancelling'[v] > 0
               PROVE  cancelling'[v] < registrations'[v] /\ registrations'[v] <= MaxRegistrations
    OBVIOUS
  <2>1. cancelling[v] \in Nat /\ registrations[v] \in Nat BY <1>1
  <2>2. cancelling[v] > 0 /\ cancelling'[v] <= cancelling[v] /\ cancelling'[v] \in Int
    BY <1>8, <2>1
  <2> QED BY <1>2, <2>1, <2>2 DEF CallbackInv
<1>10. \A v \in Worker : IsRegistered(workers, v)' => registrations'[v] >= 1
  BY <1>2 DEF CallbackInv, IsRegistered
<1>11. IsFiniteSet(Rereg') BY <1>7 DEF CallbackInv
<1> HIDE DEF x
<1> QED BY <1>5, <1>6, <1>9, <1>10, <1>11 DEF CallbackInv

\* A worker registers.
LEMMA RegisterAbsorbs ==
  ASSUME TypeOK, CallbackInv, NEW w \in Worker, Register(w)
  PROVE  CallbackInv' /\ Absorbed \subseteq Absorbed'
<1> DEFINE x == <<w, registrations[w] + 1>>
<1>1. /\ cancelling \in [Worker -> Nat] /\ registrations \in [Worker -> Nat]
      /\ workers \in [Worker -> WorkerInfo] /\ MaxRegistrations \in Nat
  BY FrameQueueAssumption DEF TypeOK
<1>2. /\ registrations[w] < MaxRegistrations
      /\ registrations' = [registrations EXCEPT ![w] = @ + 1]
      /\ workers' = Registered(workers, w)
      /\ cancelling' = IF IsRegistered(workers, w)
                       THEN [cancelling EXCEPT ![w] = @ + 1] ELSE cancelling
  BY DEF Register
<1>3. \A v \in Worker : v # w =>
        cancelling'[v] = cancelling[v] /\ registrations'[v] = registrations[v]
          /\ workers'[v] = workers[v]
  BY <1>1, <1>2 DEF Registered
<1>4. /\ registrations'[w] = registrations[w] + 1
      /\ cancelling'[w] = cancelling[w] + (IF IsRegistered(workers, w) THEN 1 ELSE 0)
      /\ registrations[w] \in Nat /\ cancelling[w] \in Nat
  BY <1>1, <1>2
<1>5. Absorbed \subseteq Absorbed'
  <2> SUFFICES ASSUME NEW p \in Absorbed PROVE p \in Absorbed' OBVIOUS
  <2>1. /\ p \in Worker \X (2 .. MaxRegistrations) /\ p[1] \in Worker /\ p[2] \in Nat
        /\ p[2] + cancelling[p[1]] <= registrations[p[1]]
    BY <1>1 DEF Absorbed
  <2>2. p[2] + cancelling'[p[1]] <= registrations'[p[1]]
    <3>1. CASE p[1] = w BY <1>4, <2>1, <3>1
    <3>2. CASE p[1] # w BY <1>3, <2>1, <3>2
    <3> QED BY <3>1, <3>2
  <2> QED BY <2>1, <2>2 DEF Absorbed
<1>6. IsFiniteSet(Rereg')
  <2>1. Rereg' \subseteq Rereg \cup {x}
    <3> SUFFICES ASSUME NEW p \in Rereg', p \notin Rereg PROVE p = x OBVIOUS
    <3>1. /\ p \in Worker \X (2 .. MaxRegistrations) /\ p[1] \in Worker /\ p[2] \in Nat
          /\ p[2] <= registrations'[p[1]] /\ p = <<p[1], p[2]>>
      BY <1>1 DEF Rereg
    <3>2. ~(p[2] <= registrations[p[1]]) BY <3>1 DEF Rereg
    <3>3. p[1] = w BY <1>3, <3>1, <3>2
    <3>4. p[2] = registrations[w] + 1 BY <1>4, <3>1, <3>2, <3>3
    <3> QED BY <3>1, <3>3, <3>4
  <2>2. IsFiniteSet(Rereg \cup {x}) BY FS_AddElement DEF CallbackInv
  <2> HIDE DEF x
  <2> QED BY <2>1, <2>2, FS_Subset
<1>7. \A v \in Worker : IsRegistered(workers, v)' => registrations'[v] >= 1
  BY <1>3, <1>4 DEF CallbackInv, IsRegistered
<1>8. \A v \in Worker : cancelling'[v] > 0 =>
        cancelling'[v] < registrations'[v] /\ registrations'[v] <= MaxRegistrations
  <2> SUFFICES ASSUME NEW v \in Worker, cancelling'[v] > 0
               PROVE  cancelling'[v] < registrations'[v] /\ registrations'[v] <= MaxRegistrations
    OBVIOUS
  <2>1. CASE v # w BY <1>3, <2>1 DEF CallbackInv
  <2>2. CASE v = w /\ IsRegistered(workers, w)
    <3>1. registrations[w] >= 1 /\ (cancelling[w] > 0 => cancelling[w] < registrations[w])
      BY <2>2 DEF CallbackInv
    <3> QED BY <1>1, <1>2, <1>4, <2>2, <3>1
  <2>3. CASE v = w /\ ~IsRegistered(workers, w)
    <3>1. cancelling[w] > 0 BY <1>4, <2>3
    <3>2. cancelling[w] < registrations[w] BY <3>1 DEF CallbackInv
    <3> QED BY <1>1, <1>2, <1>4, <2>3, <3>2
  <2> QED BY <2>1, <2>2, <2>3
<1> QED BY <1>5, <1>6, <1>7, <1>8 DEF CallbackInv

\* Every other step leaves the registrations alone.
LEMMA OthersAbsorbNothing ==
  ASSUME TypeOK, CallbackInv, UNCHANGED envVars,
         \A v \in Worker : IsRegistered(workers, v)' => IsRegistered(workers, v)
  PROVE  CallbackInv' /\ Absorbed' = Absorbed
<1>1. registrations' = registrations /\ cancelling' = cancelling BY DEF envVars
<1>2. Rereg' = Rereg /\ Absorbed' = Absorbed BY <1>1 DEF Rereg, Absorbed
<1> QED BY <1>1, <1>2 DEF CallbackInv

\* A step that neither registers a worker nor runs a callback.
NoNewcomer ==
  UNCHANGED envVars /\ \A v \in Worker : IsRegistered(workers, v)' => IsRegistered(workers, v)

LEMMA NewcomersRegister ==
  ASSUME TypeOK
  PROVE  /\ \A f \in Frame : Enqueue(f) => NoNewcomer
         /\ \A c \in calls : CallStep(c) => NoNewcomer
         /\ Watchdog => NoNewcomer
         /\ \A w \in Worker : Remove(w) \/ Heartbeat(w) \/ GoSilent(w) => NoNewcomer
         /\ EvictionTick => NoNewcomer
         /\ \A t \in inflight : Expire(t) => NoNewcomer
<1> DEFINE Keeps == \A v \in Worker : IsRegistered(workers', v) => IsRegistered(workers, v)
<1>1. workers \in Registry BY DEF TypeOK, Registry
<1>2. NoNewcomer <=> UNCHANGED envVars /\ Keeps BY DEF NoNewcomer, IsRegistered
<1>3. UNCHANGED workers => Keeps OBVIOUS
<1>4. ASSUME NEW f \in Frame, Enqueue(f) PROVE NoNewcomer
  BY <1>2, <1>3, <1>4 DEF Enqueue
<1>5. ASSUME NEW c \in calls, CallStep(c) PROVE NoNewcomer
  <2> DEFINE w == WorkerOf(c)
  <2>1. w \in Worker BY DEF TypeOK, Call, Dispatched, TaskOf, WorkerOf
  <2>2. UNCHANGED envVars
    BY <1>5 DEF CallStep, CountCall, StoreResult, LoseResult, Acknowledge, LoseAck, Return, Fail
  <2>3. CASE CountCall(c)
    <3>1. workers' = PendingIncremented(workers, w) BY <2>3 DEF CountCall
    <3> HIDE DEF w
    <3>2. Keeps BY <1>1, <2>1, <3>1, NoNewEntries
    <3> QED BY <1>2, <2>2, <3>2
  <2>4. CASE StoreResult(c)
    <3>1. workers' = FramesIncremented(workers, w, 0) BY <2>4 DEF StoreResult
    <3> HIDE DEF w
    <3>2. Keeps BY <1>1, <2>1, <3>1, NoNewEntries
    <3> QED BY <1>2, <2>2, <3>2
  <2>5. CASE Fail(c)
    <3>1. workers' = PendingDecremented(workers, w) BY <2>5 DEF Fail
    <3> HIDE DEF w
    <3>2. Keeps BY <1>1, <2>1, <3>1, NoNewEntries
    <3> QED BY <1>2, <2>2, <3>2
  <2>6. CASE Acknowledge(c)
    <3>1. ASSUME NEW t \in inflight, workers' = TimeoutReset(workers, t.assigned_worker)
          PROVE  Keeps
      <4>1. t.assigned_worker \in Worker BY DEF TypeOK, Dispatched, TaskOf
      <4> QED BY <1>1, <3>1, <4>1, NoNewEntries
    <3>2. UNCHANGED workers \/ \E t \in inflight : workers' = TimeoutReset(workers, t.assigned_worker)
      BY <2>6 DEF Acknowledge
    <3> HIDE DEF Keeps
    <3> QED BY <1>2, <1>3, <2>2, <3>1, <3>2
  <2>7. CASE LoseResult(c) \/ LoseAck(c) \/ Return(c)
    BY <1>2, <1>3, <2>2, <2>7 DEF LoseResult, LoseAck, Return
  <2> QED BY <1>5, <2>3, <2>4, <2>5, <2>6, <2>7 DEF CallStep
<1>6. ASSUME Watchdog PROVE NoNewcomer
  <2>1. UNCHANGED envVars
    BY <1>6 DEF Watchdog, Drain, Rebuffer, Scan, EndRound, Assign, TimeOut, Drop, BufferRetry, Retry
  <2>2. ASSUME NEW t \in timedOut, TimeOut(t) PROVE Keeps
    <3> DEFINE w == t.assigned_worker
               r == PendingDecremented(workers, w)
    <3>1. w \in Worker BY DEF TypeOK, Dispatched, TaskOf
    <3>2. workers' = TimeoutRecorded(r, w) BY <2>2 DEF TimeOut
    <3>3. r \in Registry BY <1>1, <3>1, PendingTyped
    <3> HIDE DEF w, r
    <3>4. ASSUME NEW v \in Worker, IsRegistered(workers', v) PROVE IsRegistered(r, v)
      BY <3>1, <3>2, <3>3, <3>4, NoNewEntries
    <3>5. ASSUME NEW v \in Worker, IsRegistered(r, v) PROVE IsRegistered(workers, v)
      BY <1>1, <3>1, <3>5, NoNewEntries DEF r
    <3> QED BY <3>4, <3>5
  <2>3. UNCHANGED workers \/ \E t \in timedOut : TimeOut(t)
    BY <1>6 DEF Watchdog, Drain, Rebuffer, Scan, EndRound, Assign, Drop, BufferRetry, Retry
  <2> HIDE DEF Keeps
  <2> QED BY <1>2, <1>3, <2>1, <2>2, <2>3
<1>7. ASSUME NEW w \in Worker, Remove(w) \/ Heartbeat(w) \/ GoSilent(w) PROVE NoNewcomer
  <2>1. workers' \in {Removed(workers, w), HeartbeatRecorded(workers, w), FallenSilent(workers, w)}
    BY <1>7 DEF Remove, Heartbeat, GoSilent
  <2>2. Keeps BY <1>1, <2>1, NoNewEntries
  <2> QED BY <1>2, <1>7, <2>2 DEF Remove, Heartbeat, GoSilent
<1>8. ASSUME EvictionTick PROVE NoNewcomer
  <2> DEFINE r == HeartbeatRecorded(workers, Local)
  <2>1. Local \in Worker BY WorkerManagerAssumption, FrameQueueAssumption
  <2>2. r \in Registry BY <1>1, <2>1, EntryTyped
  <2>3. workers' = StaleEvicted(r) BY <1>8 DEF EvictionTick
  <2> HIDE DEF r
  <2>4. ASSUME NEW v \in Worker, IsRegistered(workers', v) PROVE IsRegistered(r, v)
    BY <2>1, <2>2, <2>3, <2>4, NoNewEntries
  <2>5. ASSUME NEW v \in Worker, IsRegistered(r, v) PROVE IsRegistered(workers, v)
    BY <1>1, <2>1, <2>5, NoNewEntries DEF r
  <2> QED BY <1>2, <1>8, <2>4, <2>5 DEF EvictionTick
<1>9. ASSUME NEW t \in inflight, Expire(t) PROVE NoNewcomer
  BY <1>2, <1>3, <1>9 DEF Expire
<1> QED BY <1>4, <1>5, <1>6, <1>7, <1>8, <1>9

LEMMA CallbackInit == Init => CallbackInv
<1> SUFFICES ASSUME Init PROVE CallbackInv
  OBVIOUS
<1>1. Rereg = {}
  <2>1. \A w \in Worker : registrations[w] \in {0, 1} BY DEF Init
  <2>2. ASSUME NEW p \in Rereg PROVE FALSE
    <3>1. p[1] \in Worker /\ p[2] \in 2 .. MaxRegistrations /\ p[2] <= registrations[p[1]]
      BY DEF Rereg
    <3> QED BY <2>1, <3>1, FrameQueueAssumption
  <2> QED BY <2>2
<1>2. \A w \in Worker : IsRegistered(workers, w) => registrations[w] >= 1
  <2>1. ASSUME NEW w \in Worker, w # Local PROVE ~IsRegistered(workers, w)
    BY <2>1 DEF Init, IsRegistered, Registered, Unregistered
  <2>2. \A w \in Worker : w = Local => registrations[w] = 1 BY DEF Init
  <2> QED BY <2>1, <2>2
<1>3. \A w \in Worker : cancelling[w] = 0 BY DEF Init
<1> QED BY <1>1, <1>2, <1>3, FS_EmptySet DEF CallbackInv

\* Callbacks stay within the re-registrations, and only one that runs doubles.
LEMMA CallbackStep ==
  ASSUME TypeOK, CallbackInv, [Next]_vars
  PROVE  /\ CallbackInv'
         /\ Doublings \in Nat /\ Doublings' \in Nat /\ Doublings <= Doublings'
         /\ \A w \in Worker : CancelInflight(w) => Doublings' = Doublings + 1
<1>1. \A w \in Worker : CancelInflight(w) =>
        CallbackInv' /\ Absorbed \subseteq Absorbed' /\ Doublings' = Doublings + 1
  BY CancelAbsorbs
<1>2. ASSUME NoNewcomer PROVE CallbackInv' /\ Absorbed \subseteq Absorbed'
  BY <1>2, OthersAbsorbNothing DEF NoNewcomer
<1>3. CallbackInv' /\ Absorbed \subseteq Absorbed'
  <2>1. CASE UNCHANGED vars
    <3>1. NoNewcomer BY <2>1 DEF NoNewcomer, vars, envVars, IsRegistered
    <3> QED BY <1>2, <3>1
  <2>2. CASE Next
    <3>1. \/ NoNewcomer
          \/ \E w \in Worker : Register(w)
          \/ \E w \in Worker : CancelInflight(w)
      BY <2>2, NewcomersRegister DEF Next, Environment
    <3>2. \A w \in Worker : Register(w) => CallbackInv' /\ Absorbed \subseteq Absorbed'
      BY RegisterAbsorbs
    <3> QED BY <1>1, <1>2, <3>1, <3>2
  <2> QED BY <2>1, <2>2
<1>4. Doublings \in Nat BY AbsorbedFinite
<1>5. IsFiniteSet(Absorbed') /\ Doublings' \in Nat
  <2>1. TypeOK' BY StepTyped
  <2>2. (TypeOK /\ CallbackInv =>
           IsFiniteSet(Absorbed) /\ Doublings \in Nat /\ Doublings <= Reregistrations)'
    BY AbsorbedFinite, PTL
  <2> QED BY <1>3, <2>1, <2>2
<1>6. Doublings <= Doublings' BY <1>3, <1>5, FS_Subset DEF Doublings
<1> QED BY <1>1, <1>3, <1>4, <1>5, <1>6

-----------------------------------------------------------------------------
\* Tasks stay apart.

\* The tasks that no call has.
Elsewhere == pending \cup inflight \cup drained \cup noWorker \cup timedOut \cup current

\* Open calls are for different tasks.
TasksDiffer == \A c, d \in calls : c.open /\ d.open /\ c.task = d.task => c = d

\* A frame being enqueued is nowhere else.
Alone ==
  \A c \in OpenCalls("enqueue") :
    \A d \in calls : d.open /\ d.task.frame_id = c.task.frame_id => d.task = c.task

Absent == \A c \in OpenCalls("enqueue") : \A t \in Elsewhere : t.frame_id # c.task.frame_id

\* A task the watchdog dispatches has left its list.
Taken == \A c \in OpenCalls("drain") : Buffered(c.task) \notin drained

Unassigned == \A t \in pending \cup drained \cup noWorker : t.assigned_worker = NoWorker

Sorted == drained \cap noWorker = {}

DrainOver == wpc \notin {"assign", "collect"} => OpenCalls("drain") = {}

Apart == TasksDiffer /\ Alone /\ Absent /\ Taken /\ Unassigned /\ Sorted /\ DrainOver

LEMMA BufferedUnassigned ==
  ASSUME NEW t \in Task
  PROVE  /\ Buffered(t).assigned_worker = NoWorker
         /\ BufferedRetry(t).assigned_worker = NoWorker
         /\ [Buffered(t) EXCEPT !.retries = 0].assigned_worker = NoWorker
         /\ \A w \in Worker : t.assigned_worker = NoWorker => Buffered([t EXCEPT !.assigned_worker = w]) = t
<1>1. Buffered(t) \in Task /\ Buffered(t).assigned_worker = NoWorker
  BY DEF Buffered, Task, TaskOf
<1>2. \A u \in Task : [u EXCEPT !.retries = 0].assigned_worker = u.assigned_worker
  BY DEF Task, TaskOf
<1>3. \A u \in Task : [u EXCEPT !.retries = @ + 1].assigned_worker = u.assigned_worker
  BY DEF Task, TaskOf
<1>4. \A w \in Worker : t.assigned_worker = NoWorker => Buffered([t EXCEPT !.assigned_worker = w]) = t
  BY DEF Buffered, Task, TaskOf
<1> QED BY <1>1, <1>2, <1>3, <1>4 DEF BufferedRetry

\* Steps that start no call keep tasks apart if what they put elsewhere was there, or
\* is the task of a call they close.
LEMMA ApartKept ==
  ASSUME Apart, TasksDiffer', Unassigned', Sorted', DrainOver',
         \A d \in calls' : d.open =>
           \E e \in calls : e.open /\ e.task = d.task /\ e.owner = d.owner,
         \A t \in Elsewhere' :
           \/ \E u \in Elsewhere : u.frame_id = t.frame_id
           \/ \A e \in OpenCalls("enqueue")' : e.task.frame_id # t.frame_id,
         drained' \subseteq drained \/ OpenCalls("drain")' = {}
  PROVE  Apart'
<1> USE DEF Apart, OpenCalls
<1>1. Alone' BY DEF Alone
<1>2. Absent'
  <2> SUFFICES ASSUME NEW c \in OpenCalls("enqueue")', NEW t \in Elsewhere',
                      t.frame_id = c.task.frame_id
               PROVE  FALSE
    BY DEF Absent
  <2>1. PICK u \in Elsewhere : u.frame_id = t.frame_id OBVIOUS
  <2>2. PICK e \in calls : e.open /\ e.task = c.task /\ e.owner = "enqueue" OBVIOUS
  <2> QED BY <2>1, <2>2 DEF Absent
<1>3. Taken' BY DEF Taken
<1> QED BY <1>1, <1>2, <1>3

LEMMA ApartEnqueue ==
  ASSUME PoolInv, Apart, NEW f \in Frame, Enqueue(f)
  PROVE  Apart'
<1>1. UNCHANGED <<pending, inflight, drained, noWorker, timedOut, current, wpc>>
  BY DEF Enqueue, queueVars, watchdogVars
<1>2. \A t \in Elsewhere : t.frame_id # f
  <2>1. \A t \in Elsewhere : t \in Held BY DEF Elsewhere, Held
  <2>2. f \notin submitted BY DEF Enqueue
  <2> QED BY <2>1, <2>2 DEF PoolInv, Known, HeldFrames
<1>3. \A c \in calls : c.task.frame_id # f BY DEF Enqueue, PoolInv, Known
<1>4. CASE UNCHANGED calls
  BY <1>1, <1>4
     DEF Apart, TasksDiffer, Alone, Absent, Taken, Unassigned, Sorted, DrainOver, OpenCalls, Elsewhere
<1>5. ASSUME NEW w \in LeastLoaded(workers),
             calls' = calls \cup
               {NewCall([frame_id |-> f, seq |-> minted[f],
                         assigned_worker |-> w, retries |-> 0], "enqueue")}
      PROVE  Apart'
  <2> DEFINE t == [frame_id |-> f, seq |-> minted[f], assigned_worker |-> w, retries |-> 0]
             c == NewCall(t, "enqueue")
  <2>1. c.open /\ c.task.frame_id = f /\ c.owner = "enqueue" BY DEF NewCall
  <2>2. calls' = calls \cup {c} BY <1>5
  <2> HIDE DEF t, c
  <2>3. TasksDiffer' BY <1>3, <2>1, <2>2 DEF Apart, TasksDiffer
  <2>4. Alone' BY <1>3, <2>1, <2>2 DEF Apart, Alone, OpenCalls
  <2>5. Absent' BY <1>1, <1>2, <2>1, <2>2 DEF Apart, Absent, OpenCalls, Elsewhere
  <2>6. OpenCalls("drain")' = OpenCalls("drain") BY <2>1, <2>2 DEF OpenCalls
  <2>7. Taken' /\ Unassigned' /\ Sorted' /\ DrainOver'
    BY <1>1, <2>6 DEF Apart, Taken, Unassigned, Sorted, DrainOver
  <2> QED BY <2>3, <2>4, <2>5, <2>7 DEF Apart
<1> QED BY <1>4, <1>5 DEF Enqueue

\* Calls that move on keep their task and owner; those that end are gone.
LEMMA CallsMoveOn ==
  ASSUME TypeOK, TasksDiffer, NEW c \in calls,
         \/ \E stage \in {"running", "stored", "answered"} : Reaches(c, stage)
         \/ Answers(c)
         \/ c.open /\ calls' = (calls \ {c}) \cup {[c EXCEPT !.stage = "answered"],
                                                   [c EXCEPT !.open = FALSE]}
  PROVE  /\ TasksDiffer'
         /\ \A d \in calls' : d.open =>
              \E e \in calls : e.open /\ e.task = d.task /\ e.owner = d.owner
<1>1. c \in Call BY DEF TypeOK
<1>2. ~[c EXCEPT !.open = FALSE].open BY <1>1 DEF Call
<1>3. PICK stage \in {"running", "stored", "answered"} :
        calls' \subseteq (calls \ {c}) \cup {[c EXCEPT !.stage = stage], [c EXCEPT !.open = FALSE]}
  BY DEF Answers, Reaches
<1> DEFINE d == [c EXCEPT !.stage = stage]
           e == [c EXCEPT !.open = FALSE]
<1>4. d.open = c.open /\ d.task = c.task /\ d.owner = c.owner BY <1>1 DEF Call
<1>5. ~e.open /\ calls' \subseteq (calls \ {c}) \cup {d, e} BY <1>2, <1>3
<1> HIDE DEF d, e
<1>6. TasksDiffer' BY <1>4, <1>5 DEF TasksDiffer
<1> QED BY <1>4, <1>5, <1>6

LEMMA ApartCallStep ==
  ASSUME TypeOK, WatchdogPhases, Apart, NEW c \in calls, CallStep(c)
  PROVE  Apart'
<1> USE DEF vars, queueVars, watchdogVars, envVars, outcomeVars
<1>1. c \in Call /\ c.task \in Task BY DispatchedIsTask DEF TypeOK, Call
<1>2. CASE CountCall(c) \/ StoreResult(c) \/ LoseResult(c) \/ Acknowledge(c) \/ LoseAck(c)
  <2>1. /\ TasksDiffer'
        /\ \A d \in calls' : d.open =>
             \E e \in calls : e.open /\ e.task = d.task /\ e.owner = d.owner
    BY <1>2, CallsMoveOn DEF CountCall, StoreResult, LoseResult, Acknowledge, LoseAck, Apart
  <2>2. inflight' \subseteq inflight /\ UNCHANGED <<pending, drained, noWorker, timedOut, current, wpc>>
    BY <1>2 DEF CountCall, StoreResult, LoseResult, Acknowledge, LoseAck, Without
  <2>3. Elsewhere' \subseteq Elsewhere BY <2>2 DEF Elsewhere
  <2>4. Unassigned' /\ Sorted' BY <2>2 DEF Apart, Unassigned, Sorted
  <2>5. DrainOver'
    <3>1. OpenCalls("drain") = {} => OpenCalls("drain")' = {} BY <2>1 DEF OpenCalls
    <3> QED BY <2>2, <3>1 DEF Apart, DrainOver
  <2> QED BY <2>1, <2>2, <2>3, <2>4, <2>5, ApartKept
<1>3. ASSUME c.open, \A d \in calls' : d.open => d \in calls \ {c},
             Elsewhere' \subseteq Elsewhere \cup {c.task, Buffered(c.task)},
             UNCHANGED <<drained, noWorker>>, Unassigned', Resume(c)
      PROVE  Apart'
  <2>1. TasksDiffer' BY <1>3 DEF Apart, TasksDiffer
  <2>2. \A d \in calls' : d.open => \E e \in calls : e.open /\ e.task = d.task /\ e.owner = d.owner
    BY <1>3
  <2>3. \A e \in OpenCalls("enqueue")' : e.task.frame_id # c.task.frame_id
    BY <1>3 DEF Apart, TasksDiffer, Alone, OpenCalls
  <2>4. Buffered(c.task).frame_id = c.task.frame_id BY <1>1, SameFrame
  <2>5. DrainOver'
    <3>1. OpenCalls("drain")' \subseteq OpenCalls("drain") BY <1>3 DEF OpenCalls
    <3>2. c.owner = "retry" => wpc = "await" BY <1>3 DEF WatchdogPhases, OpenCalls
    <3> QED BY <1>3, <3>1, <3>2 DEF Apart, DrainOver, Resume
  <2>6. \A t \in Elsewhere' :
          \/ \E u \in Elsewhere : u.frame_id = t.frame_id
          \/ \A e \in OpenCalls("enqueue")' : e.task.frame_id # t.frame_id
    BY <1>3, <2>3, <2>4
  <2>7. Sorted' BY <1>3 DEF Apart, Sorted
  <2> QED BY <1>3, <2>1, <2>2, <2>5, <2>6, <2>7, ApartKept
<1>4. CASE Return(c)
  <2>1. inflight' \subseteq inflight \cup {c.task} BY <1>4 DEF Return, Insert, Without
  <2>2. /\ c.open /\ calls' = calls \ {c} /\ Resume(c)
        /\ UNCHANGED <<pending, drained, noWorker, timedOut, current>>
    BY <1>4 DEF Return
  <2>3. Elsewhere' \subseteq Elsewhere \cup {c.task} BY <2>1, <2>2 DEF Elsewhere
  <2>4. Unassigned' BY <2>2 DEF Apart, Unassigned
  <2> QED BY <1>3, <2>2, <2>3, <2>4
<1>5. CASE Fail(c)
  <2>1. ~[c EXCEPT !.open = FALSE].open BY <1>1 DEF Call
  <2>2. /\ c.open /\ Resume(c) /\ pending' \subseteq pending \cup {Buffered(c.task)}
        /\ UNCHANGED <<inflight, drained, noWorker, timedOut, current>>
    BY <1>5 DEF Fail
  <2>3. \A d \in calls' : d.open => d \in calls \ {c} BY <1>5, <2>1 DEF Fail
  <2>4. Elsewhere' \subseteq Elsewhere \cup {Buffered(c.task)} BY <2>2 DEF Elsewhere
  <2>5. Unassigned' BY <1>1, <2>2, BufferedUnassigned DEF Apart, Unassigned
  <2> QED BY <1>3, <2>2, <2>3, <2>4, <2>5
<1> QED BY <1>2, <1>4, <1>5 DEF CallStep

\* A call of the watchdog for a task it holds, when no other call is for that task.
LEMMA ApartStarts ==
  ASSUME Apart, NEW t \in Elsewhere, NEW u, NEW owner, owner \in {"drain", "retry"},
         u.frame_id = t.frame_id, calls' = calls \cup {NewCall(u, owner)},
         \A d \in calls : d.open => d.task # u \/ d.owner = "enqueue",
         Elsewhere' \subseteq Elsewhere, Unassigned', Sorted', DrainOver',
         drained' \subseteq drained, owner = "drain" => Buffered(u) \notin drained'
  PROVE  Apart'
<1> DEFINE c == NewCall(u, owner)
<1>1. c.open /\ c.task = u /\ c.owner = owner BY DEF NewCall
<1>2. calls' = calls \cup {c} OBVIOUS
<1> HIDE DEF c
<1> USE DEF Apart, OpenCalls
<1>3. \A d \in calls : d.open /\ d.owner = "enqueue" => d.task.frame_id # u.frame_id
  BY DEF Absent
<1>4. TasksDiffer' BY <1>1, <1>2, <1>3 DEF TasksDiffer
<1>5. Alone' BY <1>1, <1>2, <1>3 DEF Alone
<1>6. Absent' BY <1>1, <1>2 DEF Absent
<1>7. Taken' BY <1>1, <1>2 DEF Taken
<1> QED BY <1>4, <1>5, <1>6, <1>7

LEMMA ApartWatchdog ==
  ASSUME TypeOK, WatchdogPhases, Apart, Watchdog
  PROVE  Apart'
<1> USE DEF vars, queueVars, watchdogVars, envVars, outcomeVars
<1>1. ASSUME UNCHANGED calls, Unassigned', Sorted', DrainOver',
             \A t \in Elsewhere' : \E u \in Elsewhere : u.frame_id = t.frame_id,
             drained' \subseteq drained \/ OpenCalls("drain") = {}
      PROVE  Apart'
  <2>1. TasksDiffer' BY <1>1 DEF Apart, TasksDiffer
  <2>2. OpenCalls("drain")' = OpenCalls("drain") BY <1>1 DEF OpenCalls
  <2> QED BY <1>1, <2>1, <2>2, ApartKept
<1>2. UNCHANGED calls => OpenCalls("drain")' = OpenCalls("drain") BY DEF OpenCalls
<1>3. CASE Drain
  <2>1. /\ UNCHANGED <<calls, inflight, noWorker, timedOut, current>> /\ pending' = {}
        /\ drained' = pending /\ wpc = "sleep" /\ wpc' = "assign"
    BY <1>3 DEF Drain
  <2>2. noWorker = {} /\ OpenCalls("drain") = {}
    BY <2>1 DEF WatchdogPhases, Apart, DrainOver
  <2>3. Unassigned' /\ Sorted' /\ DrainOver'
    BY <2>1, <2>2 DEF Apart, Unassigned, Sorted, DrainOver
  <2>4. Elsewhere' \subseteq Elsewhere BY <2>1 DEF Elsewhere
  <2> QED BY <1>1, <2>1, <2>2, <2>3, <2>4
<1>4. CASE Rebuffer
  <2>1. /\ UNCHANGED <<calls, inflight, drained, timedOut, current>> /\ pending' = pending \cup noWorker
        /\ noWorker' = {} /\ wpc' = "collect"
    BY <1>4 DEF Rebuffer
  <2>2. Unassigned' /\ Sorted' /\ DrainOver' BY <2>1 DEF Apart, Unassigned, Sorted, DrainOver
  <2>3. Elsewhere' \subseteq Elsewhere BY <2>1 DEF Elsewhere
  <2> QED BY <1>1, <2>1, <2>2, <2>3
<1>5. CASE Scan
  <2>1. /\ UNCHANGED <<calls, pending, inflight, drained, noWorker, current>> /\ timedOut' = overdue
        /\ OpenCalls("drain") = {}
    BY <1>5 DEF Scan, Snapshot, Collected
  <2>2. overdue \subseteq inflight BY DEF TypeOK
  <2>3. Unassigned' /\ Sorted' /\ DrainOver'
    BY <1>2, <2>1 DEF Apart, Unassigned, Sorted, DrainOver
  <2>4. Elsewhere' \subseteq Elsewhere BY <2>1, <2>2 DEF Elsewhere
  <2> QED BY <1>1, <2>1, <2>3, <2>4
<1>6. CASE EndRound
  <2>1. /\ UNCHANGED <<calls, pending, inflight, drained, noWorker, timedOut, current>>
        /\ wpc = "retry"
    BY <1>6 DEF EndRound
  <2>2. Unassigned' /\ Sorted' /\ DrainOver'
    BY <1>2, <2>1 DEF Apart, Unassigned, Sorted, DrainOver
  <2>3. Elsewhere' \subseteq Elsewhere BY <2>1 DEF Elsewhere
  <2> QED BY <1>1, <2>1, <2>2, <2>3
<1>7. ASSUME NEW t \in drained, Assign(t) PROVE Apart'
  <2>1. /\ UNCHANGED <<pending, inflight, timedOut, current, wpc>> /\ drained' = drained \ {t}
        /\ wpc = "assign"
    BY <1>7 DEF Assign
  <2>2. t \in Task /\ t.assigned_worker = NoWorker BY DEF TypeOK, Apart, Unassigned
  <2>3. CASE noWorker' = noWorker \cup {t} /\ UNCHANGED calls
    <3>1. Unassigned' /\ Sorted' /\ DrainOver'
      BY <2>1, <2>3 DEF Apart, Unassigned, Sorted, DrainOver
    <3>2. Elsewhere' \subseteq Elsewhere BY <2>1, <2>3 DEF Elsewhere
    <3> QED BY <1>1, <2>1, <2>3, <3>1, <3>2
  <2>4. ASSUME NEW w \in LeastLoaded(workers), UNCHANGED noWorker,
               calls' = calls \cup {NewCall([t EXCEPT !.assigned_worker = w], "drain")}
        PROVE  Apart'
    <3> DEFINE u == [t EXCEPT !.assigned_worker = w]
    <3>1. u.frame_id = t.frame_id /\ Buffered(u) = t
      BY <2>2, LeastLoadedIsWorker, SameFrame, BufferedUnassigned
    <3>2. calls' = calls \cup {NewCall(u, "drain")} BY <2>4
    <3> HIDE DEF u
    <3>3. ASSUME NEW d \in calls, d.open, d.owner # "enqueue" PROVE d.task # u
      <4>1. CASE d.owner = "drain" BY <3>1, <3>3, <4>1 DEF Apart, Taken, OpenCalls
      <4>2. CASE d.owner = "retry" BY <2>1, <3>3, <4>2 DEF WatchdogPhases, OpenCalls
      <4> QED BY <3>3, <4>1, <4>2 DEF TypeOK, Call
    <3>4. Unassigned' /\ Sorted' /\ DrainOver'
      BY <2>1, <2>4 DEF Apart, Unassigned, Sorted, DrainOver
    <3>5. Elsewhere' \subseteq Elsewhere /\ t \in Elsewhere BY <2>1, <2>4 DEF Elsewhere
    <3>6. Buffered(u) \notin drained' /\ drained' \subseteq drained BY <2>1, <3>1
    <3> QED BY <3>1, <3>2, <3>3, <3>4, <3>5, <3>6, ApartStarts
  <2> QED BY <1>7, <2>3, <2>4 DEF Assign
<1>8. ASSUME NEW t \in timedOut, TimeOut(t) PROVE Apart'
  <2>1. /\ UNCHANGED <<calls, pending, drained, noWorker>> /\ current' = {t} /\ wpc = "retry"
        /\ timedOut' = timedOut \ {t} /\ inflight' \subseteq inflight
    BY <1>8 DEF TimeOut, Without
  <2>2. Unassigned' /\ Sorted' /\ DrainOver'
    BY <1>2, <2>1 DEF Apart, Unassigned, Sorted, DrainOver
  <2>3. Elsewhere' \subseteq Elsewhere BY <2>1 DEF Elsewhere
  <2> QED BY <1>1, <2>1, <2>2, <2>3
<1>9. ASSUME NEW t \in current, Drop(t) PROVE Apart'
  <2>1. /\ UNCHANGED <<calls, pending, inflight, drained, noWorker, timedOut>> /\ current' = {}
        /\ wpc = "decide"
    BY <1>9 DEF Drop
  <2>2. Unassigned' /\ Sorted' /\ DrainOver'
    BY <1>2, <2>1 DEF Apart, Unassigned, Sorted, DrainOver
  <2>3. Elsewhere' \subseteq Elsewhere BY <2>1 DEF Elsewhere
  <2> QED BY <1>1, <2>1, <2>2, <2>3
<1>10. ASSUME NEW t \in current, BufferRetry(t) PROVE Apart'
  <2>1. /\ UNCHANGED <<calls, inflight, drained, noWorker, timedOut>> /\ current' = {}
        /\ pending' = pending \cup {BufferedRetry(t)} /\ wpc = "decide"
    BY <1>10 DEF BufferRetry
  <2>2. t \in Task BY DispatchedIsTask DEF TypeOK
  <2>3. BufferedRetry(t).frame_id = t.frame_id /\ BufferedRetry(t).assigned_worker = NoWorker
    BY <2>2, SameFrame, BufferedUnassigned
  <2>4. Unassigned' /\ Sorted' /\ DrainOver'
    BY <1>2, <2>1, <2>3 DEF Apart, Unassigned, Sorted, DrainOver
  <2>5. Elsewhere' \subseteq Elsewhere \cup {BufferedRetry(t)} /\ t \in Elsewhere BY <2>1 DEF Elsewhere
  <2>6. \A x \in Elsewhere' : \E u \in Elsewhere : u.frame_id = x.frame_id BY <2>3, <2>5
  <2> QED BY <1>1, <2>1, <2>4, <2>6
<1>11. ASSUME NEW t \in current, Retry(t) PROVE Apart'
  <2>1. /\ UNCHANGED <<pending, inflight, drained, noWorker, timedOut>> /\ current' = {}
        /\ wpc = "decide" /\ wpc' = "await"
    BY <1>11 DEF Retry
  <2>2. PICK w \in LeastLoaded(workers) : calls' = calls \cup {NewCall(RetryOf(t, w), "retry")}
    BY <1>11 DEF Retry
  <2>3. RetryOf(t, w).frame_id = t.frame_id
    BY DispatchedIsTask, LeastLoadedIsWorker, RetryTyped DEF TypeOK
  <2>4. ASSUME NEW d \in calls, d.open, d.owner # "enqueue" PROVE d.task # RetryOf(t, w)
    BY <2>1, <2>4 DEF WatchdogPhases, OpenCalls, Apart, DrainOver, TypeOK, Call
  <2>5. OpenCalls("drain")' = OpenCalls("drain") BY <2>2 DEF OpenCalls, NewCall
  <2>6. Unassigned' /\ Sorted' /\ DrainOver'
    BY <2>1, <2>5 DEF Apart, Unassigned, Sorted, DrainOver
  <2>7. Elsewhere' \subseteq Elsewhere /\ t \in Elsewhere BY <2>1 DEF Elsewhere
  <2> QED BY <2>1, <2>2, <2>3, <2>4, <2>6, <2>7, ApartStarts
<1> QED BY <1>3, <1>4, <1>5, <1>6, <1>7, <1>8, <1>9, <1>10, <1>11 DEF Watchdog

LEMMA ApartUnchanged ==
  ASSUME Apart, UNCHANGED <<pending, inflight, calls, watchdogVars>>
  PROVE  Apart'
BY DEF watchdogVars, Apart, TasksDiffer, Alone, Absent, Taken, Unassigned, Sorted, DrainOver,
       OpenCalls, Elsewhere

LEMMA ApartEnvironment ==
  ASSUME TypeOK, Apart, Environment
  PROVE  Apart'
<1> USE DEF vars, queueVars, watchdogVars, envVars, outcomeVars
<1>1. ASSUME NEW w \in Worker, CancelInflight(w) PROVE Apart'
  <2>1. /\ UNCHANGED <<calls, drained, noWorker, timedOut, current, wpc>> /\ inflight' \subseteq inflight
        /\ pending' \subseteq pending \cup TakenBack(inflight)
    BY <1>1 DEF CancelInflight, TakenBack
  <2>2. \A x \in TakenBack(inflight) :
          x.assigned_worker = NoWorker /\ \E u \in inflight : u.frame_id = x.frame_id
    <3>1. ASSUME NEW u \in inflight
          PROVE  /\ [Buffered(u) EXCEPT !.retries = 0].assigned_worker = NoWorker
                 /\ [Buffered(u) EXCEPT !.retries = 0].frame_id = u.frame_id
      BY DispatchedIsTask, SameFrame, BufferedUnassigned DEF TypeOK
    <3> QED BY <3>1 DEF TakenBack
  <2>3. OpenCalls("drain")' = OpenCalls("drain") /\ TasksDiffer'
    BY <2>1 DEF OpenCalls, Apart, TasksDiffer
  <2>4. Unassigned' /\ Sorted' /\ DrainOver'
    BY <2>1, <2>2, <2>3 DEF Apart, Unassigned, Sorted, DrainOver
  <2>5. \A t \in Elsewhere' : \E u \in Elsewhere : u.frame_id = t.frame_id
    BY <2>1, <2>2 DEF Elsewhere
  <2> QED BY <2>1, <2>3, <2>4, <2>5, ApartKept
<1>2. CASE UNCHANGED <<pending, inflight, calls, watchdogVars>>
  BY <1>2, ApartUnchanged
<1> QED
  BY <1>1, <1>2 DEF Environment, Register, Remove, Heartbeat, GoSilent, EvictionTick, Expire

\* Tasks stay apart.
LEMMA ApartStep == PoolInv /\ Apart /\ [Next]_vars => Apart'
<1> SUFFICES ASSUME PoolInv, Apart, [Next]_vars PROVE Apart'
  OBVIOUS
<1>1. TypeOK /\ WatchdogPhases BY DEF PoolInv, LossInv
<1>2. CASE UNCHANGED vars
  BY <1>2, ApartUnchanged DEF vars, queueVars
<1> QED
  BY <1>1, <1>2, ApartEnqueue, ApartCallStep, ApartWatchdog, ApartEnvironment DEF Next

LEMMA ApartInit == Init => Apart
BY DEF Init, Apart, TasksDiffer, Alone, Absent, Taken, Unassigned, Sorted, DrainOver,
       OpenCalls, Elsewhere

-----------------------------------------------------------------------------
\* What the steps do to the copies.

\* Task t is held in place x.
Holds(x, t) ==
  \/ x = "pending"  /\ t \in pending
  \/ x = "drained"  /\ t \in drained \cup noWorker
  \/ x = "inflight" /\ t \in inflight \cup timedOut
  \/ x = "current"  /\ t \in current
  \/ x = "call"     /\ \E c \in calls : c.open /\ c.task = t

LEMMA CopyHeld ==
  /\ \A f, p : p \in Copies(f) <=> p = <<p[1], p[2]>> /\ Holds(p[1], p[2]) /\ p[2].frame_id = f
  /\ \A f, x, t : <<x, t>> \in Copies(f) <=> Holds(x, t) /\ t.frame_id = f
<1>1. ASSUME NEW f, NEW x, NEW t
      PROVE  <<x, t>> \in Copies(f) <=> Holds(x, t) /\ t.frame_id = f
  BY DEF Copies, Holds
<1>2. ASSUME NEW f, NEW p \in Copies(f) PROVE p = <<p[1], p[2]>>
  BY DEF Copies
<1>3. ASSUME NEW f, NEW p
      PROVE  p \in Copies(f) <=> p = <<p[1], p[2]>> /\ Holds(p[1], p[2]) /\ p[2].frame_id = f
  <2>1. ASSUME p \in Copies(f) PROVE p = <<p[1], p[2]>> /\ Holds(p[1], p[2]) /\ p[2].frame_id = f
    <3>1. p = <<p[1], p[2]>> BY <1>2, <2>1
    <3>2. <<p[1], p[2]>> \in Copies(f) BY <2>1, <3>1
    <3> QED BY <1>1, <3>1, <3>2
  <2>2. ASSUME p = <<p[1], p[2]>>, Holds(p[1], p[2]), p[2].frame_id = f PROVE p \in Copies(f)
    <3>1. <<p[1], p[2]>> \in Copies(f) BY <1>1, <2>2
    <3> QED BY <2>2, <3>1
  <2> QED BY <2>1, <2>2
<1> QED BY <1>1, <1>3

LEMMA CopyHeldNext ==
  (/\ \A f, p : p \in Copies(f) <=> p = <<p[1], p[2]>> /\ Holds(p[1], p[2]) /\ p[2].frame_id = f
   /\ \A f, x, t : <<x, t>> \in Copies(f) <=> Holds(x, t) /\ t.frame_id = f)'
BY CopyHeld, PTL

LEMMA CopyHolding ==
  TypeOK /\ RetriesBounded => \A f : Copies(f) \subseteq Holding
<1> SUFFICES ASSUME TypeOK, RetriesBounded, NEW f, NEW p \in Copies(f)
             PROVE  p \in Holding
  OBVIOUS
<1> DEFINE x == p[1]
           t == p[2]
<1>1. p = <<x, t>> /\ Holds(x, t) BY CopyHeld
<1> HIDE DEF x, t
<1>2. t \in Held BY <1>1 DEF Holds, Held
<1>3. t \in Task BY <1>1, DispatchedIsTask DEF Holds, TypeOK, Call
<1>4. t.retries <= MAX_RETRIES BY <1>2 DEF RetriesBounded
<1>5. x \in {"pending", "drained", "inflight", "current", "call"} BY <1>1 DEF Holds
<1> QED BY <1>1, <1>3, <1>4, <1>5 DEF Holding

LEMMA CopyHoldingNext ==
  (TypeOK /\ RetriesBounded => \A f : Copies(f) \subseteq Holding)'
BY CopyHolding, PTL

\* What a step that runs no callback leaves as it was.
CopyStep ==
  \A f \in Frame, b \in Nat : Bounded(Copies(f), minted[f], b) => Bounded(Copies(f)', minted'[f], b)

\* Copies disappear.
LEMMA ShrinkStep ==
  ASSUME TypeOK, UNCHANGED minted, \A x, t : Holds(x, t)' => Holds(x, t)
  PROVE  CopyStep
<1> SUFFICES ASSUME NEW f \in Frame, NEW b \in Nat, Bounded(Copies(f), minted[f], b)
             PROVE  Bounded(Copies(f)', minted'[f], b)
  BY DEF CopyStep
<1>1. minted[f] \in Nat BY DEF TypeOK
<1>2. Copies(f)' \subseteq Copies(f) BY CopyHeld, CopyHeldNext
<1> HIDE DEF Copies
<1> QED BY <1>1, <1>2, BoundedLess

\* One copy moves; its frame may get an id if the task is charged for it.
LEMMA MoveStep ==
  ASSUME TypeOK, RetriesBounded, TypeOK', NEW x, NEW t, NEW y, NEW u, Holds(x, t),
         y \in {"pending", "drained", "inflight", "current", "call"}, u \in Task,
         u.retries <= MAX_RETRIES, u.frame_id = t.frame_id,
         \A z, v : Holds(z, v)' => (Holds(z, v) /\ <<z, v>> # <<x, t>>) \/ (z = y /\ v = u),
         \A f \in Frame : f # t.frame_id => minted'[f] = minted[f],
         t.frame_id \in Frame => minted'[t.frame_id] + t.retries <= minted[t.frame_id] + u.retries
  PROVE  CopyStep
<1> SUFFICES ASSUME NEW f \in Frame, NEW b \in Nat, Bounded(Copies(f), minted[f], b)
             PROVE  Bounded(Copies(f)', minted'[f], b)
  BY DEF CopyStep
<1>1. minted[f] \in Nat /\ minted'[f] \in Nat BY DEF TypeOK
<1> DEFINE p == <<x, t>>
           q == <<y, u>>
<1>2. CASE f = t.frame_id
  <2>1. p \in Copies(f) BY <1>2, CopyHeld
  <2>2. q \in Holding BY DEF Holding
  <2>3. Copies(f)' \subseteq (Copies(f) \ {p}) \cup {q}
    <3> SUFFICES ASSUME NEW o \in Copies(f)' PROVE o \in (Copies(f) \ {p}) \cup {q} OBVIOUS
    <3>1. o = <<o[1], o[2]>> /\ Holds(o[1], o[2])' /\ o[2].frame_id = f BY CopyHeldNext
    <3>2. CASE Holds(o[1], o[2]) /\ <<o[1], o[2]>> # <<x, t>>
      <4>1. o \in Copies(f) BY <3>1, <3>2, CopyHeld
      <4> QED BY <3>1, <3>2, <4>1
    <3>3. CASE o[1] = y /\ o[2] = u BY <3>1, <3>3
    <3> QED BY <3>1, <3>2, <3>3
  <2>4. p[2] = t /\ q[2] = u OBVIOUS
  <2>5. minted'[f] + p[2].retries <= minted[f] + q[2].retries BY <1>2, <2>4
  <2> HIDE DEF p, q, Copies
  <2> QED BY <1>1, <2>1, <2>2, <2>3, <2>5, BoundedMoved
<1>3. CASE f # t.frame_id
  <2>1. Copies(f)' \subseteq Copies(f)
    <3> SUFFICES ASSUME NEW o \in Copies(f)' PROVE o \in Copies(f) OBVIOUS
    <3>1. o = <<o[1], o[2]>> /\ Holds(o[1], o[2])' /\ o[2].frame_id = f BY CopyHeldNext
    <3>2. Holds(o[1], o[2]) BY <1>3, <3>1
    <3> QED BY <3>1, <3>2, CopyHeld
  <2>2. minted'[f] = minted[f] BY <1>3
  <2> HIDE DEF Copies
  <2> QED BY <1>1, <2>1, <2>2, BoundedLess
<1> QED BY <1>2, <1>3

LEMMA CallStepCopies ==
  ASSUME TypeOK, TypeOK', RetriesBounded, Apart, NEW c \in calls, CallStep(c)
  PROVE  CopyStep /\ UNCHANGED <<minted, submitted>>
<1> USE DEF vars, queueVars, watchdogVars, envVars, outcomeVars
<1>1. c \in Call /\ c.task \in Task /\ c.task.retries \in Nat BY DispatchedIsTask DEF TypeOK, Call, Task, TaskOf
<1>2. UNCHANGED <<minted, submitted>>
  BY DEF CallStep, CountCall, StoreResult, LoseResult, Acknowledge, LoseAck, Return, Fail
<1>3. CASE CountCall(c) \/ StoreResult(c) \/ LoseResult(c) \/ Acknowledge(c) \/ LoseAck(c)
  <2>1. \A d \in calls' : d.open => \E e \in calls : e.open /\ e.task = d.task /\ e.owner = d.owner
    BY <1>3, CallsMoveOn DEF CountCall, StoreResult, LoseResult, Acknowledge, LoseAck, Apart
  <2>2. inflight' \subseteq inflight /\ UNCHANGED <<pending, drained, noWorker, timedOut, current>>
    BY <1>3 DEF CountCall, StoreResult, LoseResult, Acknowledge, LoseAck, Without
  <2>3. \A x, t : Holds(x, t)' => Holds(x, t) BY <2>1, <2>2 DEF Holds
  <2> QED BY <1>2, <2>3, ShrinkStep
<1>4. c.open => Holds("call", c.task) BY DEF Holds
<1>5. c.open => \A d \in calls : d.open /\ d # c => d.task # c.task
  BY DEF Apart, TasksDiffer
<1>6. c.open => c.task.retries <= MAX_RETRIES BY HeldBudget DEF WithinBudget
<1>7. c.task.frame_id \in Frame /\ minted \in [Frame -> Nat] BY <1>1 DEF TypeOK, Task, TaskOf
<1>8. CASE Return(c)
  <2>1. inflight' \subseteq inflight \cup {c.task} BY <1>8 DEF Return, Insert, Without
  <2>2. /\ c.open /\ calls' = calls \ {c}
        /\ UNCHANGED <<pending, drained, noWorker, timedOut, current>>
    BY <1>8 DEF Return
  <2> DEFINE t == c.task
  <2>3. \A d \in calls' : d.open => d \in calls /\ d.task # t BY <1>5, <2>2
  <2> HIDE DEF t
  <2>4. \A z, v : Holds(z, v)' => (Holds(z, v) /\ <<z, v>> # <<"call", t>>) \/ (z = "inflight" /\ v = t)
    BY <2>1, <2>2, <2>3 DEF Holds, t
  <2>5. Holds("call", t) /\ t \in Task /\ t.retries \in Nat /\ t.retries <= MAX_RETRIES
    BY <1>1, <1>4, <1>6, <2>2 DEF t
  <2>6. /\ t.frame_id \in Frame => minted'[t.frame_id] + t.retries <= minted[t.frame_id] + t.retries
        /\ \A f \in Frame : f # t.frame_id => minted'[f] = minted[f]
    BY <1>2, <1>7, <2>5
  <2> QED BY <1>2, <2>4, <2>5, <2>6, MoveStep
<1>9. CASE Fail(c)
  <2>1. ~[c EXCEPT !.open = FALSE].open BY <1>1 DEF Call
  <2> DEFINE t == c.task
             u == Buffered(t)
  <2>2. /\ c.open /\ pending' \subseteq pending \cup {u}
        /\ UNCHANGED <<inflight, drained, noWorker, timedOut, current>>
    BY <1>9 DEF Fail
  <2>3. \A d \in calls' : d.open => d \in calls /\ d.task # t
    BY <1>5, <1>9, <2>1, <2>2 DEF Fail
  <2>4. /\ u \in Task /\ u.frame_id = t.frame_id /\ u.retries = t.retries
    BY <1>1, BufferTyped, SameFrame, SameRetries
  <2>5. Holds("call", t) /\ t.retries \in Nat /\ t.retries <= MAX_RETRIES /\ t.frame_id \in Frame
    BY <1>1, <1>4, <1>6, <1>7, <2>2
  <2> HIDE DEF t, u
  <2>6. \A z, v : Holds(z, v)' => (Holds(z, v) /\ <<z, v>> # <<"call", t>>) \/ (z = "pending" /\ v = u)
    BY <2>2, <2>3 DEF Holds
  <2>7. /\ t.frame_id \in Frame => minted'[t.frame_id] + t.retries <= minted[t.frame_id] + u.retries
        /\ \A f \in Frame : f # t.frame_id => minted'[f] = minted[f]
    BY <1>2, <1>7, <2>4, <2>5
  <2> QED BY <1>2, <2>4, <2>5, <2>6, <2>7, MoveStep
<1> QED BY <1>2, <1>3, <1>8, <1>9 DEF CallStep

\* The watchdog takes the buffer over.
LEMMA DrainCopiesKept ==
  ASSUME TypeOK, TypeOK', RetriesBounded, RetriesBounded', WatchdogPhases, Drain
  PROVE  CopyStep
<1>1. /\ pending' = {} /\ drained' = pending /\ drained = {} /\ noWorker = {}
      /\ UNCHANGED <<minted, calls, inflight, noWorker, timedOut, current>>
  BY DEF Drain, WatchdogPhases
<1> SUFFICES ASSUME NEW f \in Frame, NEW b \in Nat, Bounded(Copies(f), minted[f], b)
             PROVE  Bounded(Copies(f)', minted'[f], b)
  BY DEF CopyStep
<1> DEFINE R(p) == IF p[1] = "drained" THEN <<"pending", p[2]>> ELSE p
           r == [p \in Copies(f)' |-> R(p)]
<1>2. ASSUME NEW p \in Copies(f)'
      PROVE  R(p) \in Copies(f) /\ p = <<p[1], p[2]>> /\ p[1] # "pending" /\ R(p)[2] = p[2]
  <2>1. p = <<p[1], p[2]>> /\ Holds(p[1], p[2])' /\ p[2].frame_id = f BY CopyHeldNext
  <2>2. p[1] # "pending" BY <1>1, <2>1 DEF Holds
  <2>3. CASE p[1] = "drained"
    <3>1. Holds("pending", p[2]) BY <1>1, <2>1, <2>3 DEF Holds
    <3> QED BY <2>1, <2>2, <2>3, <3>1, CopyHeld
  <2>4. CASE p[1] # "drained"
    <3>1. Holds(p[1], p[2]) BY <1>1, <2>1, <2>4 DEF Holds
    <3> QED BY <2>1, <2>2, <2>4, <3>1, CopyHeld
  <2> QED BY <2>3, <2>4
<1>3. ASSUME NEW p \in Copies(f)', NEW q \in Copies(f)', R(p) = R(q) PROVE p = q
  <2>1. /\ p = <<p[1], p[2]>> /\ p[1] # "pending" /\ R(p)[2] = p[2]
        /\ q = <<q[1], q[2]>> /\ q[1] # "pending" /\ R(q)[2] = q[2]
    BY <1>2
  <2>2. p[1] = q[1]
    <3>1. \A o \in {p, q} : R(o)[1] = IF o[1] = "drained" THEN "pending" ELSE o[1] OBVIOUS
    <3> QED BY <1>3, <2>1, <3>1
  <2> QED BY <1>3, <2>1, <2>2
<1>4. /\ r \in [Copies(f)' -> Copies(f)]
      /\ \A p \in Copies(f)' : r[p] = R(p)
      /\ \A p \in Copies(f)' : r[p][2] = p[2]
  BY <1>2
<1>5. \A p, q \in Copies(f)' : r[p] = r[q] => p = q BY <1>3, <1>4
<1>6. Copies(f)' \subseteq Holding BY CopyHoldingNext
<1>7. minted'[f] = minted[f] /\ minted[f] \in Nat BY <1>1 DEF TypeOK
<1>8. \A p \in Copies(f)' : p[2].retries = r[p][2].retries BY <1>4
<1> HIDE DEF r, R, Copies
<1> QED BY <1>4, <1>5, <1>6, <1>7, <1>8, BoundedRenamed

\* It puts back what no worker could take.
LEMMA RebufferCopiesKept ==
  ASSUME TypeOK, TypeOK', RetriesBounded, RetriesBounded', Rebuffer
  PROVE  CopyStep
<1>1. /\ pending' = pending \cup noWorker /\ drained = {} /\ drained' = {} /\ noWorker' = {}
      /\ UNCHANGED <<minted, calls, inflight, timedOut, current>>
  BY DEF Rebuffer
<1> SUFFICES ASSUME NEW f \in Frame, NEW b \in Nat, Bounded(Copies(f), minted[f], b)
             PROVE  Bounded(Copies(f)', minted'[f], b)
  BY DEF CopyStep
<1> DEFINE R(p) == IF p[1] = "pending" /\ p[2] \in noWorker THEN <<"drained", p[2]>> ELSE p
           r == [p \in Copies(f)' |-> R(p)]
<1>2. ASSUME NEW p \in Copies(f)'
      PROVE  R(p) \in Copies(f) /\ p = <<p[1], p[2]>> /\ p[1] # "drained" /\ R(p)[2] = p[2]
  <2>1. p = <<p[1], p[2]>> /\ Holds(p[1], p[2])' /\ p[2].frame_id = f BY CopyHeldNext
  <2>2. p[1] # "drained" BY <1>1, <2>1 DEF Holds
  <2>3. CASE p[1] = "pending" /\ p[2] \in noWorker
    <3>1. Holds("drained", p[2]) BY <2>3 DEF Holds
    <3> QED BY <2>1, <2>2, <2>3, <3>1, CopyHeld
  <2>4. CASE ~(p[1] = "pending" /\ p[2] \in noWorker)
    <3>1. Holds(p[1], p[2]) BY <1>1, <2>1, <2>4 DEF Holds
    <3> QED BY <2>1, <2>2, <2>4, <3>1, CopyHeld
  <2> QED BY <2>3, <2>4
<1>3. ASSUME NEW p \in Copies(f)', NEW q \in Copies(f)', R(p) = R(q) PROVE p = q
  <2>1. /\ p = <<p[1], p[2]>> /\ p[1] # "drained" /\ R(p)[2] = p[2]
        /\ q = <<q[1], q[2]>> /\ q[1] # "drained" /\ R(q)[2] = q[2]
    BY <1>2
  <2>2. p[1] = q[1]
    <3>1. \A o \in {p, q} :
            R(o)[1] = IF o[1] = "pending" /\ o[2] \in noWorker THEN "drained" ELSE o[1]
      OBVIOUS
    <3> QED BY <1>3, <2>1, <3>1
  <2> QED BY <1>3, <2>1, <2>2
<1>4. /\ r \in [Copies(f)' -> Copies(f)]
      /\ \A p \in Copies(f)' : r[p] = R(p)
      /\ \A p \in Copies(f)' : r[p][2] = p[2]
  BY <1>2
<1>5. \A p, q \in Copies(f)' : r[p] = r[q] => p = q BY <1>3, <1>4
<1>6. Copies(f)' \subseteq Holding BY CopyHoldingNext
<1>7. minted'[f] = minted[f] /\ minted[f] \in Nat BY <1>1 DEF TypeOK
<1>8. \A p \in Copies(f)' : p[2].retries = r[p][2].retries BY <1>4
<1> HIDE DEF r, R, Copies
<1> QED BY <1>4, <1>5, <1>6, <1>7, <1>8, BoundedRenamed

LEMMA WatchdogCopies ==
  ASSUME TypeOK, TypeOK', RetriesBounded, RetriesBounded', WatchdogPhases, Apart, Watchdog
  PROVE  CopyStep
<1> USE DEF vars, queueVars, watchdogVars, envVars, outcomeVars
<1>1. CASE Drain BY <1>1, DrainCopiesKept
<1>2. CASE Rebuffer BY <1>2, RebufferCopiesKept
<1>3. CASE Scan
  <2>1. overdue \subseteq inflight BY DEF TypeOK
  <2>2. UNCHANGED minted /\ \A x, t : Holds(x, t)' => Holds(x, t)
    BY <1>3, <2>1 DEF Scan, Snapshot, Holds
  <2> QED BY <2>2, ShrinkStep
<1>4. CASE EndRound
  <2>1. UNCHANGED minted /\ \A x, t : Holds(x, t)' => Holds(x, t) BY <1>4 DEF EndRound, Holds
  <2> QED BY <2>1, ShrinkStep
<1>5. \A t : t \in Held => t \in Task /\ t.retries \in Nat /\ t.retries <= MAX_RETRIES
                            /\ t.frame_id \in Frame
  BY DispatchedIsTask DEF Held, TypeOK, Call, RetriesBounded, Task, TaskOf
<1>6. minted \in [Frame -> Nat] BY DEF TypeOK
<1>7. ASSUME NEW t \in drained, Assign(t) PROVE CopyStep
  <2>1. /\ UNCHANGED <<minted, pending, inflight, timedOut, current>> /\ drained' = drained \ {t}
    BY <1>7 DEF Assign
  <2>2. t \in Task /\ t.retries \in Nat /\ t.retries <= MAX_RETRIES /\ t.frame_id \in Frame
    BY <1>5 DEF Held
  <2>3. CASE noWorker' = noWorker \cup {t} /\ UNCHANGED calls
    <3>1. \A x, v : Holds(x, v)' => Holds(x, v) BY <2>1, <2>3 DEF Holds
    <3> QED BY <2>1, <3>1, ShrinkStep
  <2>4. ASSUME NEW w \in LeastLoaded(workers), UNCHANGED noWorker,
               calls' = calls \cup {NewCall([t EXCEPT !.assigned_worker = w], "drain")}
        PROVE  CopyStep
    <3> DEFINE u == [t EXCEPT !.assigned_worker = w]
               c == NewCall(u, "drain")
    <3>1. u.frame_id = t.frame_id /\ u.retries = t.retries /\ u \in Task
      BY <2>2, LeastLoadedIsWorker, SameFrame, SameRetries, AssignTyped, DispatchedIsTask
    <3>2. c.open /\ c.task = u /\ calls' = calls \cup {c} BY <2>4, NewCallHolds
    <3> HIDE DEF u, c
    <3>3. t \notin noWorker BY DEF Apart, Sorted
    <3>4. \A z, v : Holds(z, v)' => (Holds(z, v) /\ <<z, v>> # <<"drained", t>>) \/ (z = "call" /\ v = u)
      BY <2>1, <2>4, <3>2, <3>3 DEF Holds
    <3>5. Holds("drained", t) BY DEF Holds
    <3>6. /\ t.frame_id \in Frame => minted'[t.frame_id] + t.retries <= minted[t.frame_id] + u.retries
          /\ \A f \in Frame : f # t.frame_id => minted'[f] = minted[f]
      BY <1>6, <2>1, <2>2, <3>1
    <3>7. u.retries <= MAX_RETRIES BY <2>2, <3>1
    <3> QED BY <3>1, <3>4, <3>5, <3>6, <3>7, MoveStep
  <2> QED BY <1>7, <2>3, <2>4 DEF Assign
<1>8. ASSUME NEW t \in timedOut, TimeOut(t) PROVE CopyStep
  <2>1. /\ UNCHANGED <<minted, pending, calls, drained, noWorker>> /\ current' = {t}
        /\ timedOut' = timedOut \ {t} /\ inflight' \subseteq inflight \ {t}
    BY <1>8 DEF TimeOut, Without
  <2>2. t \in Task /\ t.retries \in Nat /\ t.retries <= MAX_RETRIES /\ t.frame_id \in Frame
    BY <1>5 DEF Held
  <2>3. \A z, v : Holds(z, v)' => (Holds(z, v) /\ <<z, v>> # <<"inflight", t>>) \/ (z = "current" /\ v = t)
    BY <2>1 DEF Holds
  <2>4. Holds("inflight", t) BY DEF Holds
  <2>5. /\ t.frame_id \in Frame => minted'[t.frame_id] + t.retries <= minted[t.frame_id] + t.retries
        /\ \A f \in Frame : f # t.frame_id => minted'[f] = minted[f]
    BY <1>6, <2>1, <2>2
  <2> QED BY <2>2, <2>3, <2>4, <2>5, MoveStep
<1>9. ASSUME NEW t \in current, Drop(t) \/ BufferRetry(t) \/ Retry(t) PROVE CopyStep
  <2>1. t \in Task /\ t.retries \in Nat /\ t.retries <= MAX_RETRIES /\ t.frame_id \in Frame
    BY <1>5 DEF Held
  <2>2. current = {t} BY DEF WatchdogPhases
  <2>3. Holds("current", t) BY DEF Holds
  <2>4. ~Spent(t) => t.retries + 1 <= MAX_RETRIES BY <2>1, FrameQueueAssumption DEF Spent
  <2>5. CASE Drop(t)
    <3>1. UNCHANGED minted /\ \A x, v : Holds(x, v)' => Holds(x, v) BY <2>5 DEF Drop, Holds
    <3> QED BY <3>1, ShrinkStep
  <2>6. CASE BufferRetry(t)
    <3> DEFINE u == BufferedRetry(t)
    <3>1. u \in Task /\ u.frame_id = t.frame_id /\ u.retries = t.retries + 1
      BY <2>1, BufferTyped, SameFrame, SameRetries
    <3>2. /\ UNCHANGED <<minted, calls, inflight, timedOut, drained, noWorker>> /\ current' = {}
          /\ pending' = pending \cup {u} /\ ~Spent(t)
      BY <2>6 DEF BufferRetry
    <3> HIDE DEF u
    <3>3. \A z, v : Holds(z, v)' => (Holds(z, v) /\ <<z, v>> # <<"current", t>>) \/ (z = "pending" /\ v = u)
      BY <3>2 DEF Holds
    <3>4. /\ t.frame_id \in Frame => minted'[t.frame_id] + t.retries <= minted[t.frame_id] + u.retries
          /\ \A f \in Frame : f # t.frame_id => minted'[f] = minted[f]
      BY <1>6, <2>1, <3>1, <3>2
    <3>5. u.retries <= MAX_RETRIES BY <2>4, <3>1, <3>2
    <3> QED BY <2>3, <3>1, <3>3, <3>4, <3>5, MoveStep
  <2>7. CASE Retry(t)
    <3>1. PICK w \in LeastLoaded(workers) : calls' = calls \cup {NewCall(RetryOf(t, w), "retry")}
      BY <2>7 DEF Retry
    <3> DEFINE u == RetryOf(t, w)
               c == NewCall(u, "retry")
    <3>2. u \in Task /\ u.frame_id = t.frame_id /\ u.retries = t.retries + 1
      BY <1>6, <2>1, LeastLoadedIsWorker, RetryTyped, DispatchedIsTask
    <3>3. c.open /\ c.task = u /\ calls' = calls \cup {c} BY <3>1, NewCallHolds
    <3>4. /\ UNCHANGED <<pending, inflight, timedOut, drained, noWorker>> /\ current' = {}
          /\ minted' = [minted EXCEPT ![t.frame_id] = @ + 1] /\ ~Spent(t)
      BY <2>7 DEF Retry
    <3> HIDE DEF u, c
    <3>5. \A z, v : Holds(z, v)' => (Holds(z, v) /\ <<z, v>> # <<"current", t>>) \/ (z = "call" /\ v = u)
      BY <3>3, <3>4 DEF Holds
    <3>6. /\ t.frame_id \in Frame => minted'[t.frame_id] + t.retries <= minted[t.frame_id] + u.retries
          /\ \A f \in Frame : f # t.frame_id => minted'[f] = minted[f]
      BY <1>6, <2>1, <3>2, <3>4
    <3>7. u.retries <= MAX_RETRIES BY <2>4, <3>2, <3>4
    <3> QED BY <2>3, <3>2, <3>5, <3>6, <3>7, MoveStep
  <2> QED BY <1>9, <2>5, <2>6, <2>7
<1> QED BY <1>1, <1>2, <1>3, <1>4, <1>7, <1>8, <1>9 DEF Watchdog

\* A callback takes inflight copies back: each leaves at most a new one behind, and the
\* watchdog may still hold the old.
LEMMA CancelCopies ==
  ASSUME TypeOK, TypeOK', RetriesBounded, RetriesBounded', NEW w \in Worker, CancelInflight(w)
  PROVE  \A f \in Frame, b \in Nat :
           Bounded(Copies(f), minted[f], b) => Bounded(Copies(f)', minted'[f], b + b)
<1> SUFFICES ASSUME NEW f \in Frame, NEW b \in Nat, Bounded(Copies(f), minted[f], b)
             PROVE  Bounded(Copies(f)', minted'[f], b + b)
  OBVIOUS
<1> DEFINE cancelled == {t \in inflight : t.assigned_worker = w}
           Back(t) == [Buffered(t) EXCEPT !.retries = 0]
           N == {p \in Copies(f)' : p \notin Copies(f)}
           R(p) == CHOOSE t \in cancelled : p[2] = Back(t)
           r == [p \in N |-> <<"inflight", R(p)>>]
<1>1. /\ UNCHANGED <<minted, calls, drained, noWorker, timedOut, current>>
      /\ inflight' \subseteq inflight
      /\ pending' = pending \cup {Back(t) : t \in cancelled}
  BY DEF CancelInflight, TakenBack, watchdogVars
<1>2. \A t \in cancelled : Back(t).retries = 0 /\ Back(t).frame_id = t.frame_id
  BY DispatchedIsTask, SameFrame, SameRetries DEF TypeOK
<1>3. ASSUME NEW p \in N
      PROVE  /\ p = <<"pending", p[2]>> /\ p[2] = Back(R(p)) /\ p[2].retries = 0
             /\ <<"inflight", R(p)>> \in Copies(f)
  <2>1. p = <<p[1], p[2]>> /\ Holds(p[1], p[2])' /\ p[2].frame_id = f BY CopyHeldNext
  <2>2. ~Holds(p[1], p[2]) BY <2>1, CopyHeld
  <2>3. p[1] = "pending" /\ p[2] \in {Back(t) : t \in cancelled}
    <3> HIDE DEF Back, cancelled
    <3> QED BY <1>1, <2>1, <2>2 DEF Holds
  <2>4. R(p) \in cancelled /\ p[2] = Back(R(p))
    <3>1. \E t \in cancelled : p[2] = Back(t) BY <2>3
    <3> HIDE DEF Back, cancelled
    <3> QED BY <3>1
  <2> HIDE DEF R
  <2>5. Holds("inflight", R(p)) BY <2>4 DEF Holds
  <2>6. R(p).frame_id = f /\ p[2].retries = 0
    <3> HIDE DEF Back, cancelled
    <3> QED BY <1>2, <2>1, <2>4
  <2>7. <<"inflight", R(p)>> \in Copies(f) BY <2>5, <2>6, CopyHeld
  <2> QED BY <2>1, <2>3, <2>4, <2>6, <2>7
<1> HIDE DEF R
<1>4. r \in [N -> Copies(f)] /\ \A p \in N : r[p] = <<"inflight", R(p)>> BY <1>3
<1>5. ASSUME NEW p \in N, NEW q \in N, r[p] = r[q] PROVE p = q
  <2>1. R(p) = R(q) BY <1>4, <1>5
  <2>2. p[2] = q[2]
    <3>1. p[2] = Back(R(p)) /\ q[2] = Back(R(q)) BY <1>3
    <3> HIDE DEF N, r, Back
    <3> QED BY <2>1, <3>1
  <2> HIDE DEF N
  <2> QED BY <1>3, <2>2
<1>6. Copies(f)' \subseteq Holding BY CopyHoldingNext
<1>7. N \subseteq Holding /\ Copies(f)' \subseteq Copies(f) \cup N BY <1>6
<1>8. minted'[f] = minted[f] /\ minted[f] \in Nat BY <1>1 DEF TypeOK
<1>9. \A p \in N : p[2].retries = 0 BY <1>3
<1> HIDE DEF r, N, Copies
<1> QED BY <1>4, <1>5, <1>7, <1>8, <1>9, BoundedDoubled

\* A frame that enters has no copy yet.
LEMMA EnqueueCopies ==
  ASSUME PoolInv, TypeOK', RetriesBounded, RetriesBounded', NEW g \in Frame, Enqueue(g), minted[g] = 0
  PROVE  \A f \in Frame, b \in Nat :
           1 <= b /\ Bounded(Copies(f), minted[f], b) => Bounded(Copies(f)', minted'[f], b)
<1> SUFFICES ASSUME NEW f \in Frame, NEW b \in Nat, 1 <= b, Bounded(Copies(f), minted[f], b)
             PROVE  Bounded(Copies(f)', minted'[f], b)
  OBVIOUS
<1>1. UNCHANGED <<pending, inflight, drained, noWorker, timedOut, current>> /\ g \notin submitted
  BY DEF Enqueue, queueVars, watchdogVars
<1>2. TypeOK /\ minted \in [Frame -> Nat] BY DEF PoolInv, LossInv, TypeOK
<1>3. CASE UNCHANGED <<minted, calls>>
  <2>1. \A x, t : Holds(x, t)' => Holds(x, t) BY <1>1, <1>3 DEF Holds
  <2> QED BY <1>2, <1>3, <2>1, ShrinkStep DEF CopyStep
<1>4. ASSUME NEW w \in LeastLoaded(workers), minted' = [minted EXCEPT ![g] = @ + 1],
             calls' = calls \cup
               {NewCall([frame_id |-> g, seq |-> minted[g],
                         assigned_worker |-> w, retries |-> 0], "enqueue")}
      PROVE  Bounded(Copies(f)', minted'[f], b)
  <2> DEFINE t == [frame_id |-> g, seq |-> minted[g], assigned_worker |-> w, retries |-> 0]
             c == NewCall(t, "enqueue")
  <2>1. c.open /\ c.task = t /\ t.frame_id = g BY DEF NewCall
  <2>2. calls' = calls \cup {c} BY <1>4
  <2> HIDE DEF t, c
  <2>3. \A x, v : Holds(x, v)' => Holds(x, v) \/ (x = "call" /\ v = t)
    BY <1>1, <2>1, <2>2 DEF Holds
  <2>4. CASE f # g
    <3>1. Copies(f)' \subseteq Copies(f)
      <4> SUFFICES ASSUME NEW o \in Copies(f)' PROVE o \in Copies(f) OBVIOUS
      <4>1. o = <<o[1], o[2]>> /\ Holds(o[1], o[2])' /\ o[2].frame_id = f BY CopyHeldNext
      <4>2. Holds(o[1], o[2]) BY <2>1, <2>3, <2>4, <4>1
      <4> QED BY <4>1, <4>2, CopyHeld
    <3>2. minted'[f] = minted[f] /\ minted[f] \in Nat BY <1>2, <1>4, <2>4
    <3> HIDE DEF Copies
    <3> QED BY <3>1, <3>2, BoundedLess
  <2>5. CASE f = g
    <3> DEFINE p == <<"call", t>>
    <3>1. Copies(f)' \subseteq {p}
      <4> SUFFICES ASSUME NEW o \in Copies(f)' PROVE o = p OBVIOUS
      <4>1. o = <<o[1], o[2]>> /\ Holds(o[1], o[2])' /\ o[2].frame_id = f BY CopyHeldNext
      <4>2. CASE Holds(o[1], o[2])
        <5>1. o[2] \in Held BY <4>2 DEF Holds, Held
        <5> QED BY <1>1, <2>5, <4>1, <5>1 DEF PoolInv, Known, HeldFrames
      <4>3. CASE o[1] = "call" /\ o[2] = t BY <4>1, <4>3
      <4> QED BY <2>3, <4>1, <4>2, <4>3
    <3>2. p \in Holding
      <4>1. t \in Task /\ t.retries = 0
        BY <1>2, LeastLoadedIsWorker DEF t, Task, TaskOf
      <4> QED BY <4>1, FrameQueueAssumption DEF Holding
    <3>3. minted'[f] = 1 BY <1>2, <1>4, <2>5
    <3> HIDE DEF p, Copies
    <3> QED BY <3>1, <3>2, <3>3, BoundedFirst
  <2> QED BY <2>4, <2>5
<1> QED BY <1>3, <1>4 DEF Enqueue

\* The inductive invariant behind CopiesBounded and AttemptsBounded: the copies of a frame
\* at most double with every callback that has run, and the ids it has, with those its
\* copies may still get, stay within the bound for that many.
CopyInv ==
  /\ PoolInv /\ RetriesBounded /\ CallbackInv /\ Apart
  /\ \A f \in Frame : Bounded(Copies(f), minted[f], 2 ^ Doublings)
  /\ \A f \in Frame \ submitted : minted[f] = 0

LEMMA CopyInductive == CopyInv /\ [Next]_vars => CopyInv'
<1> SUFFICES ASSUME CopyInv, [Next]_vars PROVE CopyInv'
  OBVIOUS
<1> USE DEF CopyInv
<1>1. TypeOK /\ WatchdogPhases BY DEF PoolInv, LossInv
<1>2. PoolInv' /\ RetriesBounded' /\ Apart' BY <1>1, PoolInductive, StepBudget, ApartStep
<1>3. TypeOK' BY <1>2 DEF PoolInv, LossInv
<1>4. /\ CallbackInv'
      /\ Doublings \in Nat /\ Doublings' \in Nat /\ Doublings <= Doublings'
      /\ \A w \in Worker : CancelInflight(w) => Doublings' = Doublings + 1
  BY <1>1, CallbackStep
<1> DEFINE b == 2 ^ Doublings
           d == 2 ^ Doublings'
<1>5. b \in Nat /\ d \in Nat /\ b <= d /\ 1 <= b
  <2>1. 2 ^ Doublings \in Nat /\ 2 ^ Doublings' \in Nat BY <1>4, PowerType
  <2>2. 2 ^ Doublings <= 2 ^ Doublings' BY <1>4, PowerGrows
  <2>3. 1 <= 2 ^ Doublings BY <1>4, PowerGrows
  <2> QED BY <2>1, <2>2, <2>3
<1>6. \A f \in Frame : Bounded(Copies(f), minted[f], b) /\ minted[f] \in Nat BY <1>1 DEF TypeOK
<1>7. ASSUME \A f \in Frame, k \in Nat :
               1 <= k /\ Bounded(Copies(f), minted[f], k) => Bounded(Copies(f)', minted'[f], k)
      PROVE  \A f \in Frame : Bounded(Copies(f)', minted'[f], d)
  <2> SUFFICES ASSUME NEW f \in Frame PROVE Bounded(Copies(f)', minted'[f], d) OBVIOUS
  <2> HIDE DEF b, d, Copies
  <2>1. Bounded(Copies(f)', minted'[f], b) BY <1>5, <1>6, <1>7
  <2>2. minted'[f] \in Nat BY <1>3 DEF TypeOK
  <2> QED BY <1>5, <2>1, <2>2, BoundedMore
<1>8. CopyStep => \A f \in Frame : Bounded(Copies(f)', minted'[f], d)
  <2> HIDE DEF d, Copies
  <2> QED BY <1>7 DEF CopyStep
<1>9. \A f \in Frame : Bounded(Copies(f)', minted'[f], d)
  <2>1. ASSUME NEW f \in Frame, Enqueue(f) PROVE \A g \in Frame : Bounded(Copies(g)', minted'[g], d)
    <3>1. minted[f] = 0 BY <2>1 DEF Enqueue
    <3>2. \A g \in Frame, k \in Nat :
            1 <= k /\ Bounded(Copies(g), minted[g], k) => Bounded(Copies(g)', minted'[g], k)
      BY <1>2, <1>3, <2>1, <3>1, EnqueueCopies
    <3> HIDE DEF d, Copies
    <3> QED BY <1>7, <3>2
  <2>2. ASSUME NEW c \in calls, CallStep(c) PROVE CopyStep BY <1>1, <1>3, <2>2, CallStepCopies
  <2>3. ASSUME Watchdog PROVE CopyStep BY <1>1, <1>2, <1>3, <2>3, WatchdogCopies
  <2>4. ASSUME NEW w \in Worker, CancelInflight(w)
        PROVE  \A g \in Frame : Bounded(Copies(g)', minted'[g], d)
    <3>1. d = b + b BY <1>4, <2>4, PowerDoubles
    <3>2. \A f \in Frame, k \in Nat :
            Bounded(Copies(f), minted[f], k) => Bounded(Copies(f)', minted'[f], k + k)
      BY <1>1, <1>2, <1>3, <2>4, CancelCopies
    <3> HIDE DEF d, b, Copies
    <3> QED BY <1>5, <1>6, <3>1, <3>2
  <2>5. ASSUME UNCHANGED <<minted, pending, inflight, calls, watchdogVars>> PROVE CopyStep
    <3>1. \A x, t : Holds(x, t)' => Holds(x, t) BY <2>5 DEF Holds, watchdogVars
    <3> QED BY <1>1, <2>5, <3>1, ShrinkStep
  <2>6. CASE UNCHANGED vars
    <3>1. UNCHANGED <<minted, pending, inflight, calls, watchdogVars>> BY <2>6 DEF vars, queueVars
    <3> QED BY <1>8, <2>5, <3>1
  <2>7. CASE Environment
    <3>1. \/ \E w \in Worker : CancelInflight(w)
          \/ UNCHANGED <<minted, pending, inflight, calls, watchdogVars>>
      BY <2>7 DEF Environment, Register, Remove, Heartbeat, GoSilent, EvictionTick, Expire,
                  queueVars
    <3> HIDE DEF d, Copies
    <3> QED BY <1>8, <2>4, <2>5, <3>1
  <2> HIDE DEF d, Copies
  <2> QED BY <1>8, <2>1, <2>2, <2>3, <2>6, <2>7 DEF Next
<1>10. \A f \in Frame \ submitted' : minted'[f] = 0
  <2>1. \A f \in Frame : Enqueue(f) =>
          /\ submitted' = submitted \cup {f}
          /\ minted' = minted \/ minted' = [minted EXCEPT ![f] = @ + 1]
    BY DEF Enqueue
  <2>2. ASSUME NEW t \in current, Retry(t) PROVE \A f \in Frame \ submitted' : minted'[f] = minted[f]
    <3>1. t.frame_id \in submitted BY DEF PoolInv, Known, HeldFrames, Held
    <3> QED BY <1>1, <2>2, <3>1 DEF Retry, TypeOK
  <2>3. \/ UNCHANGED <<submitted, minted>>
        \/ \E f \in Frame : Enqueue(f)
        \/ \E t \in current : Retry(t)
    BY DEF Next, vars, CallStep, CountCall, StoreResult, LoseResult, Acknowledge, LoseAck, Return,
           Fail, Watchdog, Drain, Rebuffer, Scan, EndRound, Assign, TimeOut, Drop, BufferRetry,
           Environment, Register, CancelInflight, Remove, Heartbeat, GoSilent, EvictionTick, Expire
  <2>4. \A t \in current : Retry(t) => submitted' = submitted BY DEF Retry
  <2>5. minted \in [Frame -> Nat] BY <1>1 DEF TypeOK
  <2> QED BY <2>1, <2>2, <2>3, <2>4, <2>5
<1> QED BY <1>2, <1>4, <1>9, <1>10

LEMMA CopyInit == Init => CopyInv
<1> SUFFICES ASSUME Init PROVE CopyInv
  OBVIOUS
<1>1. TypeOK /\ RetriesBounded BY InitTyped DEF Init, RetriesBounded, Held
<1>2. PoolInv /\ CallbackInv /\ Apart BY InitMapped, CallbackInit, ApartInit
<1>3. ASSUME NEW f \in Frame PROVE Bounded(Copies(f), minted[f], 2 ^ Doublings) /\ minted[f] = 0
  <2>1. minted[f] = 0 BY DEF Init
  <2>2. Copies(f) = {}
    <3>1. \A x, t : ~Holds(x, t) BY DEF Init, Holds
    <3> QED BY <3>1, CopyHeld
  <2>3. IsFiniteSet({}) /\ Cardinality({}) = 0 /\ SumFunctionOnSet(Left, {}) = 0
    BY FS_EmptySet, SumEmpty
  <2>4. 2 ^ Doublings \in Nat BY <1>1, <1>2, AbsorbedFinite, PowerType
  <2>5. Most(2 ^ Doublings) \in Nat BY <2>4, MostTyped
  <2> HIDE DEF Copies
  <2> QED BY <2>1, <2>2, <2>3, <2>4, <2>5 DEF Bounded
<1> QED BY <1>1, <1>2, <1>3 DEF CopyInv

\* What the invariant says in terms of the re-registrations.
LEMMA CopyImplies == CopyInv => CopiesBounded /\ AttemptsBounded
<1> SUFFICES ASSUME CopyInv, NEW f \in Frame
             PROVE  /\ Cardinality(Copies(f)) <= 2 ^ Reregistrations
                    /\ minted[f] <= 1 + MAX_RETRIES * 2 ^ Reregistrations
  BY DEF CopiesBounded, AttemptsBounded
<1> USE DEF CopyInv
<1>1. TypeOK BY DEF PoolInv, LossInv
<1>2. Doublings \in Nat /\ Doublings <= Reregistrations BY <1>1, AbsorbedFinite
<1>3. Reregistrations \in Nat
  <2>1. Reregistrations = Cardinality(Rereg) BY DEF Reregistrations, Rereg
  <2> QED BY <2>1, FS_CardinalityType DEF CallbackInv
<1> DEFINE b == 2 ^ Doublings
           d == 2 ^ Reregistrations
<1>4. b \in Nat /\ d \in Nat /\ b <= d BY <1>2, <1>3, PowerType, PowerGrows
<1>5. Bounded(Copies(f), minted[f], b) /\ minted[f] \in Nat BY <1>1 DEF TypeOK
<1> HIDE DEF b, d, Copies
<1>6. Bounded(Copies(f), minted[f], d) BY <1>4, <1>5, BoundedMore
<1>7. /\ Cardinality(Copies(f)) <= d
      /\ minted[f] + SumFunctionOnSet(Left, Copies(f)) <= Most(d)
  BY <1>6 DEF Bounded
<1>8. SumFunctionOnSet(Left, Copies(f)) \in Nat
  <2>1. \A p \in Copies(f) : Left[p] \in Nat BY <1>6, LeftTyped DEF Bounded
  <2>2. \A p \in Copies(f) : Left[p] \in Int BY <2>1
  <2> QED BY <1>6, <2>1, <2>2, SumType DEF Bounded
<1>9. Most(d) \in Nat BY <1>4, MostTyped
<1>10. minted[f] <= Most(d) BY <1>5, <1>7, <1>8, <1>9
<1> QED BY <1>7, <1>10 DEF Most, d

\* One frame is worked on in at most 2^n places, n being the re-registrations so far: of all
\* the hand-overs between buffer, inflight table, calls and watchdog only the callback of
\* a re-registration copies (frame_queue.py:127-138).
THEOREM CopiesLimited == Spec => []CopiesBounded
<1>1. CopyInv => CopiesBounded BY CopyImplies
<1> QED BY <1>1, CopyInit, CopyInductive, PTL DEF Spec

\* A frame gets at most 1 + MAX_RETRIES * 2^n task ids: every id after the first spends a
\* retry of one of its copies (frame_queue.py:267-288).
THEOREM AttemptsLimited == Spec => []AttemptsBounded
<1>1. CopyInv => AttemptsBounded BY CopyImplies
<1> QED BY <1>1, CopyInit, CopyInductive, PTL DEF Spec

================================================================================
