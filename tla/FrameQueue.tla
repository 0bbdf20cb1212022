------------------------------ MODULE FrameQueue ------------------------------
(***************************************************************************)
(* The coordinator's distributed task queue: caller threads that enqueue   *)
(* frames, the dispatch calls they and the watchdog make to workers, the   *)
(* workers that execute a frame and post its result and acknowledgement,   *)
(* the watchdog that drains the buffer and retries what timed out, and the *)
(* registry events (register, heartbeat, removal, eviction) that run       *)
(* beside them.                                                            *)
(*                                                                         *)
(* A task's id (a fresh uuid) is the pair of its frame and the number of   *)
(* ids minted for that frame before it.  The buffer is a set: the watchdog *)
(* takes all of it at once and handles every task it took, so the order of *)
(* tasks only decides ties.                                                *)
(***************************************************************************)
EXTENDS WorkerManager, FiniteSets

CONSTANTS
  Frame,             \* frames that may be submitted, each once
  Local,             \* the worker id "coordinator-local"
  NoWorker,          \* the empty assigned_worker
  MAX_RETRIES,
  MAX_PENDING,
  MaxRegistrations,  \* bound: registrations of one worker
  MaxStragglers      \* bound: executions that outlive their dispatch call

ASSUME FrameQueueAssumption ==
  /\ Local \in Capable
  /\ NoWorker \notin Worker
  /\ MAX_RETRIES \in Nat
  /\ MAX_PENDING \in Nat
  /\ MaxRegistrations \in Nat
  /\ MaxStragglers \in Nat

VARIABLES
  workers,        \* the registry
  submitted,      \* frames some caller has passed to enqueue
  minted,         \* task ids minted for a frame so far
  pending,        \* _pending: tasks waiting for a dispatch
  inflight,       \* _inflight: dispatched tasks awaiting an acknowledgement
  overdue,        \* the inflight tasks dispatched more than TASK_TIMEOUT_SECS ago
  calls,          \* dispatch calls and the executions they started
  wpc,            \* where the watchdog is in its loop
  drained,        \* its local lists: tasks taken from the buffer,
  noWorker,       \*   those of them no worker could take,
  timedOut,       \*   overdue tasks still to handle,
  current,        \*   and the one being handled, if any
  cancelling,     \* re-registration callbacks that have not run yet
  registrations,  \* how often a worker registered
  delivered,      \* frames with a stored result
  dropped,        \* frames the queue counted in dropped_count
  refused         \* frames whose enqueue returned None at once

queueVars    == <<pending, inflight, overdue>>
watchdogVars == <<wpc, drained, noWorker, timedOut, current>>
envVars      == <<cancelling, registrations>>
outcomeVars  == <<delivered, dropped, refused>>
vars == <<workers, submitted, minted, queueVars, calls, watchdogVars, envVars,
          outcomeVars>>

TaskOf(assignees) ==
  [ frame_id : Frame, seq : Nat, assigned_worker : assignees, retries : Nat ]

Task == TaskOf(Worker \cup {NoWorker})

Dispatched == TaskOf(Worker)

Call == [ task : Dispatched, owner : {"enqueue", "drain", "retry"},
          stage : {"selected", "running", "stored", "answered"},
          open : BOOLEAN ]

TaskId(t) == <<t.frame_id, t.seq>>

Init ==
  /\ workers = Registered([w \in Worker |-> Unregistered], Local)
  /\ submitted = {} /\ minted = [f \in Frame |-> 0]
  /\ pending = {} /\ inflight = {} /\ overdue = {}
  /\ calls = {}
  /\ wpc = "sleep"
  /\ drained = {} /\ noWorker = {} /\ timedOut = {} /\ current = {}
  /\ cancelling = [w \in Worker |-> 0]
  /\ registrations = [w \in Worker |-> IF w = Local THEN 1 ELSE 0]
  /\ delivered = {} /\ dropped = {} /\ refused = {}

-----------------------------------------------------------------------------
\* Helpers.

\* Nothing reads the worker of a buffered task: its next assignment overwrites it.
Buffered(t) == [t EXCEPT !.assigned_worker = NoWorker]

\* The retry budget of a task, and what becomes of a task that has some left.
SpentLate(t) == t.retries > MAX_RETRIES       \* a mutant of the next
Spent(t) == t.retries >= MAX_RETRIES

BufferedAsIs(t) == Buffered(t)                \* a mutant of the next
BufferedRetry(t) == [Buffered(t) EXCEPT !.retries = @ + 1]

NextId(t, w, n) ==
  [ frame_id |-> t.frame_id, seq |-> minted[t.frame_id], assigned_worker |-> w,
    retries |-> n ]
RetryUncounted(t, w) == NextId(t, w, t.retries)   \* a mutant of the next
RetryOf(t, w) == NextId(t, w, t.retries + 1)

\* A re-registration gives the tasks it cancels a fresh budget.
Forgotten(ts) == {}                           \* a mutant of the next
TakenBack(ts) == {[Buffered(t) EXCEPT !.retries = 0] : t \in ts}

\* The table without the entry under t's id.
Unpopped(table, t) == table                   \* a mutant of the next
Without(table, t) == {u \in table : TaskId(u) # TaskId(t)}

NewCall(t, owner) ==
  [task |-> t, owner |-> owner, stage |-> "selected", open |-> TRUE]

WorkerOf(c) == c.task.assigned_worker

OpenCalls(owner) == {c \in calls : c.open /\ c.owner = owner}

Stragglers == {c \in calls : ~c.open}

\* The fast path runs inference in the caller's own thread; a retry to the local
\* worker goes through HTTP like any other.
InProcess(c) == WorkerOf(c) = Local /\ c.owner # "retry"

Remote(c) == WorkerOf(c) # Local

\* The watchdog starts its drain calls only when all of them are chosen.
Launched(c) == c.owner = "drain" /\ c.open => wpc = "collect"

Reaches(c, stage) == calls' = (calls \ {c}) \cup {[c EXCEPT !.stage = stage]}

\* The execution is over: its answer goes to the call if that is still waiting.
Answers(c) == IF c.open THEN Reaches(c, "answered") ELSE calls' = calls \ {c}

\* _inflight[task_id] = task
Insert(t) ==
  /\ inflight' = Without(inflight, t) \cup {t}
  /\ overdue'  = Without(overdue, t)

\* A dispatch from the retry loop lets the watchdog go on when it is over.
Resume(c) == wpc' = IF c.owner = "retry" THEN "retry" ELSE wpc

-----------------------------------------------------------------------------
\* Callers and dispatch calls.

EnqueueRefusedKept(f) ==                      \* a mutant of the next
  /\ f \notin submitted
  /\ submitted' = submitted \cup {f}
  /\ \/ /\ Candidates(workers) = {}
        /\ refused' = refused \cup {f}
        /\ pending' = pending \cup {NextId([frame_id |-> f], NoWorker, 0)}
        /\ UNCHANGED <<minted, calls>>
     \/ \E w \in LeastLoaded(workers) :
          /\ calls' = calls \cup {NewCall(NextId([frame_id |-> f], w, 0), "enqueue")}
          /\ minted' = [minted EXCEPT ![f] = @ + 1]
          /\ UNCHANGED <<pending, refused>>
  /\ UNCHANGED <<workers, inflight, overdue, watchdogVars, envVars, delivered, dropped>>

Enqueue(f) ==
  /\ f \notin submitted
  /\ submitted' = submitted \cup {f}
  /\ \/ /\ Candidates(workers) = {}
        /\ refused' = refused \cup {f}
        /\ UNCHANGED <<minted, calls>>
     \/ \E w \in LeastLoaded(workers) :
          /\ calls' = calls \cup
               {NewCall([frame_id |-> f, seq |-> minted[f],
                         assigned_worker |-> w, retries |-> 0], "enqueue")}
          /\ minted' = [minted EXCEPT ![f] = @ + 1]
          /\ UNCHANGED refused
  /\ UNCHANGED <<workers, queueVars, watchdogVars, envVars, delivered, dropped>>

\* increment_pending, a lock acquisition after least_loaded chose the worker.
CountCall(c) ==
  /\ c.stage = "selected"
  /\ Reaches(c, "running")
  /\ workers' = PendingIncremented(workers, WorkerOf(c))
  /\ UNCHANGED <<submitted, minted, queueVars, watchdogVars, envVars, outcomeVars>>

\* The worker's result reaches the aggregator: in process, or by POST /results,
\* which refuses a worker that is not registered.
StoreResult(c) ==
  /\ c.stage = "running" /\ Launched(c)
  /\ Remote(c) => IsRegistered(workers, WorkerOf(c))
  /\ Reaches(c, "stored")
  /\ workers' = FramesIncremented(workers, WorkerOf(c), 0)
  /\ delivered' = delivered \cup {c.task.frame_id}
  /\ UNCHANGED <<submitted, minted, queueVars, watchdogVars, envVars, dropped,
                 refused>>

\* POST /results fails or is refused; the agent still answers 200.
LoseResult(c) ==
  /\ c.stage = "running" /\ Launched(c) /\ Remote(c)
  /\ Answers(c)
  /\ UNCHANGED <<workers, submitted, minted, queueVars, watchdogVars, envVars,
                 outcomeVars>>

\* FrameQueue.acknowledge, in process or by POST /queue/acknowledge.
Acknowledge(c) ==
  /\ c.stage = "stored"
  /\ Answers(c)
  /\ inflight' = Without(inflight, c.task)
  /\ overdue' = Without(overdue, c.task)
  /\ \/ inflight' = inflight /\ UNCHANGED workers
     \/ \E t \in inflight \ inflight' :
          workers' = TimeoutReset(workers, t.assigned_worker)
  /\ UNCHANGED <<submitted, minted, pending, watchdogVars, envVars, outcomeVars>>

\* The acknowledgement is lost, or still on its way when the agent answers.
LoseAck(c) ==
  /\ c.stage = "stored" /\ Remote(c)
  /\ \/ Answers(c)
     \/ /\ c.open /\ Cardinality(Stragglers) < MaxStragglers
        /\ calls' = (calls \ {c}) \cup {[c EXCEPT !.stage = "answered"],
                                        [c EXCEPT !.open = FALSE]}
  /\ UNCHANGED <<workers, submitted, minted, queueVars, watchdogVars, envVars,
                 outcomeVars>>

\* The call returned 200 (or the fast path True): the task becomes inflight now.
Return(c) ==
  /\ c.open /\ c.stage = "answered"
  /\ calls' = calls \ {c}
  /\ Insert(c.task)
  /\ Resume(c)
  /\ UNCHANGED <<workers, submitted, minted, pending, drained, noWorker, timedOut,
                 current, envVars, outcomeVars>>

\* The call failed: connection error, error status, inference exception, or a
\* timeout behind which the execution may go on.
Fail(c) ==
  /\ c.open /\ c.stage # "selected" /\ Launched(c)
  /\ InProcess(c) => c.stage = "running"
  /\ \/ calls' = calls \ {c}
     \/ /\ ~InProcess(c) /\ c.stage # "answered"
        /\ Cardinality(Stragglers) < MaxStragglers
        /\ calls' = (calls \ {c}) \cup {[c EXCEPT !.open = FALSE]}
  /\ workers' = PendingDecremented(workers, WorkerOf(c))
  /\ \/ /\ c.owner = "enqueue" /\ Cardinality(pending) >= MAX_PENDING
        /\ dropped' = dropped \cup {c.task.frame_id}
        /\ UNCHANGED pending
     \/ /\ c.owner = "enqueue" => Cardinality(pending) < MAX_PENDING
        /\ pending' = pending \cup {Buffered(c.task)}
        /\ UNCHANGED dropped
  /\ Resume(c)
  /\ UNCHANGED <<submitted, minted, inflight, overdue, drained, noWorker, timedOut,
                 current, envVars, delivered, refused>>

CallStep(c) ==
  \/ CountCall(c) \/ StoreResult(c) \/ LoseResult(c) \/ Acknowledge(c)
  \/ LoseAck(c) \/ Return(c) \/ Fail(c)

-----------------------------------------------------------------------------
\* The watchdog thread.

DrainCopies ==                                \* a mutant of the next
  /\ wpc = "sleep"
  /\ wpc' = "assign"
  /\ drained' = pending
  /\ UNCHANGED <<workers, submitted, minted, queueVars, calls, noWorker, timedOut,
                 current, envVars, outcomeVars>>

Drain ==
  /\ wpc = "sleep"
  /\ wpc' = "assign"
  /\ drained' = pending
  /\ pending' = {}
  /\ UNCHANGED <<workers, submitted, minted, inflight, overdue, calls, noWorker,
                 timedOut, current, envVars, outcomeVars>>

Choosing == \E c \in OpenCalls("drain") : c.stage = "selected"

Assign(t) ==
  /\ wpc = "assign" /\ ~Choosing
  /\ drained' = drained \ {t}
  /\ \/ /\ Candidates(workers) = {}
        /\ noWorker' = noWorker \cup {t}
        /\ UNCHANGED calls
     \/ \E w \in LeastLoaded(workers) :
          /\ calls' = calls \cup {NewCall([t EXCEPT !.assigned_worker = w], "drain")}
          /\ UNCHANGED noWorker
  /\ UNCHANGED <<workers, submitted, minted, queueVars, wpc, timedOut, current,
                 envVars, outcomeVars>>

RebufferNone ==                               \* a mutant of the next
  /\ wpc = "assign" /\ drained = {} /\ ~Choosing
  /\ wpc' = "collect"
  /\ noWorker' = {}
  /\ UNCHANGED <<workers, submitted, minted, queueVars, calls, drained, timedOut,
                 current, envVars, outcomeVars>>

Rebuffer ==
  /\ wpc = "assign" /\ drained = {} /\ ~Choosing
  /\ wpc' = "collect"
  /\ pending' = pending \cup noWorker
  /\ noWorker' = {}
  /\ UNCHANGED <<workers, submitted, minted, inflight, overdue, calls, drained,
                 timedOut, current, envVars, outcomeVars>>

\* All drain calls are over: the snapshot of what is overdue.
CollectedAndAcked == OpenCalls("drain") = {} /\ inflight = {}  \* a mutant of the next
Collected == OpenCalls("drain") = {}

NothingOverdue == {}                          \* a mutant of the next
Snapshot == overdue

Scan ==
  /\ wpc = "collect" /\ Collected
  /\ wpc' = "retry"
  /\ timedOut' = Snapshot
  /\ UNCHANGED <<workers, submitted, minted, queueVars, calls, drained, noWorker,
                 current, envVars, outcomeVars>>

\* The task is charged to its worker even if it has left inflight meanwhile.
TimeOut(t) ==
  /\ wpc = "retry"
  /\ wpc' = "decide"
  /\ timedOut' = timedOut \ {t}
  /\ current' = {t}
  /\ inflight' = Without(inflight, t)
  /\ overdue' = Without(overdue, t)
  /\ workers' = TimeoutRecorded(PendingDecremented(workers, t.assigned_worker),
                                t.assigned_worker)
  /\ UNCHANGED <<submitted, minted, pending, calls, drained, noWorker, envVars,
                 outcomeVars>>

Drop(t) ==
  /\ wpc = "decide" /\ Spent(t)
  /\ wpc' = "retry"
  /\ current' = {}
  /\ dropped' = dropped \cup {t.frame_id}
  /\ UNCHANGED <<workers, submitted, minted, queueVars, calls, drained, noWorker,
                 timedOut, envVars, delivered, refused>>

BufferRetry(t) ==
  /\ wpc = "decide" /\ ~Spent(t) /\ Candidates(workers) = {}
  /\ wpc' = "retry"
  /\ current' = {}
  /\ pending' = pending \cup {BufferedRetry(t)}
  /\ UNCHANGED <<workers, submitted, minted, inflight, overdue, calls, drained,
                 noWorker, timedOut, envVars, outcomeVars>>

Retry(t) ==
  /\ wpc = "decide" /\ ~Spent(t)
  /\ wpc' = "await"
  /\ current' = {}
  /\ minted' = [minted EXCEPT ![t.frame_id] = @ + 1]
  /\ \E w \in LeastLoaded(workers) :
       calls' = calls \cup {NewCall(RetryOf(t, w), "retry")}
  /\ UNCHANGED <<workers, submitted, queueVars, drained, noWorker, timedOut,
                 envVars, outcomeVars>>

EndRound ==
  /\ wpc = "retry" /\ timedOut = {}
  /\ wpc' = "sleep"
  /\ UNCHANGED <<workers, submitted, minted, queueVars, calls, drained, noWorker,
                 timedOut, current, envVars, outcomeVars>>

Watchdog ==
  \/ Drain \/ Rebuffer \/ Scan \/ EndRound
  \/ \E t \in drained  : Assign(t)
  \/ \E t \in timedOut : TimeOut(t)
  \/ \E t \in current  : Drop(t) \/ BufferRetry(t) \/ Retry(t)

-----------------------------------------------------------------------------
\* Workers coming and going, the clock, and the eviction thread.

\* The entry is replaced under the registry lock; when it replaces one, the
\* queue's callback runs after that lock is released.
Register(w) ==
  /\ registrations[w] < MaxRegistrations
  /\ registrations' = [registrations EXCEPT ![w] = @ + 1]
  /\ workers' = Registered(workers, w)
  /\ cancelling' = IF IsRegistered(workers, w)
                   THEN [cancelling EXCEPT ![w] = @ + 1] ELSE cancelling
  /\ UNCHANGED <<submitted, minted, queueVars, calls, watchdogVars, outcomeVars>>

\* _cancel_inflight_for_worker
CancelInflight(w) ==
  /\ cancelling[w] > 0
  /\ cancelling' = [cancelling EXCEPT ![w] = @ - 1]
  /\ LET cancelled == {t \in inflight : t.assigned_worker = w}
     IN  /\ inflight' = inflight \ cancelled
         /\ overdue' = overdue \ cancelled
         /\ pending' = pending \cup TakenBack(cancelled)
  /\ UNCHANGED <<workers, submitted, minted, calls, watchdogVars, registrations,
                 outcomeVars>>

Remove(w) ==
  /\ IsRegistered(workers, w)
  /\ workers' = Removed(workers, w)
  /\ UNCHANGED <<submitted, minted, queueVars, calls, watchdogVars, envVars,
                 outcomeVars>>

Heartbeat(w) ==
  /\ workers' = HeartbeatRecorded(workers, w)
  /\ UNCHANGED <<submitted, minted, queueVars, calls, watchdogVars, envVars,
                 outcomeVars>>

GoSilent(w) ==
  /\ workers' = FallenSilent(workers, w)
  /\ UNCHANGED <<submitted, minted, queueVars, calls, watchdogVars, envVars,
                 outcomeVars>>

\* One round of _eviction_loop.
EvictionTick ==
  /\ workers' = StaleEvicted(HeartbeatRecorded(workers, Local))
  /\ UNCHANGED <<submitted, minted, queueVars, calls, watchdogVars, envVars,
                 outcomeVars>>

\* TASK_TIMEOUT_SECS pass since t was dispatched.
Expire(t) ==
  /\ overdue' = overdue \cup {t}
  /\ UNCHANGED <<workers, submitted, minted, pending, inflight, calls, watchdogVars,
                 envVars, outcomeVars>>

\* The local worker never registers again, deletes itself or misses heartbeats.
Environment ==
  \/ \E w \in Worker \ {Local} :
       Register(w) \/ Remove(w) \/ Heartbeat(w) \/ GoSilent(w)
  \/ \E w \in Worker : CancelInflight(w)
  \/ EvictionTick
  \/ \E t \in inflight \ overdue : Expire(t)

Next ==
  \/ \E f \in Frame : Enqueue(f)
  \/ \E c \in calls : CallStep(c)
  \/ Watchdog
  \/ Environment

Spec == Init /\ [][Next]_vars

\* The threads keep running, every call ends (HTTP timeouts bound it), clocks
\* advance, and the eviction thread ticks.
Fairness ==
  /\ \A f \in Frame : WF_vars(\E c \in calls : c.task.frame_id = f /\ CallStep(c))
  /\ WF_vars(Watchdog)
  /\ \A w \in Worker : WF_vars(CancelInflight(w))
  /\ \A f \in Frame : WF_vars(\E t \in inflight \ overdue : t.frame_id = f /\ Expire(t))
  /\ WF_vars(EvictionTick)

ThreadSpec == Spec /\ Fairness

\* Besides, a frame that is dispatched again and again is some time executed and
\* acknowledged, and its call returns, before it times out.
CallOf(f, Step(_)) == \E c \in calls : c.open /\ c.task.frame_id = f /\ Step(c)

FairSpec ==
  /\ ThreadSpec
  /\ \A f \in Frame : /\ SF_vars(CallOf(f, StoreResult))
                      /\ SF_vars(CallOf(f, Acknowledge))
                      /\ SF_vars(CallOf(f, Return))

-----------------------------------------------------------------------------
\* Properties.

TypeOK ==
  /\ workers \in [Worker -> WorkerInfo]
  /\ submitted \subseteq Frame
  /\ minted \in [Frame -> Nat]
  /\ pending \subseteq Task
  /\ inflight \subseteq Dispatched
  /\ overdue \subseteq inflight
  /\ calls \subseteq Call
  /\ wpc \in {"sleep", "assign", "collect", "retry", "decide", "await"}
  /\ drained \subseteq Task
  /\ noWorker \subseteq Task
  /\ timedOut \subseteq Dispatched
  /\ current \subseteq Dispatched
  /\ cancelling \in [Worker -> Nat]
  /\ registrations \in [Worker -> Nat]
  /\ delivered \subseteq Frame
  /\ dropped \subseteq Frame
  /\ refused \subseteq Frame

\* The tasks the queue or one of its threads still answers for.
Held ==
  pending \cup inflight \cup drained \cup noWorker \cup timedOut \cup current
    \cup {c.task : c \in {d \in calls : d.open}}

Settled == delivered \cup dropped \cup refused

\* An execution that has passed the result hand-over really left a result; with it
\* NoSilentLoss is inductive.
StoredIsDelivered ==
  \A c \in calls : c.stage = "stored" => c.task.frame_id \in delivered

\* The watchdog's local lists are in use only in the phases that fill them, and it
\* waits for at most one retry: what lets a phase overwrite them without loss.
WatchdogPhases ==
  /\ wpc # "assign" => drained = {} /\ noWorker = {}
  /\ wpc \notin {"retry", "decide", "await"} => timedOut = {}
  /\ wpc # "decide" => current = {}
  /\ \A t, u \in current : t = u
  /\ wpc # "await" => OpenCalls("retry") = {}
  /\ \A c, d \in OpenCalls("retry") : c = d

\* Every submitted frame has a result, was dropped or refused on purpose, or is
\* still held somewhere: no hand-over between the buffer, the inflight table, a
\* dispatch call and the watchdog's local lists loses one (enqueue, drain, cancel,
\* timeout and retry paths of FrameQueue).
NoSilentLoss ==
  \A f \in submitted : f \in Settled \/ \E t \in Held : t.frame_id = f

\* The retry loop and the buffer never take a task past its budget, whatever
\* cancels, failures and repeated dispatches came before (frame_queue.py:267-288).
RetriesBounded ==
  \A t \in Held : t.retries <= MAX_RETRIES

\* The places that hold a copy of frame f, each with the copy it holds.
Copies(f) ==
  { p \in ({"pending"} \X pending) \cup ({"drained"} \X (drained \cup noWorker))
            \cup ({"inflight"} \X (inflight \cup timedOut)) \cup ({"current"} \X current)
            \cup ({"call"} \X {c.task : c \in {d \in calls : d.open}}) :
      p[2].frame_id = f }

Reregistrations ==
  Cardinality({p \in Worker \X (2 .. MaxRegistrations) : p[2] <= registrations[p[1]]})

\* One frame is worked on in one place at a time, whatever calls time out and
\* whatever late acknowledgements arrive.  Only the callback of a re-registration
\* adds copies, when it takes back tasks the watchdog has already decided to retry
\* (frame_queue.py:127-138 run between 253 and 261): each at most doubles them.
CopiesBounded ==
  \A f \in Frame : Cardinality(Copies(f)) <= 2 ^ Reregistrations

\* A frame is given at most MAX_RETRIES new task ids after its first; a callback
\* gives every copy it finds the whole budget again (frame_queue.py:137, 285).
AttemptsBounded ==
  \A f \in Frame : minted[f] <= 1 + MAX_RETRIES * 2 ^ Reregistrations

\* What the callers of the queue rely on, whatever threads, copies and late calls do
\* inside it: an accepted frame is let go only with an outcome, and a frame that was let
\* go does not come back through a late failure, callback or retry (enqueue, _dispatch_task,
\* acknowledge, _watchdog_loop).
HeldFrames == {t.frame_id : t \in Held}
Pool == INSTANCE FramePool WITH held <- HeldFrames
ImplementsPool == Pool!Spec

\* The watchdog never waits for ever inside a round: whatever its dispatches meet,
\* it sleeps again and again (frame_queue.py:197-304 is one thread that blocks on
\* every drain call and on every retry).
WatchdogLives == []<>(wpc = "sleep")

\* A submitted frame gets a result or is given up: no cycle of failures, timeouts,
\* cancels and offline workers keeps it going round without an outcome.
Settles == \A f \in Frame : f \in submitted ~> f \in Settled

\* Once the callers are done the queue runs empty, acknowledged or not: tasks whose
\* acknowledgement came too early or was lost leave by the retry budget.
Drains == <>[](Held = {})

================================================================================
