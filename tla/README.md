# Verification of the distributed edge-AI coordinator

TLA+ models of the Python coordinator, its frame queue and the processes around
it, TLC runs on small instances, and TLAPS proofs for all values of the constants.
Paths are relative to the repository root; `backend/` stands for
`edge-co-intelligence-system/backend/`.

## 1. The system

A **coordinator** (FastAPI, one process, many threads) accepts video uploads,
samples one frame per second and distributes the frames to **workers**: itself
(`coordinator-local`, in process) and **worker agents** on other machines (HTTP).
Agents run YOLO, post the result and then an acknowledgement. An **Admin Portal**
collects detection summaries and alerts of several coordinators and camera
workers; two Angular dashboards poll.

| Component | State | Operations | Interacts with |
|---|---|---|---|
| Worker registry `backend/services/worker_manager.py` | entries by worker id (status, pending_frames, average latency, last heartbeat), consecutive-timeout counters | register (with callback on re-registration), remove, heartbeat, evict_stale, increment/decrement of pending, record/reset of timeouts, least_loaded | called by routes, queue, aggregator and eviction thread; calls the queue back |
| Frame queue `backend/services/frame_queue.py` | buffer `_pending`, table `_inflight`, counters, one watchdog thread | enqueue, local and HTTP dispatch, acknowledge, cancel for a worker, watchdog round (drain, collect, time out, retry, drop) | registry, aggregator, inference, agents |
| Result aggregator `backend/services/result_aggregator.py` | capped table of results, running totals, latency ring, alert ring | add_result, add_frame_result, store_frame_result, add_alert, reads | written by routes and local dispatch; read by dashboards and the job report |
| Job tracker `backend/services/job_tracker.py` | capped table of job states | create, mark_processing, increment_progress, mark_completed, mark_failed | written by upload and job threads |
| Video pipeline `backend/routes/video_routes.py` | pool of job threads, temp files | upload, sample and enqueue, fallback, report | queue, tracker, aggregator, Admin reporter |
| Worker agent `worker_agent.py` | registration and heartbeat threads | process_frame, register (5 attempts), heartbeat (re-register on 404), deregister | coordinator over HTTP |
| Frame distributor `backend/services/frame_distributor.py` | latest JPEG and its version, under two locks | push, iter_frames | inference pushes, stream clients pull |
| Inference service `backend/services/inference_service.py` | lazily loaded model, lock | run, alert rule | aggregator, distributor, Admin reporter |
| Admin reporter `backend/services/admin_reporter.py` | registered flag | register/heartbeat loop, report of jobs and alerts | Admin Portal over HTTP |
| Admin Portal `admin/backend/` | cameras, analytics totals, alerts, socket clients | register, heartbeat, detection, alert, control, broadcast | reporters, camera workers, dashboards |
| Camera worker `camera_worker.py` | heartbeat and analytics threads | register, heartbeat, detection | Admin Portal |
| TCP framing `backend/utils/networking.py`, `workers/` | a byte stream | send/receive of length-prefixed frames, sentinel | no server side is left in the repository |
| Dashboards `edge-dashboard/`, `admin/frontend/` | view state | polling, upload, sockets | coordinator, Admin Portal |

What makes it hard: calls that time out while the execution behind them goes on;
acknowledgements that arrive before the queue knows the task, late, or never; a
watchdog that works on local copies of shared tables; a registry callback that runs in
a third thread; workers that restart, fall silent and come back; running totals kept
incrementally through merges and evictions; jobs that run concurrently and read global
counters. PROJECT.json lists these as hazards, each at its line.

Properties that make each component correct:

* queue: no frame is lost silently, none is held twice without a restart, attempts
  and retries are bounded, each frame is settled, the watchdog never blocks for ever; to
  its callers the queue is a pool of frames;
* registry: no counter below zero, and a worker that the breaker or the eviction took out
  serves again if it lives (that the choice is of lowest load is how `LeastLoaded` is
  written, and no run checks it);
* aggregator: totals are the sums over the table, an entry is the consensus of the reports
  that went into it, redelivery is harmless;
* jobs: the state shown agrees with the thread, eviction is final, every job ends,
  reports contain only fresh detections;
* distributor: a client never goes back in time and gets the last frame in the end;
* agent: registered in the end whenever it stays up, no longer offered frames once it is
  gone, never evicted while its heartbeats succeed;
* portal: what is pushed is recorded, a broadcast leaves out no working socket, dead sockets
  are forgotten, and the coordinator is shown again after the portal restarted or removed it
  (`camera_worker.py` is not: it ignores the answer to its heartbeats).

## 2. The modules

`WorkerManager` holds the registry's methods as operators from registry to registry:
each method takes the registry lock exactly once, so each is atomic, and the module that
owns the variable composes them. Two modules EXTEND it:

* `FrameQueue` adds callers, calls, the watchdog and the environment. It implements the
  abstract `FramePool`; `FrameQueueHistory` adds two history variables for the statements
  of documentation that speak about the past.
* `WorkerAgent` composes the registry with an agent's process and the coordinator's restarts.

`AdminPortal` is the portal's backend; `Reporting` EXTENDS it with the processes that talk
to it. `ResultAggregator`, `JobPipeline` and `FrameDistributor` stand alone;
`LatestFrame` is the abstract specification that the last of them implements. The `MC...`
modules give TLC its sets. The theorems of a component are in a module `...Proofs`;
`WorkerManagerProofs` has the lemmas about the registry that FrameQueueProofs and
WorkerAgentProofs share, `SumTheorems` those about sums over finite sets that the proofs of
queue and aggregator share.

### FrameQueue

| Action | Code |
|---|---|
| Enqueue | `enqueue`, `_try_dispatch_or_buffer` up to the choice of a worker (71-95) |
| CountCall | `increment_pending`, a lock acquisition after `least_loaded` (96, 218, 292) |
| StoreResult, LoseResult | execution and hand-over of the result: `_dispatch_local` 163-164, agent's `POST /results` with the 404 for unregistered workers |
| Acknowledge, LoseAck | `acknowledge` 120-125, the agent's call of it, its loss or delay |
| Return | the task enters `_inflight` after the call has returned (105-107, 241-243, 298-300) |
| Fail | the call failed (109-118, 244-247, 301-304); an execution behind it may go on |
| Drain, Assign, Rebuffer, Scan | the watchdog's phases (200-257) |
| TimeOut, Drop, BufferRetry, Retry, EndRound | its loop over overdue tasks (259-304) |
| Register, CancelInflight | `_do_register` and, after the registry lock, the queue's callback |
| Remove, Heartbeat, GoSilent, EvictionTick, Expire | routes, clock, eviction thread |

State: `workers` is the registry; `pending`, `inflight` are the two shared tables;
`drained`, `noWorker`, `timedOut`, `current` are the watchdog's local variables and `wpc`
its program counter; `calls` holds the dispatch calls with the stage of the execution
behind them (`open` is FALSE when the execution has outlived its call).
`submitted`, `delivered`, `dropped`, `refused`, `minted`, `registrations` are for the
properties; `dropped` stands for `dropped_count`.

Abstractions, and why they keep the behaviour:

* The buffer is a set. The watchdog takes the whole buffer and tries every task, so order
  decides only ties. Two *identical* copies would be one element; copies that differ in id or retries
  are two.
* The worker of a buffered task is not kept: it is overwritten before it is read.
* A task id is the pair of the frame and the number of ids minted for it before.
* Clocks are bits: `overdue` per inflight task, `silent` per worker; both may
  rise at any time. TASK_TIMEOUT_SECS (5) is below DISPATCH_TIMEOUT_SECS (8), so a task may
  be overdue as soon as it is inserted; the model allows it.
* Adjacent lock acquisitions are one step where no other thread can tell the order:
  `decrement_pending` and the append of a failed task; pop, `decrement_pending` and
  `record_timeout`; pop and `reset_timeout_counter`; the heartbeat of
  `coordinator-local` and `evict_stale`. `least_loaded` and `increment_pending` stay two
  steps, as do the registration and its callback, and the watchdog's snapshot and pops.
* The timeout counter saturates at the threshold: it is only compared with it.
* `processing_ms` is always 0: no caller of `increment_frames` passes it
  (`result_aggregator.py` 84, 106, 112). The latency average of the registry therefore
  never leaves 0 and `least_loaded` always uses 1000 ms, although the docstring promises
  a latency-weighted choice.
* `least_loaded` takes its candidates under the lock and computes their scores after it, on
  entries that other threads may change meanwhile (`worker_manager.py` 164-177). The model
  chooses in one step. No property depends on which candidate is chosen.
* `coordinator-local` registers once at start-up; it is never removed and the
  eviction thread refreshes it.
* Left out: `frames_processed`, `stop` and `mark_idle` (nothing calls them),
  capabilities other than the default, a crash of the coordinator (everything is in memory,
  so for the queue a restart is `Init`; what it means for an agent is in WorkerAgent).

`FramePool` is what the callers rely on: a frame is accepted or refused, results may come
late and more than once, copies may be given up, and the pool lets a frame go only with a
result or after giving it up, and then for good. The refinement maps `held` to
`HeldFrames`, the frames in any of the seven places, and hides everything else.

### WorkerAgent

| Action | Code |
|---|---|
| Start | the agent's `startup`: a registration thread and the heartbeat thread |
| Register, RegisterFails | an attempt of `_register_with_coordinator` that gets through (its answer may be lost), and one that fails |
| SendHeartbeat, HeartbeatServed, HeartbeatAnswered | a round of `_heartbeat_loop`, with the coordinator's service between request and answer |
| Heartbeat404, HeartbeatFails | its other outcomes; a 404 starts one more registration thread |
| PostResult | result and acknowledgement of a frame, for what they do to the registry |
| Shutdown, Deregister, Exit, Crash | `shutdown` while the daemon threads still run, and the end of the process |
| ServeLate, LoseLate | a request that the agent has given up is served all the same, or lost |
| Restart | the coordinator restarts and has forgotten everyone |
| EvictionTick, ChargeTimeout | the eviction thread, the circuit breaker |
| Tick | time |

Time passes in ticks because the code measures it: the heartbeat thread's sleep and
time-out, and the age of `last_heartbeat`. `Tick` does not pass a point at which the
heartbeat thread is due; everything else takes any time. Nothing depends on how
long a registration thread waits between attempts, so it has no clock. `heard` is history:
the coordinator has a sign of life of this process, and no heartbeat has failed since.
`Thread`, MaxStarts, MaxRestarts and MaxLate are bounds of the model; MaxAttempts is 5 in
the code.

### AdminPortal and Reporting

| Action | Code |
|---|---|
| Register, Heartbeat | the portal's two endpoints as `AdminReporter._run` calls them (it registers again after a 404) and as `camera_worker.py` does (it does not) |
| SendDetection, ReportAlert, SendControl | a job summary or a camera worker's detection, an alert, the operator's command: each one call, which may be lost |
| Receive | the handler up to its first await: status, count, timeline, alert store |
| Broadcast: Send, Finish | one `send_json` of the snapshot; the removal of the sockets that failed |
| Connect, Join | `accept`, after which the dashboard's socket is open, and the step after that await, which adds it to the set; it may be closed in between |
| Close, Disconnect | the socket's end, and the endpoint that notices it (only for WebSocketDisconnect) |
| RefreshStatus, RemoveCamera | a read of the cameras that finds one silent; the operator's DELETE |
| Restarted, CoordinatorRestarts | either process ends and another one starts |

The portal has one event loop, so a handler is atomic between its awaits, and its awaits are
the sends. Broadcasts run side by side, each over its own snapshot
(`handlers`). A caller that times out changes nothing at the portal, which serves the
request all the same, so a time-out is no step. `MaxRequests` bounds the requests
handled at once. `shown` is history: what a dashboard has received on its present socket.

### ResultAggregator

`Store` is `_store` under its two locks, with its three ways (Overwrite, Insert,
InsertEvicting). A finding gives each label how often it was detected and the best
confidence: what the merge reads. The `increment_frames` that the result route calls after
`_store` acts on the registry and belongs to FrameQueue's `StoreResult`. The worker id `a+b`
is the sequence `<<a, b>>`, which grows with each further merge: `MaxOrigin` bounds it. A key
of `counts` that the code deletes is 0. The dictionary keys of `summary` stay, as in the code.
`views` is history: the findings that went into a frame's entry since it was inserted or last
overwritten. `P95Index` is the position at which `latency_stats` reads the P95; it is pure
arithmetic and has a theorem instead of a run.

### JobPipeline

| Action | Code |
|---|---|
| Upload | `upload_video`: `create`, which evicts the oldest job of a full table, and the submission to the pool |
| Start | `_process_video_file` up to the snapshot of the global counts |
| Probe | the estimate and the first `mark_processing` |
| Enqueue, EnqueueReturns | the call of `enqueue`, behind which results may come before it returns, and what the loop does with its answer |
| SkipSample | a frame that does not encode, or for which there is no worker |
| FinishSampling, Complete, Report | the end of the loop, `mark_completed`, `_report_to_admin` |
| Raise, Fallback | the exception paths, up to `mark_failed` |
| Deliver | a result of a frame is stored: over what the table has of it, in place of an evicted frame or of one that has the same id |
| Forget | a result of no job's frame evicts one |

`jobs` is the tracker's one ordered table, so an entry is evicted, found and changed as in
`_jobs`. The queue and the aggregator appear as what a job sees of them: a frame that was
handed out may yield any number of results at any time (retries, re-dispatches after a
re-registration and stragglers all answer), each with any detections, and a frame whose
detections were evicted may be delivered again. The report is the difference of each class's
count, where it is positive. A frame is the n-th sample of a job and a detection the nth
object of its class in a frame: the counts tell no more of them. The frame count of a
video's header is unrelated to the frames that can be read. `fresh` is history, for
ReportIsFresh. Percentages are in tenths. Unlinking the temp file is part of the thread's
last step.

### FrameDistributor

`Store` and `Notify` are the two locked halves of `push`; `Wake` (or `TimeOut`), `Yield`,
`Resume` are one round of the generator, `Reconnect` the end of a connection at the yield
and a new one. A frame is the number of the write that stored it. `LatestFrame` is the
abstract register that the stream promises to its clients; the refinement maps `latest` to
`published` and hides the version, the pushers' position and the generators' locals.

## 3. The runs

| Run | Question | Bounds |
|---|---|---|
| queue_one | Does any interleaving of one frame with a restarting worker, a straggling execution, late acknowledgement, breaker and eviction lose it, copy it or pass its budget? | 1 frame, 2 workers, threshold 2, 1 retry, 2 registrations, 1 straggler; 271,225 states |
| queue_two | Do frames interfere: a full buffer, a shared round, tasks taken from the wrong frame? Does the queue implement FramePool? | 2 frames, buffer of 1, threshold 1, 1 registration, 1 straggler, frames symmetric; 956,522 states |
| queue_live | Is every frame settled, does the queue run empty, does the watchdog return? | 1 frame, threshold 2, 2 registrations; 20,491 states |
| acked_stays_out, failures_limited | Two statements about the queue that the code does not keep | 1 frame |
| aggregator | Are the running totals the sums, is an entry the consensus of its reports, redelivery harmless? | 3 frames in a table of 2, 2 workers, 3 findings over 2 labels, 3 results merged into one; 112,890 states |
| jobs | Does the tracker agree with the threads, does an evicted job stay out, does every job end? | 3 jobs on 2 threads, a tracker of 1, videos of 2 samples; no labels; 188,215 states |
| reports | Is what a job reports fresh, whatever is delivered again, evicted and put back? | 2 jobs on 2 threads, 2 labels, 1 sample each, a tracker of 1; jobs and labels symmetric; 265,507 states |
| delta_is_own | A statement about the report that the code does not keep | 2 jobs on 2 threads, 1 label, 1 sample each |
| stream | Can a client sleep on a stale frame, go back in time, miss the last frame? | 2 pushers, 2 clients, 3 frames; 4,523 states |
| agent | Does whoever stays up end up registered and available, and whoever is gone leave? Is a healthy agent ever evicted? | 1 agent started twice, 2 registration threads of 1 attempt, 1 coordinator restart, 1 late request of a kind; threshold 2; interval 1, time-out 1, deadline 4 ticks; 158,292 states |
| portal | Is what is pushed recorded, do broadcasts reach every working socket, dead sockets leave, and does the coordinator come back? | a coordinator and a camera worker, 1 detection, 1 alert, 1 command, 2 dashboards, 2 requests at once; any number of restarts; 165,204 states |

Why the bounds are enough for the cases that matter: one retry already distinguishes
a first and a last timeout; threshold 2 lets the breaker be at, below and above its
threshold, and shows the counter that a heartbeat does not reset (from then on each timeout
opens the breaker); threshold 1, of queue_two, opens it on every timeout. Two registrations
give exactly one callback, which is what doubles a frame; one straggler is a late
acknowledgement that finds its task buffered, inflight, overdue, decided or gone; a buffer of
one and two frames fill the cap. A table of two with three frames evicts at each new frame.
The pool has at least two threads (`video_routes.py` 23): of three jobs one waits behind the
two others, and a tracker of one evicts a waiting or running job; none of the properties of
that run looks at labels, so it has none. Two jobs on two threads are the least whose snapshots
and deliveries overlap, and two labels the least for which a sum over labels would hide what
one of them loses; the theorems cover any pool, table and labels. Two registration threads
are a thread and the one a 404 starts beside it, and one attempt each lets both give up. The
deadline of 4 is the least that exceeds the interval and two time-outs of 1, so HealthyStays
is checked where it is tight. One late request of each kind overtakes a restart of the agent.
Two broadcasts at once, each over a snapshot of up to two sockets, are the least in which they
interfere. The portal's two stores do not overflow in this instance (no caller repeats a
report, so each event is sent once); their caps are covered by the proofs. MaxRegistrations,
MaxStragglers, MaxOrigin, Thread, MaxStarts, MaxRestarts, MaxLate and MaxRequests are the only
bounds that the code does not have; the theorems hold whatever they are.

`CHECK_DEADLOCK FALSE` only in the job runs: once every job of the instance is done
nothing is left to do.

### What the properties say

*NoSilentLoss* is the queue's promise: at every moment a submitted frame has a result,
was dropped or refused on purpose, or is in one of seven places (buffer, inflight, the
watchdog's four lists, an open call). It does not say that nothing is dropped:
`edge-co-intelligence-system/docs/report.md` 62 ("without dropping frames") describes the older TCP
design, and here a drop is an outcome that is counted. *CopiesBounded* says how often a frame
may be in those places: once, unless a callback of a re-registration takes back a task that
the watchdog has already snapshotted; each re-registration at most doubles. *AttemptsBounded* and
*RetriesBounded* bound the work, *Settles*, *Drains* and *WatchdogLives* are its
liveness. *ImplementsPool* relates steps: a frame is let go in the very step after which it
has an outcome, and none that was let go returns, although stragglers, callbacks and the
watchdog's snapshots go on with old copies of it.

*TotalsAreSums* compares the incremental counters with a recomputation.
*EntryIsConsensus* compares an entry with all the reports merged into it since it was
inserted or overwritten, in any order: the best confidence of each class, and how often it was
seen, or once if several workers' reports were merged. So of two persons that one worker saw
and another did not, the merge keeps one; that it never forgets the class is the claim.
*RedeliveryIsHarmless* speaks of a result whose exact duplicate arrives; a redelivery
into an already merged result is not harmless (the origin grows), which the
hazards record.

*ShownIsSettled* ties the shown status to the thread. *EvictedStaysOut* says of the one table
that a job once out of it is never in it again, whatever its thread calls. *ReportIsFresh*
is what remains true of the job report: of each class no more than was stored while the
thread ran, so nothing that its snapshot counted and nothing twice, however often frames
are delivered, evicted and put back. *EveryJobEnds* is liveness of the pool.

*NoLostWakeup* relates what a sleeping client has shown to the latest frame across both
locks. *ImplementsRegister* is the stream's contract: monotone, and the last frame
arrives. It includes liveness, so that a guard that is off by one breaks it and
NoLostWakeup does not notice.

*HealthyStays* is the inequality behind the three constants of the heartbeat protocol (10,
4 + 4 and 30 s): however slow the answers, the stamp of an agent without failures never
reaches the deadline. *Joins* and *ServesAgain* say that the 404 of the heartbeat repairs
whatever restarts, late DELETEs, exhausted registrations, the breaker and the
eviction do; *LeavesService* is the converse for an agent that is gone.

*ShownIsRecorded* relates what dashboards were pushed to what the stores hold,
*NobodySkipped* is an action property of the broadcast, *GhostsLeave* and *ComesBack* are
liveness.

### Fairness

`ThreadSpec`: weak fairness of each frame's calls, of the watchdog, of the callbacks, of
the clock (`Expire`) and of the eviction thread. The code justifies it: HTTP timeouts bound each
call, the threads are never stopped, and locks are held briefly. `FairSpec` adds
strong fairness of storing, acknowledging and returning for the calls of a frame. That is
an assumption about the environment, not about the code: without it every dispatch may fail, and
then the frame circulates for ever, which is what failures_limited shows. It is
stated for liveness only. The jobs need weak fairness of each thread; `Deliver` and `Forget` have none.
The stream needs weak fairness of a pusher between its two locks and of a client's round (a
client that stays takes what it asked for), none of a timeout, a push or a disconnection.

The agent needs weak fairness of time, of its threads, of a shutdown, of late requests (served or
lost) and of the eviction thread, all of which the threads and the HTTP time-outs give;
strong fairness of a heartbeat's service and of a registration's is the assumption that the
network does not fail every one of them for ever. The portal needs weak fairness of each
broadcast (the server closes a socket that stalls, so a send ends) and, as an assumption
about the network, strong fairness of the reporter's registration and heartbeat. Restarts,
removals and reports have none.

## 4. Findings

1. **Acknowledgements come too early** (acked_stays_out). The agent acknowledges before it
   answers the call, and `_dispatch_local` before it returns; the task enters `_inflight`
   afterwards. So *each* success leaves an inflight task that times out, is
   charged to its worker (three of them open the breaker) and is retried MAX_RETRIES times.
2. **Failed dispatches are not counted** (failures_limited).
3. **A job's report contains other jobs' detections** (delta_is_own).

Further divergences from what the repository says are part of the model but have no run of
their own; each was seen with TLC on the instances above, but for the first, which is read
off the code:

* the latency average is never learned (section 2, FrameQueue);
* a frame is refused, not buffered, while all workers are offline (`frame_queue.py` 91-93,
  against its docstring, 74-76), and only the enqueue path honours `MAX_PENDING` (113);
* a resubmitted frame is merged unless the entry is the same worker's, where
  `result_routes.py` 25-26 says that it "overwrites the previous entry";
* progress passes 100 %, where `models.py` 172 says "0-100": the estimate rounds down and the
  sampling up, and the header may claim any count; a processed frame need not have been
  inferred, where line 169 says "finished inference": it counts when the queue accepts it;
* the "auto-register keepalive" of a detection (admin `control_routes.py` 23) registers no
  camera, so a camera worker stays unlisted after a portal restart although its detections
  are counted.

## 5. What is proved

Every invariant and every action property that a passing run checks is also a theorem, and
so are the refinement of FramePool and the safety half of that of LatestFrame.
The theorems hold for all values of the constants that satisfy the modules' named
assumptions: limits are natural numbers, distinguished elements belong to their sets; and
where sums or cardinalities are taken, the job ids are finitely many (eight hexadecimal
digits, `video_routes.py` 96), as are the labels (the classes a model was trained on).
Workers, frames, cameras and clients may be any sets.

`FrameQueueProofs`:

* `TypeCorrect`: Spec => []TypeOK. Inductive as it stands, with one lemma per group of
  registry operators (each maps a well-typed registry to one, in `WorkerManagerProofs`).
* `NothingLost`: Spec => []NoSilentLoss. Not inductive alone: `LossInv` adds `TypeOK`,
  `StoredIsDelivered` (an execution beyond the hand-over left a result, so its call may
  end without the frame being held) and `WatchdogPhases` (a local list is empty
  outside the phases that use it, so that a phase may overwrite it, and at most one retry
  is awaited). The proof has one step per action: either it moves a task between two of the
  seven places or it adds its frame to the settled ones.
* `BudgetKept`: Spec => []RetriesBounded, with TypeOK: only `RetryOf` and
  `BufferedRetry` raise the count, both behind `~Spent`.
* `QueueIsPool`: Spec => ImplementsPool. `PoolInv` adds to `LossInv` that
  every frame held or executed was submitted and not refused (`Known`), without which a late
  result could be one of a frame the pool never had. Each action of the queue becomes a
  step of the pool or a stutter; most reduce to three lemmas on which of the seven places
  change.
* `CopiesLimited`: Spec => []CopiesBounded, and `AttemptsLimited`: Spec => []AttemptsBounded.
  Neither bound is inductive: a step may use any of the copies, and whether it makes one
  more depends on where the others are. `CopyInv` adds to `PoolInv` and RetriesBounded
  * `Apart`: tasks stay apart. Open calls are for different tasks, a frame being enqueued is
    nowhere else, a task that a drain dispatches has left the watchdog's list, and so on. With
    it each hand-over between two places takes a copy out of one and puts it in the other.
  * `CallbackInv`: a worker has fewer callbacks to come than registrations.
    `Doublings` counts the re-registrations whose callback has run; only `CancelInflight`
    raises it, by one, and it never exceeds the re-registrations.
  * `Bounded`, for each frame: it has at most b = 2^Doublings copies, and the ids
    it has, with the retries its copies have left (the sum of `Left`), are at
    most 1 + MAX_RETRIES * b. A retry turns one that is left into an id, so the sum
    stays; a copy that is given up lowers it; a callback, which may double
    the copies and gives them their budgets back, doubles b.

  Powers of two are handled as numbers of subsets of an interval, since an induction on
  the exponent is out of reach.

`WorkerAgentProofs`: `TypeCorrect`, and `HealthyIsKept`: Spec => []HealthyStays. `HealthyInv`
adds `Punctual` (the heartbeat thread's timer never passes its sleep or time-out) and
`Recent` (`StampAge` bounds the age of the stamp by where that thread is); the assumption on
interval, time-out and deadline closes the argument at `Tick`.

`ReportingProofs`:

* `TypeCorrect`, with the caps of both stores, overflow included.
* `NobodyIsSkipped`, from `IdleHasNoWork` (a handler that is not busy has nothing to send).
* `PushesAreRecorded`: `PushedInv` adds that the event of every broadcast under way is recorded;
  an event leaves a full store only.

  `StepKinds` sorts the actions once by what they may do to stores, handlers and what is
  shown, and the last two theorems use it.

`JobPipelineProofs`:

* `StatusSettled` and `EvictedOut`, both from `JobInv`: the table is typed and within its
  cap, a job is in it only after its upload, and each entry's status fits its thread's
  position (`Settled`).
* `ReportsAreFresh`: Spec => []ReportIsFresh. `ReportInv` adds `Fresh` for each running job:
  the detections stored now that are not fresh to it are, class by class, no more than its
  snapshot counted. A delivery adds to what is stored only what it adds to `fresh`, and
  whatever an eviction takes away can only come back as fresh.
* `TypeCorrect`, from both.

`ResultAggregatorProofs`:

* `OneResultPerFrame` from `TableInv` (typed results, one of a frame, the cap).
* `EntriesAreConsensus`: Spec => []EntryIsConsensus. `ViewsInv` says it of each entry and the
  views of its frame (`Agrees`). With `TableInv` a step touches the views of one frame,
  and those of the frame it evicts; with `RingsInv` a merged entry has more than one
  worker, so it is told apart from an overwritten one.
* `TotalsCorrect`: Spec => []TotalsAreSums. `TotalsInv` writes each total as the sum
  of a weight over the table: all detections, those of a label, 1 for the results of a worker id. It is
  stronger than the property in two ways the code relies on: a worker id without a key in
  `summary` has no result, and every stored result's id has a key. Then a total is never
  less than the term that is taken off, and the `max(0, ...)` of the code never cuts
  anything off.
* `RedeliveryHarmless`: Spec => RedeliveryIsHarmless, from the same invariant.
* `TypeCorrect`, with `RingsInv`: the caps of the two rings and the bound on merged ids.
* `P95IsOneRankLow`: for any number of samples the P95 is read
  at a valid position, at most one below the nearest rank.

`FrameDistributorProofs`, for any pushers, clients and number of frames:

* `WakeupKept`: Spec => []NoLostWakeup. Inductive with `NeverAhead` (so that every Notify
  makes each client's version old) and `QuietStart` (so that a new client that
  sleeps on version 0 misses nothing). `TypeCorrect` is part of the same induction.
* `ImplementsSafety`: Spec => Register!Safety, step by step under the same invariant. The
  liveness half of the refinement is only model-checked.

`SumTheorems`: the sum over a finite set of natural numbers is one again, is no less than
any of its terms, and changes with a term by as much; a constant sums to a multiple, weights of 0 and 1
count. The library defines the sum by recursion over the set, and its induction
theorems take an operator that the provers cannot instantiate. The lemmas use
well-foundedness instead: the subsets of a finite set for which a claim fails would
have a minimal one (`MinimalSet`).

Only model-checked is liveness under fairness, which is out of the prover's reach: Settles, Drains,
WatchdogLives, EveryJobEnds, Joins, ServesAgain, LeavesService, GhostsLeave, ComesBack, and the
liveness half of ImplementsRegister. The findings rest on counterexamples that TLC gives.

## 6. Plan

Modelled, in the order of importance: the queue and the registry, the aggregator, the
jobs, the stream, the agent, the portal; the abstract pool and register; the theorems
above. What could come next, each of less weight than what exists:

* frame ids over a small modulus, to compose jobs with the aggregator's own table (here a
  shared id is a delivery that takes another frame's detections with it);
* the dashboards' job polling, which never stops once the tracker has evicted the job,
  because a 404 is treated as a transient error (`video-stream.ts` 110-118).

## 7. Not modelled

* Model inference, the alert rule and image conversion: external or pure computation without
  shared state. What inference hands to other components is in their modules.
* The TCP worker and its framing (`workers/`, `backend/utils/networking.py`): no
  coordinator side of that flow is left in the repository, so there is no protocol to check,
  only one end of it.
* The read endpoints and the metrics service: projections of modelled state. Of the portal's
  reads, only the refresh of a camera's status changes state, and is modelled.
* The portal's totals over all cameras and by label: sums kept beside `per_camera`
  in one critical section.
* The clock value behind a frame id, timestamps and logging; a camera worker's end, which
  the portal cannot tell from silence.
* The user interfaces.
