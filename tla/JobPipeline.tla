------------------------------ MODULE JobPipeline ------------------------------
(***************************************************************************)
(* Video jobs on the coordinator: the upload handler, the JobTracker that  *)
(* shows their state, the bounded thread pool that samples a video and     *)
(* hands its frames to the frame queue, the cv2-only fallback, and the     *)
(* report of a job's detections to the Admin Portal.                       *)
(*                                                                         *)
(* The frame queue and the result aggregator appear as what a job sees of  *)
(* them: a frame that was handed to a worker yields results, none or       *)
(* several and at any time, each of which replaces what the aggregator     *)
(* holds of the frame; and the aggregator forgets frames.                  *)
(***************************************************************************)
EXTENDS Naturals, Sequences, FiniteSets

CONSTANTS
  Job,          \* job ids: eight hexadecimal digits
  Videos,       \* [frames, header]: readable frames, and the number the header claims
  Label,        \* object classes
  MaxObjects,   \* objects of one class in a frame
  STEP,         \* frames between two samples
  MAX_SAMPLES,  \* samples taken of one video
  POOL_SIZE,
  MAX_JOBS

ASSUME JobPipelineAssumption ==
  /\ IsFiniteSet(Job) /\ IsFiniteSet(Label)
  /\ Videos \subseteq [frames : Nat, header : Nat]
  /\ MaxObjects \in Nat
  /\ {STEP, MAX_SAMPLES, POOL_SIZE, MAX_JOBS} \subseteq Nat \ {0}

VARIABLES
  jobs,      \* _jobs, oldest first
  video,     \* the uploaded file of a job
  queue,     \* jobs the pool has not started, in order
  pc,        \* where the thread of a job is
  taken,     \* samples taken so far
  before,    \* counts_before of a job
  reported,  \* the counts a job posted
  handed,    \* frames the queue has handed to a worker or buffers for one
  stored,    \* the detections in the aggregator's table
  fresh      \* history: those stored while a job's thread was running

vars == <<jobs, video, queue, pc, taken, before, reported, handed, stored, fresh>>

results == <<stored, fresh>>

\* progress_pct is in tenths of a per cent.
JobStatus ==
  [ id : Job, status : {"queued", "processing", "completed", "failed"},
    total_frames : Nat, processed_frames : Nat, progress_pct : Nat ]

\* A frame is the n-th sample of a job, a detection the nth object of its class in
\* one: the counts tell no more of them.
Frame == Job \X (0 .. MAX_SAMPLES - 1)
Detection == [frame : Frame, label : Label, nth : 1 .. MaxObjects]

NoCounts == [l \in Label |-> 0]

Init ==
  /\ jobs = <<>> /\ queue = <<>>
  /\ video = [j \in Job |-> [frames |-> 0, header |-> 0]]
  /\ pc = [j \in Job |-> "none"] /\ taken = [j \in Job |-> 0]
  /\ before = [j \in Job |-> NoCounts] /\ reported = [j \in Job |-> NoCounts]
  /\ handed = {} /\ stored = {}
  /\ fresh = [j \in Job |-> {}]

-----------------------------------------------------------------------------
\* JobTracker.

Tracked == {jobs[i].id : i \in DOMAIN jobs}

TableOver == Len(jobs) > MAX_JOBS             \* a mutant of the next
TableFull == Len(jobs) >= MAX_JOBS

\* create, evicting the oldest job of a full table, whatever it is doing.
Create(j) ==
  jobs' = Append(IF TableFull THEN Tail(jobs) ELSE jobs,
                 [ id |-> j, status |-> "queued", total_frames |-> 0,
                   processed_frames |-> 0, progress_pct |-> 0 ])

\* A writer looks its job up and does nothing when the table has lost it; new is what
\* it makes of each entry.
Update(j, new) ==
  jobs' = [i \in DOMAIN jobs |-> IF jobs[i].id = j THEN new[i] ELSE jobs[i]]

Processing(total) ==
  [i \in DOMAIN jobs |-> [jobs[i] EXCEPT !.status = "processing", !.total_frames = total]]

MarkProcessing(j, total) == Update(j, Processing(total))

\* round(100 * processed / total, 1)
Percentage(n, total) == (2000 * n + total) \div (2 * total)

OneMore(e) ==
  LET n == e.processed_frames + 1
  IN  [e EXCEPT !.processed_frames = n,
                !.progress_pct = IF e.total_frames = 0 THEN @ ELSE Percentage(n, e.total_frames)]

IncrementProgress(j) == Update(j, [i \in DOMAIN jobs |-> OneMore(jobs[i])])

Completed ==
  [i \in DOMAIN jobs |-> [jobs[i] EXCEPT !.status = "completed", !.progress_pct = 1000]]

CompletedOrAdded(j) ==                        \* a mutant of the next
  IF j \in Tracked THEN Update(j, Completed)
  ELSE jobs' = Append(Tail(jobs),
                      [ id |-> j, status |-> "completed", total_frames |-> 0,
                        processed_frames |-> 0, progress_pct |-> 1000 ])
MarkCompleted(j) == Update(j, Completed)

Failed == [i \in DOMAIN jobs |-> [jobs[i] EXCEPT !.status = "failed"]]

MarkFailedSilently(j) == UNCHANGED jobs       \* a mutant of the next
MarkFailed(j) == Update(j, Failed)

-----------------------------------------------------------------------------
\* What a video yields: an estimate from the frame count its header claims, and the
\* samples 0, STEP, 2 * STEP, ... of the frames that can be read.

Least(m, n) == IF m < n THEN m ELSE n
AtLeastOne(n) == IF n = 0 THEN 1 ELSE n

Estimate(v) ==
  IF v.header = 0 THEN MAX_SAMPLES ELSE Least(MAX_SAMPLES, AtLeastOne(v.header \div STEP))

Samples(v) == Least(MAX_SAMPLES, (v.frames + STEP - 1) \div STEP)

-----------------------------------------------------------------------------
\* The upload handler, and the thread of a job.

Upload(j) ==
  /\ pc[j] = "none"
  /\ \E v \in Videos : video' = [video EXCEPT ![j] = v]
  /\ Create(j)
  /\ queue' = Append(queue, j)
  /\ pc' = [pc EXCEPT ![j] = "submitted"]
  /\ UNCHANGED <<taken, before, reported, handed, results>>

At(j, here, next) == pc[j] = here /\ pc' = [pc EXCEPT ![j] = next]

BusyForEver == {j \in Job : pc[j] \notin {"none", "submitted"}}   \* a mutant of the next
Busy == {j \in Job : pc[j] \notin {"none", "submitted", "done"}}

\* object_counts of get_summary.
Of(l) == {d \in stored : d.label = l}
Counts == [l \in Label |-> Cardinality(Of(l))]

NoSnapshot(j) == [before EXCEPT ![j] = NoCounts]   \* a mutant of the next
Snapshot(j) == [before EXCEPT ![j] = Counts]

Start(j) ==
  /\ queue # <<>> /\ j = Head(queue) /\ Cardinality(Busy) < POOL_SIZE
  /\ queue' = Tail(queue)
  /\ At(j, "submitted", "probe")
  /\ before' = Snapshot(j)
  /\ UNCHANGED <<jobs, video, taken, reported, handed, results>>

Probe(j) ==
  /\ At(j, "probe", "sampling")
  /\ MarkProcessing(j, Estimate(video[j]))
  /\ UNCHANGED <<video, queue, taken, before, reported, handed, results>>

\* The frame of the sample at hand.
Current(j) == <<j, taken[j]>>

\* The sample does not encode, or there is no worker to hand its frame to.
SkipSample(j) ==
  /\ pc[j] = "sampling" /\ taken[j] < Samples(video[j])
  /\ taken' = [taken EXCEPT ![j] = @ + 1]
  /\ UNCHANGED <<jobs, video, queue, pc, before, reported, handed, results>>

\* enqueue has chosen a worker and dispatches: its result may be in before it returns.
Enqueue(j) ==
  /\ taken[j] < Samples(video[j])
  /\ At(j, "sampling", "enqueue")
  /\ handed' = handed \cup {Current(j)}
  /\ UNCHANGED <<jobs, video, queue, taken, before, reported, results>>

\* enqueue returns the task's id, or none when the dispatch failed and the buffer is full.
EnqueueReturns(j) ==
  /\ At(j, "enqueue", "sampling")
  /\ taken' = [taken EXCEPT ![j] = @ + 1]
  /\ IncrementProgress(j) \/ UNCHANGED jobs
  /\ UNCHANGED <<video, queue, before, reported, handed, results>>

FinishSampling(j) ==
  /\ taken[j] = Samples(video[j])
  /\ At(j, "sampling", "complete")
  /\ MarkProcessing(j, taken[j])
  /\ UNCHANGED <<video, queue, taken, before, reported, handed, results>>

\* Any exception of the inference path starts the fallback.
Raise(j) ==
  /\ At(j, "probe", "fallback") \/ At(j, "sampling", "fallback")
  /\ UNCHANGED <<jobs, video, queue, taken, before, reported, handed, results>>

\* The fallback stores frames without detections, which may evict others, or raises as well.
Fallback(j) ==
  /\ \/ At(j, "fallback", "complete") /\ UNCHANGED jobs
     \/ At(j, "fallback", "done") /\ MarkFailed(j)
  /\ UNCHANGED <<video, queue, taken, before, reported, handed, results>>

Complete(j) ==
  /\ At(j, "complete", "report")
  /\ MarkCompleted(j)
  /\ UNCHANGED <<video, queue, taken, before, reported, handed, results>>

Excess(m, n) == IF m > n THEN m - n ELSE 0

\* _report_to_admin: posts what each class's count has risen by, or is not configured,
\* or the post fails.  The thread then unlinks the file and is free.
Report(j) ==
  /\ At(j, "report", "done")
  /\ \/ UNCHANGED reported
     \/ reported' = [reported EXCEPT ![j] = [l \in Label |-> Excess(Counts[l], before[j][l])]]
  /\ UNCHANGED <<jobs, video, queue, taken, before, handed, results>>

Thread(j) ==
  \/ Start(j) \/ Probe(j) \/ SkipSample(j) \/ Enqueue(j) \/ EnqueueReturns(j)
  \/ FinishSampling(j) \/ Raise(j) \/ Fallback(j) \/ Complete(j) \/ Report(j)

-----------------------------------------------------------------------------
\* The frame queue and the aggregator.

Running(j) == pc[j] \notin {"none", "submitted", "done"}

\* A running job's snapshot lacks what is stored from now on.
Noted(new) == [j \in Job |-> IF Running(j) THEN fresh[j] \cup (new \ stored) ELSE fresh[j]]

InFrame(f) == {d \in Detection : d.frame = f}

\* A result of frame f, with some detections or none, is stored over what the table has
\* of f; it may evict, or share its id with, another frame.  A frame that was handed out
\* can yield any number of results, also late: it is retried, re-dispatched after a
\* re-registration, and its stragglers answer.
Deliver(f) ==
  /\ f \in handed
  /\ \E new \in SUBSET InFrame(f), lost \in {{}} \cup {{d.frame} : d \in stored} :
       /\ stored' = {d \in stored : d.frame \notin lost \cup {f}} \cup new
       /\ fresh' = Noted(new)
  /\ UNCHANGED <<jobs, video, queue, pc, taken, before, reported, handed>>

\* A result of no job's frame, the fallback's or another client's, evicts one.
Forget(f) ==
  /\ stored' = stored \ InFrame(f) /\ stored' # stored
  /\ UNCHANGED <<jobs, video, queue, pc, taken, before, reported, handed, fresh>>

Next ==
  \/ \E j \in Job : Upload(j) \/ Thread(j)
  \/ \E f \in Frame : Deliver(f) \/ Forget(f)

Spec == Init /\ [][Next]_vars

\* A pool thread runs whenever it can.
FairSpec == Spec /\ \A j \in Job : WF_vars(Thread(j))

-----------------------------------------------------------------------------
\* Properties.

TypeOK ==
  /\ jobs \in Seq(JobStatus) /\ Len(jobs) <= MAX_JOBS
  /\ queue \in Seq(Job)
  /\ pc \in [Job -> {"none", "submitted", "probe", "sampling", "enqueue", "fallback",
                     "complete", "report", "done"}]
  /\ taken \in [Job -> 0 .. MAX_SAMPLES]
  /\ before \in [Job -> [Label -> Nat]] /\ reported \in [Job -> [Label -> Nat]]
  /\ handed \subseteq Frame
  /\ stored \subseteq Detection /\ fresh \in [Job -> SUBSET Detection]

\* What the tracker shows of a job it still holds agrees with where the job's thread
\* is: it is terminal from the moment the thread has settled it and never before, on
\* the normal, the fallback and the failure path (video_routes.py:112-133).
ShownIsSettled ==
  \A i \in DOMAIN jobs :
    jobs[i].status \in {"completed", "failed"} <=> pc[jobs[i].id] \in {"report", "done"}

\* A job evicted from the full table while its thread runs does not come back through
\* one of the thread's later updates (job_tracker.py:36-38, against 41-72).
EvictedStaysOut ==
  [][\A j \in Job : pc[j] # "none" /\ j \notin Tracked => j \notin Tracked']_vars

\* Of each class a job reports no more than was stored, for the first time or again,
\* while its thread ran: nothing that its snapshot counted, and nothing twice however
\* often it is delivered, whatever is evicted and put back meanwhile and whichever jobs
\* run beside it (video_routes.py:113-115, 144-150).
ReportIsFresh ==
  \A j \in Job, l \in Label : reported[j][l] <= Cardinality({d \in fresh[j] : d.label = l})

\* Every uploaded job is finished in the end and frees its thread and its file, also
\* a job that the tracker evicted or that waits behind a full pool.
EveryJobEnds == \A j \in Job : pc[j] = "submitted" ~> pc[j] = "done"

-----------------------------------------------------------------------------
\* What the repository says, and the code does not do.

\* video_routes.py:145: "Delta = only what was detected in THIS job".
DeltaIsOwn ==
  \A j \in Job, l \in Label :
    reported[j][l] <= Cardinality({d \in fresh[j] : d.label = l /\ d.frame[1] = j})

================================================================================
