--------------------------- MODULE JobPipelineProofs ---------------------------
(***************************************************************************)
(* Theorems of JobPipeline, for any jobs, videos, pool, table, step and    *)
(* classes.                                                                *)
(***************************************************************************)
EXTENDS JobPipeline, FiniteSetTheorems, TLAPS

File == [frames : Nat, header : Nat]

Place == {"none", "submitted", "probe", "sampling", "enqueue", "fallback", "complete",
          "report", "done"}

-----------------------------------------------------------------------------
\* The job table and the place of each job's thread.

JobsTyped ==
  /\ jobs \in Seq(JobStatus) /\ Len(jobs) <= MAX_JOBS
  /\ pc \in [Job -> Place]
  /\ taken \in [Job -> Nat]
  /\ video \in [Job -> File]

\* An entry is of an uploaded job, and terminal when its thread has settled it.
Settled ==
  \A i \in DOMAIN jobs :
    /\ pc[jobs[i].id] # "none"
    /\ jobs[i].status \in {"completed", "failed"} <=> pc[jobs[i].id] \in {"report", "done"}

\* No sample is taken past the cap.
Capped ==
  \A j \in Job : /\ taken[j] <= MAX_SAMPLES
                 /\ pc[j] = "enqueue" => taken[j] < MAX_SAMPLES

JobInv == JobsTyped /\ Settled /\ Capped

\* What a writer of the table may do: it keeps the entries' ids and order, and all
\* entries but the job's.
Rewritten(j) ==
  /\ jobs' \in Seq(JobStatus) /\ Len(jobs') = Len(jobs) /\ DOMAIN jobs' = DOMAIN jobs
  /\ \A i \in DOMAIN jobs : /\ jobs'[i].id = jobs[i].id
                            /\ jobs[i].id # j => jobs'[i] = jobs[i]

LEMMA WriterKeepsIds ==
  ASSUME JobsTyped, NEW j \in Job, NEW new \in [DOMAIN jobs -> JobStatus],
         \A i \in DOMAIN jobs : new[i].id = jobs[i].id,
         jobs' = [i \in DOMAIN jobs |-> IF jobs[i].id = j THEN new[i] ELSE jobs[i]]
  PROVE  Rewritten(j)
<1>1. jobs \in Seq(JobStatus) /\ DOMAIN jobs = 1 .. Len(jobs) /\ Len(jobs) \in Nat
  BY DEF JobsTyped
<1>2. jobs' \in [1 .. Len(jobs) -> JobStatus] BY <1>1
<1>3. jobs' \in Seq(JobStatus) /\ Len(jobs') = Len(jobs) /\ DOMAIN jobs' = DOMAIN jobs
  BY <1>1, <1>2
<1> QED BY <1>3 DEF Rewritten

LEMMA MarkProcessingStep ==
  ASSUME JobsTyped, NEW j \in Job, NEW total \in Nat, MarkProcessing(j, total)
  PROVE  /\ Rewritten(j)
         /\ \A i \in DOMAIN jobs : jobs[i].id = j => jobs'[i].status = "processing"
<1>1. \A i \in DOMAIN jobs : jobs[i] \in JobStatus BY DEF JobsTyped
<1>2. \A e \in JobStatus :
        LET c == [e EXCEPT !.status = "processing", !.total_frames = total]
        IN  c \in JobStatus /\ c.id = e.id /\ c.status = "processing"
  BY DEF JobStatus
<1>3. /\ Processing(total) \in [DOMAIN jobs -> JobStatus]
      /\ \A i \in DOMAIN jobs : /\ Processing(total)[i].id = jobs[i].id
                               /\ Processing(total)[i].status = "processing"
  BY <1>1, <1>2 DEF Processing
<1>4. Update(j, Processing(total)) BY DEF MarkProcessing
<1> QED BY <1>3, <1>4, WriterKeepsIds DEF Update

LEMMA IncrementProgressStep ==
  ASSUME JobsTyped, NEW j \in Job, IncrementProgress(j)
  PROVE  /\ Rewritten(j)
         /\ \A i \in DOMAIN jobs : jobs[i].id = j => jobs'[i].status = jobs[i].status
<1>1. \A i \in DOMAIN jobs : jobs[i] \in JobStatus BY DEF JobsTyped
<1>2. ASSUME NEW e \in JobStatus
      PROVE  OneMore(e) \in JobStatus /\ OneMore(e).id = e.id /\ OneMore(e).status = e.status
  <2> DEFINE n == e.processed_frames + 1
             pct == IF e.total_frames = 0 THEN e.progress_pct ELSE Percentage(n, e.total_frames)
  <2>1. /\ n \in Nat /\ e.total_frames \in Nat /\ e.progress_pct \in Nat
    BY DEF JobStatus
  <2>2. pct \in Nat
    <3>1. CASE e.total_frames = 0 BY <2>1, <3>1
    <3>2. CASE e.total_frames # 0
      <4>1. 2000 * n + e.total_frames \in Nat /\ 2 * e.total_frames \in Nat \ {0}
        BY <2>1, <3>2
      <4>2. \A a \in Nat, b \in Nat \ {0} : a \div b \in Nat OBVIOUS
      <4>3. Percentage(n, e.total_frames) \in Nat BY <4>1, <4>2 DEF Percentage
      <4> QED BY <3>2, <4>3
    <3> QED BY <3>1, <3>2
  <2>3. OneMore(e) = [e EXCEPT !.processed_frames = n, !.progress_pct = pct] BY DEF OneMore
  <2> HIDE DEF n, pct
  <2> QED BY <2>1, <2>2, <2>3 DEF JobStatus
<1> DEFINE new == [i \in DOMAIN jobs |-> OneMore(jobs[i])]
<1>3. Update(j, new) BY DEF IncrementProgress
<1>4. /\ new \in [DOMAIN jobs -> JobStatus]
      /\ \A i \in DOMAIN jobs : new[i].id = jobs[i].id /\ new[i].status = jobs[i].status
  BY <1>1, <1>2
<1> HIDE DEF new
<1> QED BY <1>3, <1>4, WriterKeepsIds DEF Update

LEMMA MarkCompletedStep ==
  ASSUME JobsTyped, NEW j \in Job, MarkCompleted(j)
  PROVE  /\ Rewritten(j)
         /\ \A i \in DOMAIN jobs : jobs[i].id = j => jobs'[i].status = "completed"
<1> DEFINE full == 1000
<1>1. \A i \in DOMAIN jobs : jobs[i] \in JobStatus BY DEF JobsTyped
<1>2. Completed = [i \in DOMAIN jobs |->
                     [jobs[i] EXCEPT !.status = "completed", !.progress_pct = full]]
  BY DEF Completed
<1>3. full \in Nat OBVIOUS
<1> HIDE DEF full
<1>4. \A e \in JobStatus :
        LET c == [e EXCEPT !.status = "completed", !.progress_pct = full]
        IN  c \in JobStatus /\ c.id = e.id /\ c.status = "completed"
  BY <1>3 DEF JobStatus
<1>5. /\ Completed \in [DOMAIN jobs -> JobStatus]
      /\ \A i \in DOMAIN jobs : /\ Completed[i].id = jobs[i].id
                               /\ Completed[i].status = "completed"
  BY <1>1, <1>2, <1>4
<1>6. Update(j, Completed) BY DEF MarkCompleted
<1> QED BY <1>5, <1>6, WriterKeepsIds DEF Update

LEMMA MarkFailedStep ==
  ASSUME JobsTyped, NEW j \in Job, MarkFailed(j)
  PROVE  /\ Rewritten(j)
         /\ \A i \in DOMAIN jobs : jobs[i].id = j => jobs'[i].status = "failed"
<1>1. \A i \in DOMAIN jobs : jobs[i] \in JobStatus BY DEF JobsTyped
<1>2. \A e \in JobStatus : LET c == [e EXCEPT !.status = "failed"]
                           IN  c \in JobStatus /\ c.id = e.id /\ c.status = "failed"
  BY DEF JobStatus
<1>3. /\ Failed \in [DOMAIN jobs -> JobStatus]
      /\ \A i \in DOMAIN jobs : Failed[i].id = jobs[i].id /\ Failed[i].status = "failed"
  BY <1>1, <1>2 DEF Failed
<1>4. Update(j, Failed) BY DEF MarkFailed
<1> QED BY <1>3, <1>4, WriterKeepsIds DEF Update

\* A new job's entry comes last, and the oldest one of a full table goes out.
LEMMA CreateStep ==
  ASSUME JobsTyped, NEW j \in Job, Create(j)
  PROVE  /\ jobs' \in Seq(JobStatus) /\ Len(jobs') <= MAX_JOBS
         /\ \A i \in DOMAIN jobs' : \/ \E k \in DOMAIN jobs : jobs'[i] = jobs[k]
                                    \/ jobs'[i].id = j /\ jobs'[i].status = "queued"
<1> DEFINE entry == [ id |-> j, status |-> "queued", total_frames |-> 0,
                      processed_frames |-> 0, progress_pct |-> 0 ]
           rest == IF TableFull THEN Tail(jobs) ELSE jobs
<1>1. jobs \in Seq(JobStatus) /\ Len(jobs) <= MAX_JOBS /\ MAX_JOBS \in Nat \ {0}
  BY JobPipelineAssumption DEF JobsTyped
<1>2. entry \in JobStatus /\ entry.id = j /\ entry.status = "queued" BY DEF JobStatus
<1>3. /\ rest \in Seq(JobStatus) /\ Len(rest) < MAX_JOBS
      /\ \A i \in DOMAIN rest : \E k \in DOMAIN jobs : rest[i] = jobs[k]
  <2>1. CASE TableFull
    <3>1. Len(jobs) \in Nat \ {0} BY <1>1, <2>1 DEF TableFull
    <3>2. /\ rest \in Seq(JobStatus) /\ Len(rest) = Len(jobs) - 1
          /\ \A i \in 1 .. Len(rest) : rest[i] = jobs[i + 1] /\ i + 1 \in DOMAIN jobs
      BY <1>1, <2>1, <3>1
    <3>3. DOMAIN rest = 1 .. Len(rest) BY <3>2
    <3> HIDE DEF rest
    <3>4. \A i \in DOMAIN rest : \E k \in DOMAIN jobs : rest[i] = jobs[k] BY <3>2, <3>3
    <3> QED BY <1>1, <3>1, <3>2, <3>4
  <2>2. CASE ~TableFull BY <1>1, <2>2 DEF TableFull
  <2> QED BY <2>1, <2>2
<1>4. jobs' = Append(rest, entry) BY DEF Create
<1> HIDE DEF rest, entry
<1>5. /\ jobs' \in Seq(JobStatus) /\ Len(jobs') = Len(rest) + 1 /\ Len(rest) \in Nat
      /\ DOMAIN jobs' = 1 .. (Len(rest) + 1) /\ DOMAIN rest = 1 .. Len(rest)
      /\ jobs'[Len(rest) + 1] = entry /\ \A i \in 1 .. Len(rest) : jobs'[i] = rest[i]
  BY <1>2, <1>3, <1>4
<1>6. ASSUME NEW i \in DOMAIN jobs'
      PROVE  \/ \E k \in DOMAIN jobs : jobs'[i] = jobs[k]
             \/ jobs'[i].id = j /\ jobs'[i].status = "queued"
  <2>1. CASE i = Len(rest) + 1 BY <1>2, <1>5, <2>1
  <2>2. CASE i # Len(rest) + 1
    <3>1. i \in 1 .. Len(rest) BY <1>5, <2>2
    <3>2. jobs'[i] = rest[i] /\ i \in DOMAIN rest BY <1>5, <3>1
    <3> QED BY <1>3, <3>2
  <2> QED BY <2>1, <2>2
<1>7. Len(rest) + 1 <= MAX_JOBS
  <2>1. Len(rest) \in Nat /\ MAX_JOBS \in Nat /\ Len(rest) < MAX_JOBS BY <1>1, <1>3, <1>5
  <2> QED BY <2>1
<1>8. Len(jobs') <= MAX_JOBS BY <1>5, <1>7
<1> QED BY <1>5, <1>6, <1>8

-----------------------------------------------------------------------------
\* The steps.

LEMMA InitJobs == Init => JobInv
<1> SUFFICES ASSUME Init PROVE JobInv
  OBVIOUS
<1>1. MAX_JOBS \in Nat \ {0} /\ MAX_SAMPLES \in Nat \ {0} BY JobPipelineAssumption
<1>2. JobsTyped BY <1>1 DEF Init, JobsTyped, File, Place
<1>3. Settled BY DEF Init, Settled
<1>4. Capped BY <1>1 DEF Init, Capped
<1> QED BY <1>2, <1>3, <1>4 DEF JobInv

LEMMA SamplesCapped ==
  ASSUME NEW v \in File
  PROVE  Samples(v) \in Nat /\ Samples(v) <= MAX_SAMPLES
<1> DEFINE u == (v.frames + STEP - 1) \div STEP
<1>1. v.frames \in Nat /\ STEP \in Nat \ {0} /\ MAX_SAMPLES \in Nat \ {0}
  BY JobPipelineAssumption DEF File
<1>2. \A a \in Nat, b \in Nat \ {0} : a \div b \in Nat OBVIOUS
<1>3. v.frames + STEP - 1 \in Nat BY <1>1
<1>4. u \in Nat BY <1>1, <1>2, <1>3
<1>5. Samples(v) = IF MAX_SAMPLES < u THEN MAX_SAMPLES ELSE u BY DEF Samples, Least
<1> HIDE DEF u
<1> QED BY <1>1, <1>4, <1>5

LEMMA EstimateType ==
  ASSUME NEW v \in File
  PROVE  Estimate(v) \in Nat
<1> DEFINE d == v.header \div STEP
<1>1. v.header \in Nat /\ STEP \in Nat \ {0} /\ MAX_SAMPLES \in Nat \ {0}
  BY JobPipelineAssumption DEF File
<1>2. \A a \in Nat, b \in Nat \ {0} : a \div b \in Nat OBVIOUS
<1>3. d \in Nat BY <1>1, <1>2
<1>4. Estimate(v) \in {MAX_SAMPLES, AtLeastOne(d)} BY DEF Estimate, Least
<1> HIDE DEF d
<1> QED BY <1>1, <1>3, <1>4 DEF AtLeastOne

\* A step of job j's thread: it rewrites j's entry so that it fits the thread's new place.
LEMMA ThreadSettles ==
  ASSUME JobInv, NEW j \in Job, UNCHANGED video, Rewritten(j),
         pc[j] # "none", NEW next \in Place \ {"none"}, pc' = [pc EXCEPT ![j] = next],
         NEW n \in Nat, taken' = [taken EXCEPT ![j] = n],
         n <= MAX_SAMPLES, next = "enqueue" => n < MAX_SAMPLES,
         \A i \in DOMAIN jobs :
           jobs[i].id = j => (jobs'[i].status \in {"completed", "failed"}
                                <=> next \in {"report", "done"})
  PROVE  JobInv'
<1>1. JobsTyped /\ Settled /\ Capped BY DEF JobInv
<1>2. JobsTyped' BY <1>1 DEF JobsTyped, Rewritten
<1>3. pc'[j] = next /\ taken'[j] = n /\ \A k \in Job \ {j} : pc'[k] = pc[k] /\ taken'[k] = taken[k]
  BY <1>1 DEF JobsTyped
<1>4. Capped' BY <1>1, <1>3 DEF Capped
<1>5. ASSUME NEW i \in DOMAIN jobs'
      PROVE  /\ pc'[jobs'[i].id] # "none"
             /\ jobs'[i].status \in {"completed", "failed"}
                  <=> pc'[jobs'[i].id] \in {"report", "done"}
  <2>1. /\ i \in DOMAIN jobs /\ jobs'[i].id = jobs[i].id
        /\ jobs[i].id # j => jobs'[i] = jobs[i]
    BY DEF Rewritten
  <2>2. jobs[i].id \in Job
    <3>1. jobs[i] \in JobStatus BY <1>1, <2>1 DEF JobsTyped
    <3> QED BY <3>1 DEF JobStatus
  <2>3. CASE jobs[i].id = j BY <1>3, <2>1, <2>3
  <2>4. CASE jobs[i].id # j BY <1>1, <1>3, <2>1, <2>2, <2>4 DEF Settled
  <2> QED BY <2>3, <2>4
<1>6. Settled' BY <1>5 DEF Settled
<1> QED BY <1>2, <1>4, <1>6 DEF JobInv

LEMMA SameRewritten == ASSUME JobsTyped, UNCHANGED jobs, NEW j \in Job PROVE Rewritten(j)
BY DEF JobsTyped, Rewritten

\* A step of job j's thread that leaves the table alone and does not settle the job.
LEMMA MoveSettles ==
  ASSUME JobInv, NEW j \in Job, UNCHANGED <<jobs, video>>,
         pc[j] # "none", NEW next \in Place \ {"none"}, pc' = [pc EXCEPT ![j] = next],
         NEW n \in Nat, taken' = [taken EXCEPT ![j] = n],
         n <= MAX_SAMPLES, next = "enqueue" => n < MAX_SAMPLES,
         pc[j] \in {"report", "done"} <=> next \in {"report", "done"}
  PROVE  JobInv'
<1>1. Rewritten(j) BY SameRewritten DEF JobInv
<1>2. \A i \in DOMAIN jobs :
        jobs[i].id = j => (jobs'[i].status \in {"completed", "failed"}
                             <=> next \in {"report", "done"})
  BY DEF JobInv, Settled
<1> QED BY <1>1, <1>2, ThreadSettles

\* Nothing of the invariant changes.
LEMMA SameJobs == ASSUME JobInv, UNCHANGED <<jobs, video, pc, taken>> PROVE JobInv'
BY DEF JobInv, JobsTyped, Settled, Capped

LEMMA UploadSettles ==
  ASSUME JobInv, NEW j \in Job, Upload(j)
  PROVE  JobInv'
<1>1. JobsTyped /\ Settled /\ Capped BY DEF JobInv
<1>2. /\ pc[j] = "none" /\ pc' = [pc EXCEPT ![j] = "submitted"] /\ taken' = taken
      /\ "submitted" \in Place
  BY DEF Upload, Place
<1>3. PICK v \in Videos : video' = [video EXCEPT ![j] = v] BY DEF Upload
<1>4. v \in File BY JobPipelineAssumption DEF File
<1>5. /\ jobs' \in Seq(JobStatus) /\ Len(jobs') <= MAX_JOBS
      /\ \A i \in DOMAIN jobs' : \/ \E k \in DOMAIN jobs : jobs'[i] = jobs[k]
                                 \/ jobs'[i].id = j /\ jobs'[i].status = "queued"
  BY <1>1, CreateStep DEF Upload
<1>6. JobsTyped' BY <1>1, <1>2, <1>3, <1>4, <1>5 DEF JobsTyped
<1>7. pc'[j] = "submitted" /\ \A k \in Job \ {j} : pc'[k] = pc[k] BY <1>1, <1>2 DEF JobsTyped
<1>8. Capped' BY <1>1, <1>2, <1>7 DEF Capped
<1>9. ASSUME NEW i \in DOMAIN jobs'
      PROVE  /\ pc'[jobs'[i].id] # "none"
             /\ jobs'[i].status \in {"completed", "failed"}
                  <=> pc'[jobs'[i].id] \in {"report", "done"}
  <2>1. CASE jobs'[i].id = j /\ jobs'[i].status = "queued" BY <1>7, <2>1
  <2>2. ASSUME NEW k \in DOMAIN jobs, jobs'[i] = jobs[k]
        PROVE  /\ pc'[jobs'[i].id] # "none"
               /\ jobs'[i].status \in {"completed", "failed"}
                    <=> pc'[jobs'[i].id] \in {"report", "done"}
    <3>0. jobs[k] \in JobStatus BY <1>1 DEF JobsTyped
    <3>1. jobs[k].id \in Job /\ pc[jobs[k].id] # "none" BY <1>1, <3>0 DEF JobStatus, Settled
    <3>2. pc'[jobs[k].id] = pc[jobs[k].id] BY <1>2, <1>7, <3>1
    <3> QED BY <1>1, <2>2, <3>1, <3>2 DEF Settled
  <2> QED BY <1>5, <2>1, <2>2
<1> QED BY <1>6, <1>8, <1>9 DEF JobInv, Settled

\* What JobInv gives for the job that moves.
LEMMA Facts ==
  ASSUME JobInv, NEW j \in Job
  PROVE  /\ JobsTyped /\ video[j] \in File /\ taken[j] \in Nat /\ taken[j] <= MAX_SAMPLES
         /\ pc[j] = "enqueue" => taken[j] < MAX_SAMPLES
         /\ pc = [pc EXCEPT ![j] = pc[j]] /\ taken = [taken EXCEPT ![j] = taken[j]]
         /\ Samples(video[j]) \in Nat /\ Samples(video[j]) <= MAX_SAMPLES
         /\ Estimate(video[j]) \in Nat /\ MAX_SAMPLES \in Nat
<1>1. video[j] \in File BY DEF JobInv, JobsTyped
<1> QED BY <1>1, SamplesCapped, EstimateType, JobPipelineAssumption DEF JobInv, JobsTyped, Capped

LEMMA SampleSettles ==
  ASSUME JobInv, NEW j \in Job, SkipSample(j) \/ Enqueue(j) \/ EnqueueReturns(j)
  PROVE  JobInv'
<1>1. taken[j] + 1 \in Nat BY Facts
<1>2. {"sampling", "enqueue"} \subseteq Place \ {"none"} BY DEF Place
<1>3. CASE SkipSample(j)
  <2>1. /\ UNCHANGED <<jobs, video>> /\ pc[j] = "sampling" /\ pc' = [pc EXCEPT ![j] = "sampling"]
        /\ taken' = [taken EXCEPT ![j] = taken[j] + 1]
    BY <1>3, Facts DEF SkipSample
  <2>2. taken[j] + 1 <= MAX_SAMPLES BY <1>3, Facts DEF SkipSample
  <2> QED BY <1>1, <1>2, <2>1, <2>2, MoveSettles
<1>4. CASE Enqueue(j)
  <2>1. /\ UNCHANGED <<jobs, video>> /\ pc[j] = "sampling" /\ pc' = [pc EXCEPT ![j] = "enqueue"]
        /\ taken' = [taken EXCEPT ![j] = taken[j]]
    BY <1>4, Facts DEF Enqueue, At
  <2>2. taken[j] < MAX_SAMPLES /\ taken[j] <= MAX_SAMPLES /\ taken[j] \in Nat
    BY <1>4, Facts DEF Enqueue
  <2> QED BY <1>2, <2>1, <2>2, MoveSettles
<1>5. CASE EnqueueReturns(j)
  <2>1. PICK next \in Place \ {"none"} : next = "sampling" BY <1>2
  <2>2. PICK n \in Nat : n = taken[j] + 1 BY <1>1
  <2>3. /\ UNCHANGED video /\ pc[j] = "enqueue" /\ pc' = [pc EXCEPT ![j] = next]
        /\ taken' = [taken EXCEPT ![j] = n]
    BY <1>5, <2>1, <2>2 DEF EnqueueReturns, At
  <2>4. n <= MAX_SAMPLES BY <2>2, <2>3, Facts
  <2>5. /\ Rewritten(j)
        /\ \A i \in DOMAIN jobs : jobs[i].id = j => jobs'[i].status = jobs[i].status
    BY <1>5, Facts, IncrementProgressStep, SameRewritten DEF EnqueueReturns
  <2>6. \A i \in DOMAIN jobs : jobs[i].id = j => jobs[i].status \notin {"completed", "failed"}
    BY <2>3 DEF JobInv, Settled
  <2>7. /\ \A i \in DOMAIN jobs : jobs[i].id = j => (jobs'[i].status \in {"completed", "failed"}
                                                   <=> next \in {"report", "done"})
        /\ next # "enqueue" /\ pc[j] # "none"
    BY <2>1, <2>3, <2>5, <2>6
  <2> QED BY <2>3, <2>4, <2>5, <2>7, ThreadSettles
<1> QED BY <1>3, <1>4, <1>5

LEMMA TotalSettles ==
  ASSUME JobInv, NEW j \in Job, Probe(j) \/ FinishSampling(j)
  PROVE  JobInv'
<1>1. PICK total \in Nat : MarkProcessing(j, total)
  BY Facts DEF Probe, FinishSampling
<1>2. PICK next \in {"sampling", "complete"} : pc' = [pc EXCEPT ![j] = next]
  BY DEF Probe, FinishSampling, At
<1>3. /\ UNCHANGED video /\ pc[j] # "none" /\ taken' = [taken EXCEPT ![j] = taken[j]]
      /\ taken[j] \in Nat /\ taken[j] <= MAX_SAMPLES /\ next \in Place \ {"none"}
  BY Facts DEF Probe, FinishSampling, At, Place
<1>4. /\ Rewritten(j)
      /\ \A i \in DOMAIN jobs : jobs[i].id = j => jobs'[i].status = "processing"
  BY <1>1, Facts, MarkProcessingStep
<1> QED BY <1>2, <1>3, <1>4, ThreadSettles

\* The steps that settle a job.
LEMMA CompleteSettles ==
  ASSUME JobInv, NEW j \in Job, Complete(j) \/ (At(j, "fallback", "done") /\ MarkFailed(j)
                                              /\ UNCHANGED <<video, taken>>)
  PROVE  JobInv'
<1>1. PICK next \in {"report", "done"} : pc' = [pc EXCEPT ![j] = next] BY DEF Complete, At
<1>2. /\ UNCHANGED video /\ pc[j] # "none" /\ taken' = [taken EXCEPT ![j] = taken[j]]
      /\ taken[j] \in Nat /\ taken[j] <= MAX_SAMPLES /\ next \in Place \ {"none"}
  BY Facts DEF Complete, At, Place
<1>3. /\ Rewritten(j)
      /\ \A i \in DOMAIN jobs : jobs[i].id = j => jobs'[i].status \in {"completed", "failed"}
  BY Facts, MarkCompletedStep, MarkFailedStep DEF Complete
<1> QED BY <1>1, <1>2, <1>3, ThreadSettles

LEMMA NextJobs == JobInv /\ [Next]_vars => JobInv'
<1> SUFFICES ASSUME JobInv, [Next]_vars PROVE JobInv'
  OBVIOUS
<1>1. CASE UNCHANGED vars BY <1>1, SameJobs DEF vars
<1>2. ASSUME NEW j \in Job, Upload(j) PROVE JobInv' BY <1>2, UploadSettles
<1>3. ASSUME NEW j \in Job, Thread(j) PROVE JobInv'
  <2>1. CASE Start(j) \/ Raise(j) \/ (At(j, "fallback", "complete") /\ UNCHANGED <<jobs, video, taken>>)
             \/ Report(j)
    <3>1. PICK next \in {"probe", "fallback", "complete", "done"} :
            /\ pc' = [pc EXCEPT ![j] = next] /\ pc[j] # "none"
            /\ pc[j] \in {"report", "done"} <=> next \in {"report", "done"}
      BY <2>1 DEF Start, Raise, Report, At
    <3>2. /\ UNCHANGED <<jobs, video>> /\ taken' = [taken EXCEPT ![j] = taken[j]]
          /\ taken[j] \in Nat /\ taken[j] <= MAX_SAMPLES /\ next \in Place \ {"none"}
      BY <2>1, Facts DEF Start, Raise, Report, At, Place
    <3> QED BY <3>1, <3>2, MoveSettles
  <2>2. CASE Probe(j) \/ FinishSampling(j) BY <2>2, TotalSettles
  <2>3. CASE SkipSample(j) \/ Enqueue(j) \/ EnqueueReturns(j) BY <2>3, SampleSettles
  <2>4. CASE Complete(j) BY <2>4, CompleteSettles
  <2>5. CASE Fallback(j) BY <2>1, <2>5, CompleteSettles DEF Fallback
  <2> QED BY <1>3, <2>1, <2>2, <2>3, <2>4, <2>5 DEF Thread
<1>4. ASSUME NEW f \in Frame, Deliver(f) \/ Forget(f) PROVE JobInv'
  BY <1>4, SameJobs DEF Deliver, Forget
<1> QED BY <1>1, <1>2, <1>3, <1>4 DEF Next

LEMMA JobInvariant == Spec => []JobInv
BY InitJobs, NextJobs, PTL DEF Spec

\* A job's shown status is terminal exactly when its thread has settled it, for every
\* number of jobs, videos, pool threads and table entries (video_routes.py:112-133).
THEOREM StatusSettled == Spec => []ShownIsSettled
<1>1. JobInv => ShownIsSettled BY DEF JobInv, Settled, ShownIsSettled
<1> QED BY <1>1, JobInvariant, PTL

LEMMA ThreadKeepsIds ==
  ASSUME JobInv, NEW j \in Job, Thread(j)
  PROVE  Rewritten(j)
<1>1. CASE UNCHANGED jobs BY <1>1, Facts, SameRewritten
<1>2. CASE Probe(j) \/ FinishSampling(j)
  <2>1. PICK total \in Nat : MarkProcessing(j, total)
    BY <1>2, Facts DEF Probe, FinishSampling
  <2> QED BY <2>1, Facts, MarkProcessingStep
<1>3. CASE EnqueueReturns(j)
  BY <1>1, <1>3, Facts, IncrementProgressStep DEF EnqueueReturns
<1>4. CASE Fallback(j) BY <1>1, <1>4, Facts, MarkFailedStep DEF Fallback
<1>5. CASE Complete(j) BY <1>5, Facts, MarkCompletedStep DEF Complete
<1>6. CASE Start(j) \/ SkipSample(j) \/ Enqueue(j) \/ Raise(j) \/ Report(j)
  BY <1>1, <1>6 DEF Start, SkipSample, Enqueue, Raise, Report
<1> QED BY <1>2, <1>3, <1>4, <1>5, <1>6 DEF Thread

\* For any table size, a job the full table evicted is not put back by any writer, also
\* while its own thread still runs (JobTracker, job_tracker.py:36-38, 41-72).
THEOREM EvictedOut == Spec => EvictedStaysOut
<1> DEFINE Out == \A j \in Job : pc[j] # "none" /\ j \notin Tracked => j \notin Tracked'
<1>1. JobInv /\ [Next]_vars => [Out]_vars
  <2> SUFFICES ASSUME JobInv, Next, NEW j \in Job, pc[j] # "none", j \notin Tracked
               PROVE  j \notin Tracked'
    OBVIOUS
  <2>1. \A i \in DOMAIN jobs : jobs[i].id # j BY DEF Tracked
  <2>2. ASSUME NEW k \in Job, Upload(k) PROVE \A i \in DOMAIN jobs' : jobs'[i].id # j
    <3>1. k # j /\ Create(k) BY <2>2 DEF Upload
    <3> QED BY <2>1, <3>1, CreateStep DEF JobInv
  <2>3. ASSUME NEW k \in Job, Thread(k) PROVE \A i \in DOMAIN jobs' : jobs'[i].id # j
    BY <2>1, <2>3, ThreadKeepsIds DEF Rewritten
  <2>4. ASSUME NEW f \in Frame, Deliver(f) \/ Forget(f)
        PROVE  \A i \in DOMAIN jobs' : jobs'[i].id # j
    BY <2>1, <2>4 DEF Deliver, Forget
  <2>5. \A i \in DOMAIN jobs' : jobs'[i].id # j BY <2>2, <2>3, <2>4 DEF Next
  <2> QED BY <2>5 DEF Tracked
<1> QED BY <1>1, JobInvariant, PTL DEF Spec, EvictedStaysOut

-----------------------------------------------------------------------------
\* What a job reports.

\* The detections of class l in a set of them.
Class(D, l) == {d \in D : d.label = l}

\* While a job runs, its snapshot covers all that is stored and not fresh.
Fresh(j) ==
  \A l \in Label :
    /\ Running(j) => Cardinality(Class(stored \ fresh[j], l)) <= before[j][l]
    /\ reported[j][l] <= Cardinality(Class(fresh[j], l))

ReportTyped ==
  /\ queue \in Seq(Job)
  /\ before \in [Job -> [Label -> Nat]] /\ reported \in [Job -> [Label -> Nat]]
  /\ handed \subseteq Frame
  /\ stored \subseteq Detection /\ fresh \in [Job -> SUBSET Detection]

ReportInv == ReportTyped /\ \A j \in Job : Fresh(j)

LEMMA DetectionFinite == IsFiniteSet(Detection)
<1>1. IsFiniteSet(Job) /\ IsFiniteSet(Label) /\ MaxObjects \in Nat /\ MAX_SAMPLES \in Nat
  BY JobPipelineAssumption
<1>2. IsFiniteSet(0 .. MAX_SAMPLES - 1) /\ IsFiniteSet(1 .. MaxObjects) BY <1>1, FS_Interval
<1>3. IsFiniteSet(Frame) BY <1>1, <1>2, FS_Product DEF Frame
<1>4. IsFiniteSet(Frame \X Label) BY <1>1, <1>3, FS_Product
<1> DEFINE Triple == (Frame \X Label) \X (1 .. MaxObjects)
           coded == [d \in Detection |-> <<<<d.frame, d.label>>, d.nth>>]
<1>5. IsFiniteSet(Triple) BY <1>2, <1>4, FS_Product
<1>6. coded \in Injection(Detection, Triple)
  <2>1. coded \in [Detection -> Triple] BY DEF Detection
  <2>2. ASSUME NEW c \in Detection, NEW d \in Detection, coded[c] = coded[d] PROVE c = d
    <3>1. c.frame = d.frame /\ c.label = d.label /\ c.nth = d.nth BY <2>2
    <3> QED BY <3>1 DEF Detection
  <2> HIDE DEF coded, Triple
  <2> QED BY <2>1, <2>2 DEF Injection, IsInjective
<1> HIDE DEF coded, Triple
<1> QED BY <1>5, <1>6, FS_Injection

\* Sets of detections are finite, and a smaller one counts no more.
LEMMA ClassCount ==
  ASSUME NEW C \in SUBSET Detection, NEW D \in SUBSET Detection, C \subseteq D, NEW l \in Label
  PROVE  /\ Cardinality(Class(C, l)) \in Nat /\ Cardinality(Class(D, l)) \in Nat
         /\ Cardinality(Class(C, l)) <= Cardinality(Class(D, l))
<1>1. Class(D, l) \in SUBSET Detection /\ Class(C, l) \in SUBSET Class(D, l) BY DEF Class
<1>2. IsFiniteSet(Class(D, l)) BY <1>1, DetectionFinite, FS_Subset
<1>3. IsFiniteSet(Class(C, l)) /\ Cardinality(Class(C, l)) <= Cardinality(Class(D, l))
  BY <1>1, <1>2, FS_Subset
<1> QED BY <1>2, <1>3, FS_CardinalityType

\* What is stored is counted by the snapshot or fresh, so the rise is fresh.
LEMMA RiseIsFresh ==
  ASSUME ReportTyped, NEW j \in Job, NEW l \in Label,
         Cardinality(Class(stored \ fresh[j], l)) <= before[j][l]
  PROVE  Excess(Counts[l], before[j][l]) \in Nat
         /\ Excess(Counts[l], before[j][l]) <= Cardinality(Class(fresh[j], l))
<1> DEFINE old == Class(stored \ fresh[j], l)
           new == Class(fresh[j], l)
           all == Class(stored, l)
<1>1. stored \in SUBSET Detection /\ fresh[j] \in SUBSET Detection /\ before[j][l] \in Nat
  BY DEF ReportTyped
<1>2. IsFiniteSet(old) /\ IsFiniteSet(new) /\ IsFiniteSet(all)
  <2>1. old \in SUBSET Detection /\ new \in SUBSET Detection /\ all \in SUBSET Detection
    BY <1>1 DEF Class
  <2> HIDE DEF old, new, all
  <2> QED BY <2>1, DetectionFinite, FS_Subset
<1>3. all \in SUBSET (old \cup new) BY DEF Class
<1>4. Counts[l] = Cardinality(all) BY DEF Counts, Of, Class
<1> HIDE DEF old, new, all
<1>5. /\ Cardinality(old) \in Nat /\ Cardinality(new) \in Nat /\ Cardinality(all) \in Nat
      /\ IsFiniteSet(old \cup new) /\ Cardinality(old \cap new) \in Nat
      /\ Cardinality(old \cup new) = Cardinality(old) + Cardinality(new) - Cardinality(old \cap new)
  <2>1. IsFiniteSet(old \cap new) BY <1>2, FS_Subset
  <2> QED BY <1>2, <2>1, FS_CardinalityType, FS_Union
<1>6. Cardinality(all) <= Cardinality(old \cup new) BY <1>3, <1>5, FS_Subset
<1>7. Cardinality(old) <= before[j][l] BY DEF old
<1> QED BY <1>1, <1>4, <1>5, <1>6, <1>7 DEF Excess, new

LEMMA InitReports == Init => ReportInv
<1> SUFFICES ASSUME Init PROVE ReportInv
  OBVIOUS
<1>1. ReportTyped BY DEF Init, ReportTyped, NoCounts
<1>2. ASSUME NEW j \in Job, NEW l \in Label
      PROVE  /\ Running(j) => Cardinality(Class(stored \ fresh[j], l)) <= before[j][l]
             /\ reported[j][l] <= Cardinality(Class(fresh[j], l))
  <2>1. ~Running(j) BY DEF Init, Running
  <2>2. reported[j][l] = 0 BY DEF Init, NoCounts
  <2>3. fresh[j] \in SUBSET Detection BY <1>1 DEF ReportTyped
  <2>4. Cardinality(Class(fresh[j], l)) \in Nat BY <2>3, ClassCount
  <2> QED BY <2>1, <2>2, <2>4
<1> QED BY <1>1, <1>2 DEF ReportInv, Fresh

\* A job whose snapshot and report stay: what is stored and not fresh only shrinks.
LEMMA FreshKept ==
  ASSUME ReportInv, ReportTyped', NEW k \in Job,
         before'[k] = before[k], reported'[k] = reported[k], Running(k)' => Running(k),
         fresh[k] \subseteq fresh'[k], (stored \ fresh[k])' \subseteq stored \ fresh[k]
  PROVE  Fresh(k)'
<1> SUFFICES ASSUME NEW l \in Label
             PROVE  /\ Running(k)' => Cardinality(Class((stored \ fresh[k])', l)) <= before[k][l]
                    /\ reported[k][l] <= Cardinality(Class(fresh'[k], l))
  BY DEF Fresh, Class
<1>1. /\ Running(k) => Cardinality(Class(stored \ fresh[k], l)) <= before[k][l]
      /\ reported[k][l] <= Cardinality(Class(fresh[k], l))
      /\ before[k][l] \in Nat /\ reported[k][l] \in Nat
  BY DEF ReportInv, ReportTyped, Fresh
<1>2. /\ stored \ fresh[k] \in SUBSET Detection /\ (stored \ fresh[k])' \in SUBSET Detection
      /\ fresh[k] \in SUBSET Detection /\ fresh'[k] \in SUBSET Detection
  BY DEF ReportInv, ReportTyped
<1>3. /\ Cardinality(Class((stored \ fresh[k])', l)) \in Nat
      /\ Cardinality(Class(stored \ fresh[k], l)) \in Nat
      /\ Cardinality(Class((stored \ fresh[k])', l)) <= Cardinality(Class(stored \ fresh[k], l))
  BY <1>2, ClassCount
<1>4. /\ Cardinality(Class(fresh[k], l)) \in Nat /\ Cardinality(Class(fresh'[k], l)) \in Nat
      /\ Cardinality(Class(fresh[k], l)) <= Cardinality(Class(fresh'[k], l))
  BY <1>2, ClassCount
<1> HIDE DEF Class
<1> QED BY <1>1, <1>3, <1>4

\* The thread takes its snapshot.
LEMMA StartReports ==
  ASSUME JobInv, ReportInv, NEW j \in Job, Start(j)
  PROVE  ReportInv'
<1>1. ReportTyped /\ pc \in [Job -> Place] BY DEF ReportInv, JobInv, JobsTyped
<1>2. /\ queue' = Tail(queue) /\ queue # <<>> /\ pc' = [pc EXCEPT ![j] = "probe"]
      /\ before' = [before EXCEPT ![j] = Counts]
      /\ UNCHANGED <<reported, handed, stored, fresh>>
  BY DEF Start, At, Snapshot, results
<1>3. \A l \in Label : /\ Counts[l] = Cardinality(Class(stored, l)) /\ Counts[l] \in Nat
                       /\ Cardinality(Class(stored \ fresh[j], l)) <= Counts[l]
                       /\ Cardinality(Class(stored \ fresh[j], l)) \in Nat
  <2> SUFFICES ASSUME NEW l \in Label
               PROVE  /\ Counts[l] = Cardinality(Class(stored, l)) /\ Counts[l] \in Nat
                      /\ Cardinality(Class(stored \ fresh[j], l)) <= Counts[l]
                      /\ Cardinality(Class(stored \ fresh[j], l)) \in Nat
    OBVIOUS
  <2>1. Counts[l] = Cardinality(Class(stored, l)) BY DEF Counts, Of, Class
  <2>2. /\ stored \in SUBSET Detection /\ stored \ fresh[j] \in SUBSET Detection
        /\ stored \ fresh[j] \subseteq stored
    BY <1>1 DEF ReportTyped
  <2> QED BY <2>1, <2>2, ClassCount
<1>4. Counts \in [Label -> Nat] BY <1>3 DEF Counts
<1>5. ReportTyped'
  <2>1. queue' \in Seq(Job) BY <1>1, <1>2 DEF ReportTyped
  <2> QED BY <1>1, <1>2, <1>4, <2>1 DEF ReportTyped
<1>6. ASSUME NEW k \in Job \ {j} PROVE Fresh(k)'
  <2>1. /\ before'[k] = before[k] /\ reported'[k] = reported[k]
        /\ Running(k)' => Running(k)
        /\ fresh[k] \subseteq fresh'[k] /\ (stored \ fresh[k])' \subseteq stored \ fresh[k]
    BY <1>1, <1>2 DEF ReportTyped, Running
  <2>2. k \in Job OBVIOUS
  <2> QED BY <1>5, <2>1, <2>2, FreshKept
<1>7. Fresh(j)'
  <2>1. before'[j] = Counts BY <1>1, <1>2 DEF ReportTyped
  <2>2. \A l \in Label : reported[j][l] <= Cardinality(Class(fresh[j], l))
    BY DEF ReportInv, Fresh
  <2> QED BY <1>2, <1>3, <2>1, <2>2 DEF Fresh, Class
<1> QED BY <1>5, <1>6, <1>7 DEF ReportInv

LEMMA ReportReports ==
  ASSUME JobInv, ReportInv, NEW j \in Job, Report(j)
  PROVE  ReportInv'
<1>1. ReportTyped /\ pc \in [Job -> Place] BY DEF ReportInv, JobInv, JobsTyped
<1>2. /\ pc[j] = "report" /\ pc' = [pc EXCEPT ![j] = "done"]
      /\ UNCHANGED <<queue, before, handed, stored, fresh>>
  BY DEF Report, At, results
<1>3. PICK posted \in [Label -> Nat] :
        /\ reported' = [reported EXCEPT ![j] = posted]
        /\ \A l \in Label : posted[l] <= Cardinality(Class(fresh[j], l))
  <2>1. CASE UNCHANGED reported
    <3>1. reported[j] \in [Label -> Nat] /\ reported' = [reported EXCEPT ![j] = reported[j]]
      BY <1>1, <2>1 DEF ReportTyped
    <3> QED BY <3>1 DEF ReportInv, Fresh
  <2>2. CASE reported' = [reported EXCEPT ![j] = [l \in Label |-> Excess(Counts[l], before[j][l])]]
    <3>1. Running(j) BY <1>2 DEF Running
    <3>2. \A l \in Label : /\ Excess(Counts[l], before[j][l]) \in Nat
                           /\ Excess(Counts[l], before[j][l]) <= Cardinality(Class(fresh[j], l))
      BY <1>1, <3>1, RiseIsFresh DEF ReportInv, Fresh
    <3>3. PICK posted : posted = [l \in Label |-> Excess(Counts[l], before[j][l])] OBVIOUS
    <3>4. /\ posted \in [Label -> Nat]
          /\ \A l \in Label : posted[l] <= Cardinality(Class(fresh[j], l))
      BY <3>2, <3>3
    <3>5. reported' = [reported EXCEPT ![j] = posted] BY <2>2, <3>3
    <3> QED BY <3>4, <3>5
  <2> QED BY <2>1, <2>2 DEF Report
<1>4. ReportTyped' BY <1>1, <1>2, <1>3 DEF ReportTyped
<1>5. ASSUME NEW k \in Job \ {j} PROVE Fresh(k)'
  <2>1. /\ before'[k] = before[k] /\ reported'[k] = reported[k]
        /\ Running(k)' => Running(k)
        /\ fresh[k] \subseteq fresh'[k] /\ (stored \ fresh[k])' \subseteq stored \ fresh[k]
    BY <1>1, <1>2, <1>3 DEF ReportTyped, Running
  <2>2. k \in Job OBVIOUS
  <2> QED BY <1>4, <2>1, <2>2, FreshKept
<1>6. Fresh(j)'
  <2>1. ~Running(j)' BY <1>1, <1>2 DEF Running
  <2>2. reported'[j] = posted BY <1>1, <1>3 DEF ReportTyped
  <2> QED BY <1>2, <1>3, <2>1, <2>2 DEF Fresh, Class
<1> QED BY <1>4, <1>5, <1>6 DEF ReportInv

\* What a delivery puts into the table is fresh to every running job, or was there.
LEMMA TableReports ==
  ASSUME ReportInv, NEW f \in Frame, Deliver(f) \/ Forget(f)
  PROVE  ReportInv'
<1>1. ReportTyped BY DEF ReportInv
<1>2. UNCHANGED <<queue, pc, before, reported, handed>> BY DEF Deliver, Forget
<1>3. /\ stored' \subseteq Detection
      /\ fresh' \in [Job -> SUBSET Detection]
      /\ \A k \in Job : /\ fresh[k] \subseteq fresh'[k]
                        /\ Running(k) => stored' \ fresh'[k] \subseteq stored \ fresh[k]
  <2>1. CASE Forget(f) BY <1>1, <2>1 DEF Forget, ReportTyped
  <2>2. CASE Deliver(f)
    <3>1. PICK new \in SUBSET InFrame(f), lost \in {{}} \cup {{d.frame} : d \in stored} :
            /\ stored' = {d \in stored : d.frame \notin lost \cup {f}} \cup new
            /\ fresh' = Noted(new)
      BY <2>2 DEF Deliver
    <3>2. new \subseteq Detection BY DEF InFrame
    <3>3. fresh' \in [Job -> SUBSET Detection] BY <1>1, <3>1, <3>2 DEF Noted, ReportTyped
    <3>4. \A k \in Job : fresh'[k] = IF Running(k) THEN fresh[k] \cup (new \ stored) ELSE fresh[k]
      BY <3>1 DEF Noted
    <3> QED BY <1>1, <2>2, <3>1, <3>2, <3>3, <3>4 DEF Deliver, ReportTyped
  <2> QED BY <2>1, <2>2
<1>4. ReportTyped' BY <1>1, <1>2, <1>3 DEF ReportTyped
<1>5. ASSUME NEW k \in Job PROVE Fresh(k)'
  <2>1. Running(k)' = Running(k) BY <1>2 DEF Running
  <2>2. CASE Running(k)
    <3>1. /\ before'[k] = before[k] /\ reported'[k] = reported[k]
          /\ Running(k)' => Running(k)
          /\ fresh[k] \subseteq fresh'[k] /\ (stored \ fresh[k])' \subseteq stored \ fresh[k]
      BY <1>2, <1>3, <2>2
    <3> QED BY <1>4, <3>1, FreshKept
  <2>3. CASE ~Running(k)
    <3>1. ASSUME NEW l \in Label PROVE reported'[k][l] <= Cardinality(Class(fresh'[k], l))
      <4>1. /\ fresh[k] \in SUBSET Detection /\ fresh'[k] \in SUBSET Detection
            /\ fresh[k] \subseteq fresh'[k] /\ reported[k] \in [Label -> Nat]
            /\ reported[k][l] \in Nat
        BY <1>1, <1>3 DEF ReportTyped
      <4>2. /\ Cardinality(Class(fresh[k], l)) \in Nat /\ Cardinality(Class(fresh'[k], l)) \in Nat
            /\ Cardinality(Class(fresh[k], l)) <= Cardinality(Class(fresh'[k], l))
        BY <4>1, ClassCount
      <4>3. reported'[k][l] = reported[k][l] /\ reported[k][l] <= Cardinality(Class(fresh[k], l))
        BY <1>2 DEF ReportInv, Fresh
      <4> HIDE DEF Class
      <4> QED BY <4>1, <4>2, <4>3
    <3> QED BY <2>1, <2>3, <3>1 DEF Fresh, Class
  <2> QED BY <2>2, <2>3
<1> QED BY <1>4, <1>5 DEF ReportInv

LEMMA NextReports == JobInv /\ ReportInv /\ [Next]_vars => ReportInv'
<1> SUFFICES ASSUME JobInv, ReportInv, [Next]_vars PROVE ReportInv'
  OBVIOUS
<1>1. ReportTyped /\ JobsTyped /\ pc \in [Job -> Place]
  BY DEF ReportInv, JobInv, JobsTyped
<1>2. ASSUME UNCHANGED <<before, reported, stored, fresh>>, ReportTyped',
             \A k \in Job : Running(k)' => Running(k)
      PROVE  ReportInv'
  <2>1. ASSUME NEW k \in Job PROVE Fresh(k)' BY <1>2, FreshKept
  <2> QED BY <1>2, <2>1 DEF ReportInv
<1>3. CASE UNCHANGED vars
  <2>1. ReportTyped' /\ \A k \in Job : Running(k)' => Running(k)
    BY <1>1, <1>3 DEF vars, ReportTyped, Running
  <2> QED BY <1>2, <1>3, <2>1 DEF vars
<1>4. ASSUME NEW j \in Job, Upload(j) PROVE ReportInv'
  <2>1. /\ UNCHANGED <<before, reported, handed, stored, fresh>>
        /\ queue' = Append(queue, j) /\ pc' = [pc EXCEPT ![j] = "submitted"]
    BY <1>4 DEF Upload, results
  <2>2. queue' \in Seq(Job) BY <1>1, <2>1 DEF ReportTyped
  <2>3. ReportTyped' BY <1>1, <2>1, <2>2 DEF ReportTyped
  <2>4. \A k \in Job : Running(k)' => Running(k) BY <1>1, <2>1 DEF Running
  <2> QED BY <1>2, <2>1, <2>3, <2>4
<1>5. ASSUME NEW j \in Job, Probe(j) \/ SkipSample(j) \/ Enqueue(j) \/ EnqueueReturns(j)
                            \/ FinishSampling(j) \/ Raise(j) \/ Fallback(j) \/ Complete(j)
      PROVE  ReportInv'
  <2>1. UNCHANGED <<queue, before, reported, stored, fresh>>
    BY <1>5 DEF Probe, SkipSample, Enqueue, EnqueueReturns, FinishSampling, Raise, Fallback,
                Complete, results
  <2>2. Running(j) /\ \A k \in Job \ {j} : pc'[k] = pc[k]
    BY <1>1, <1>5 DEF Probe, SkipSample, Enqueue, EnqueueReturns, FinishSampling, Raise, Fallback,
                      Complete, At, Running
  <2>3. \A k \in Job : Running(k)' => Running(k) BY <2>2 DEF Running
  <2>4. handed' \subseteq Frame
    <3>1. CASE Enqueue(j)
      <4>1. taken[j] \in 0 .. MAX_SAMPLES - 1 BY <3>1, Facts DEF Enqueue
      <4>2. Current(j) \in Frame BY <4>1 DEF Current, Frame
      <4> QED BY <1>1, <3>1, <4>2 DEF Enqueue, ReportTyped
    <3>2. CASE handed' = handed BY <1>1, <3>2 DEF ReportTyped
    <3> QED BY <1>5, <3>1, <3>2
         DEF Probe, SkipSample, EnqueueReturns, FinishSampling, Raise, Fallback, Complete
  <2>5. ReportTyped' BY <1>1, <2>1, <2>4 DEF ReportTyped
  <2> QED BY <1>2, <2>1, <2>3, <2>5
<1>6. ASSUME NEW j \in Job, Start(j) \/ Report(j) PROVE ReportInv'
  BY <1>6, StartReports, ReportReports
<1>7. ASSUME NEW f \in Frame, Deliver(f) \/ Forget(f) PROVE ReportInv' BY <1>7, TableReports
<1> QED BY <1>3, <1>4, <1>5, <1>6, <1>7 DEF Next, Thread

\* For any jobs running side by side, classes and objects per frame, and whatever the
\* aggregator evicts, overwrites and is delivered again, a job reports of no class more
\* than what was stored while its thread ran, each detection once (_report_to_admin).
THEOREM ReportsAreFresh == Spec => []ReportIsFresh
<1>1. ReportInv => ReportIsFresh BY DEF ReportInv, Fresh, Class, ReportIsFresh
<1> QED BY <1>1, InitJobs, NextJobs, InitReports, NextReports, PTL DEF Spec

\* Every variable keeps its type, and the job table its bound, for every set of jobs and
\* videos (JobTracker.create).
THEOREM TypeCorrect == Spec => []TypeOK
<1>1. JobInv /\ ReportInv => TypeOK
  <2> SUFFICES ASSUME JobInv, ReportInv PROVE TypeOK
    OBVIOUS
  <2>1. JobsTyped /\ ReportTyped BY DEF JobInv, ReportInv
  <2>2. \A j \in Job : taken[j] \in 0 .. MAX_SAMPLES BY Facts
  <2>3. taken \in [Job -> 0 .. MAX_SAMPLES] BY <2>1, <2>2 DEF JobsTyped
  <2> QED BY <2>1, <2>3 DEF TypeOK, JobsTyped, ReportTyped, Place
<1> QED BY <1>1, InitJobs, NextJobs, InitReports, NextReports, PTL DEF Spec

================================================================================
