--------------------------- MODULE FrameQueueHistory ---------------------------
(***************************************************************************)
(* FrameQueue with two history variables, for the statements of its        *)
(* documentation that speak of what happened to a task earlier.            *)
(***************************************************************************)
EXTENDS FrameQueue

VARIABLES
  acknowledged,  \* ids whose acknowledgement the queue has handled
  failures       \* failed dispatches of a frame, up to one beyond the budget

historyVars == <<acknowledged, failures>>

MaxFailures == MAX_RETRIES + 2

HInit == Init /\ acknowledged = {} /\ failures = [f \in Frame |-> 0]

FailsNow(f) == \E c \in calls : c.task.frame_id = f /\ Fail(c)

HNext ==
  /\ Next
  /\ acknowledged' = acknowledged \cup {TaskId(c.task) : c \in {d \in calls : Acknowledge(d)}}
  /\ failures' = [f \in Frame |->
                    IF FailsNow(f) /\ failures[f] < MaxFailures
                    THEN failures[f] + 1 ELSE failures[f]]

HSpec == HInit /\ [][HNext]_<<vars, historyVars>>

-----------------------------------------------------------------------------
\* What the repository says, and the code does not do.

\* worker_routes.py:85: an acknowledgement removes the task "so the watchdog
\* won't retry it".
AckedStaysOut ==
  [][\A t \in current : Retry(t) => TaskId(t) \notin acknowledged]_<<vars, historyVars>>

\* frame_queue.py:8: "tasks that fail MAX_RETRIES times are dropped".
FailuresLimited ==
  \A f \in Frame \ dropped : failures[f] <= MAX_RETRIES + 1
================================================================================
