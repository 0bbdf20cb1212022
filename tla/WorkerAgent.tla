------------------------------ MODULE WorkerAgent ------------------------------
(***************************************************************************)
(* A worker agent and the coordinator's entry for it: the registration     *)
(* threads of five attempts, the heartbeat thread that starts another one  *)
(* when it meets a 404, the DELETE of a shutdown, crashes and restarts of  *)
(* either side, and requests that the coordinator serves after the agent   *)
(* has given them up.                                                      *)
(*                                                                         *)
(* Time passes in ticks.  It is kept for what the code measures: the       *)
(* heartbeat thread's sleep and time-out, and the age of last_heartbeat.   *)
(***************************************************************************)
EXTENDS WorkerManager

CONSTANTS
  WORKER_ID,
  Thread,                  \* bound: registration threads that run side by side
  MaxAttempts,             \* of one registration thread, 5 in the code
  HEARTBEAT_INTERVAL_SECS, \* ticks the heartbeat thread sleeps
  CallTimeout,             \* ticks after which its call has ended
  HEARTBEAT_TIMEOUT_SECS,  \* the coordinator's deadline
  MaxStarts,               \* bound: times the agent is started
  MaxRestarts,             \* bound: times the coordinator restarts
  MaxLate                  \* bound: requests of a kind that are late at once

\* 10 + 2 * 8 < 30 in the code: four seconds to connect and four to read the answer.
ASSUME WorkerAgentAssumption ==
  /\ WORKER_ID \in Worker
  /\ MaxAttempts \in Nat \ {0}
  /\ {HEARTBEAT_INTERVAL_SECS, CallTimeout, HEARTBEAT_TIMEOUT_SECS} \subseteq Nat
  /\ HEARTBEAT_INTERVAL_SECS + 2 * CallTimeout < HEARTBEAT_TIMEOUT_SECS
  /\ {MaxStarts, MaxRestarts, MaxLate} \subseteq Nat

VARIABLES
  registry, \* the coordinator's _workers
  age,      \* ticks since the entry's last_heartbeat, up to one past the deadline
  restarts, \* of the coordinator
  phase,    \* of the agent's process
  starts,   \* of the agent
  attempts, \* attempts a registration thread has left; 0: there is no such thread
  hb,       \* where the heartbeat thread is
  timer,    \* ticks since it got there
  late,     \* requests under way that the agent has given up
  heard     \* history: the coordinator knows a sign of life of this process, and no
            \* heartbeat has failed since

coordinator == <<registry, age, restarts>>
agent == <<phase, starts, attempts>>
vars == <<coordinator, agent, hb, timer, late, heard>>

Request == {"register", "heartbeat", "delete", "result"}
NoRequest == [k \in Request |-> 0]
NoThread == [t \in Thread |-> 0]
Empty == [w \in Worker |-> Unregistered]

Init ==
  /\ registry = Empty /\ age = 0 /\ restarts = 0
  /\ phase = "down" /\ starts = 0 /\ attempts = NoThread
  /\ hb = "off" /\ timer = 0
  /\ late = NoRequest /\ heard = FALSE

Known == IsRegistered(registry, WORKER_ID)
Running == phase # "down"

-----------------------------------------------------------------------------
\* What a request does once the coordinator has it.

\* A registration or a heartbeat stamps last_heartbeat.
Unstamped == heard' = Running /\ UNCHANGED age   \* a mutant of the next
Stamped ==
  /\ age' = 0
  /\ heard' = Running

ServeRegister ==
  /\ registry' = Registered(registry, WORKER_ID)
  /\ Stamped

ServeHeartbeat ==
  /\ Known
  /\ registry' = HeartbeatRecorded(registry, WORKER_ID)
  /\ Stamped

ServeDelete ==
  /\ registry' = Removed(registry, WORKER_ID)
  /\ UNCHANGED <<age, heard>>

\* A result and the acknowledgement after it: a sign of life, but not a stamp.
ServeResult ==
  /\ registry' \in {FramesIncremented(registry, WORKER_ID, 0),
                    TimeoutReset(registry, WORKER_ID)}
  /\ UNCHANGED <<age, heard>>

\* The agent's call of kind k fails: the request is lost, or still under way.
Fails(k) ==
  \/ UNCHANGED late
  \/ late[k] < MaxLate /\ late' = [late EXCEPT ![k] = @ + 1]

-----------------------------------------------------------------------------
\* The agent.

SpawnedOneMore(t) ==                          \* a mutant of the next
  attempts[t] = 0 /\ attempts' = [attempts EXCEPT ![t] = MaxAttempts + 1]
Spawned(t) == attempts[t] = 0 /\ attempts' = [attempts EXCEPT ![t] = MaxAttempts]

Start(t) ==
  /\ phase = "down" /\ starts < MaxStarts
  /\ phase' = "up" /\ starts' = starts + 1
  /\ Spawned(t)
  /\ hb' = "sleeping" /\ timer' = 0
  /\ UNCHANGED <<coordinator, late, heard>>

\* One attempt of _register_with_coordinator: the thread ends with the first answer,
\* and with the last attempt.
Register(t) ==
  /\ attempts[t] > 0
  /\ ServeRegister
  /\ attempts' \in {[attempts EXCEPT ![t] = 0], [attempts EXCEPT ![t] = @ - 1]}
  /\ UNCHANGED <<restarts, phase, starts, hb, timer, late>>

RegisterFails(t) ==
  /\ attempts[t] > 0
  /\ attempts' = [attempts EXCEPT ![t] = @ - 1]
  /\ Fails("register")
  /\ UNCHANGED <<coordinator, phase, starts, hb, timer, heard>>

HeartbeatTo(here, next) == hb = here /\ hb' = next /\ timer' = 0

SendHeartbeat ==
  /\ timer = HEARTBEAT_INTERVAL_SECS
  /\ HeartbeatTo("sleeping", "calling")
  /\ UNCHANGED <<coordinator, agent, late, heard>>

\* The coordinator has served the call, its answer is under way.
HeartbeatServed ==
  /\ hb = "calling" /\ hb' = "served"
  /\ ServeHeartbeat
  /\ UNCHANGED <<restarts, agent, timer, late>>

HeartbeatAnswered ==
  /\ HeartbeatTo("served", "sleeping")
  /\ UNCHANGED <<coordinator, agent, late, heard>>

\* What a 404 makes of the registration threads.
Ignored == UNCHANGED attempts                 \* a mutant of the next
ReRegisters == \E t \in Thread : Spawned(t)

Heartbeat404 ==
  /\ ~Known
  /\ HeartbeatTo("calling", "sleeping")
  /\ ReRegisters
  /\ UNCHANGED <<coordinator, phase, starts, late, heard>>

HeartbeatFails ==
  /\ HeartbeatTo("calling", "sleeping")
  /\ Fails("heartbeat")
  /\ heard' = FALSE
  /\ UNCHANGED <<coordinator, agent>>

\* A result is posted by a request handler of the agent; its call may fail as well.
PostResult ==
  /\ Running
  /\ \/ ServeResult /\ UNCHANGED late
     \/ Fails("result") /\ UNCHANGED <<registry, age, heard>>
  /\ UNCHANGED <<restarts, agent, hb, timer>>

\* The shutdown handler, while the daemon threads still run.
Shutdown ==
  /\ phase = "up" /\ phase' = "stopping"
  /\ UNCHANGED <<coordinator, starts, attempts, hb, timer, late, heard>>

Deregister ==
  /\ phase = "stopping" /\ phase' = "deregistered"
  /\ ServeDelete
  /\ UNCHANGED <<restarts, starts, attempts, hb, timer, late>>

\* The process ends with its threads: after the DELETE, answered or not, or in a crash.
Gone ==
  /\ phase' = "down" /\ attempts' = NoThread
  /\ hb' = "off" /\ timer' = 0 /\ heard' = FALSE
  /\ UNCHANGED <<coordinator, starts>>

Exit ==
  \/ phase = "deregistered" /\ UNCHANGED late /\ Gone
  \/ phase = "stopping" /\ Fails("delete") /\ Gone

Crash == Running /\ UNCHANGED late /\ Gone

-----------------------------------------------------------------------------
\* The coordinator.

ServeLate ==
  /\ \E k \in Request :
       /\ late[k] > 0
       /\ late' = [late EXCEPT ![k] = @ - 1]
       /\ \/ k = "register" /\ ServeRegister
          \/ k = "heartbeat" /\ ServeHeartbeat
          \/ k = "heartbeat" /\ ~Known /\ UNCHANGED <<registry, age, heard>>
          \/ k = "delete" /\ ServeDelete
          \/ k = "result" /\ ServeResult
  /\ UNCHANGED <<restarts, agent, hb, timer>>

LoseLate ==
  /\ \E k \in Request : late[k] > 0 /\ late' = [late EXCEPT ![k] = @ - 1]
  /\ UNCHANGED <<coordinator, agent, hb, timer, heard>>

\* The registry is in memory, and so are the requests the process has accepted.
Restart ==
  /\ restarts < MaxRestarts
  /\ restarts' = restarts + 1
  /\ registry' = Empty /\ late' = NoRequest
  /\ UNCHANGED <<age, agent, hb, timer, heard>>

EvictionTick ==
  /\ registry' = StaleEvicted(registry)
  /\ UNCHANGED <<age, restarts, agent, hb, timer, late, heard>>

\* The watchdog charges a timeout to the worker (FrameQueue's TimeOut).
ChargeTimeout ==
  /\ registry' = TimeoutRecorded(registry, WORKER_ID)
  /\ UNCHANGED <<age, restarts, agent, hb, timer, late, heard>>

-----------------------------------------------------------------------------
\* Time.

Due ==
  \/ hb = "sleeping" /\ timer = HEARTBEAT_INTERVAL_SECS
  \/ hb \in {"calling", "served"} /\ timer = CallTimeout

Tick ==
  /\ ~Due
  /\ timer' = IF hb = "off" THEN timer ELSE timer + 1
  /\ IF age < HEARTBEAT_TIMEOUT_SECS
     THEN age' = age + 1 /\ UNCHANGED registry
     ELSE /\ age' = HEARTBEAT_TIMEOUT_SECS + 1
          /\ registry' = FallenSilent(registry, WORKER_ID)
  /\ UNCHANGED <<restarts, agent, hb, late, heard>>

-----------------------------------------------------------------------------
Registration(t) == Register(t) \/ RegisterFails(t)

HeartbeatLoop ==
  \/ SendHeartbeat \/ HeartbeatServed \/ HeartbeatAnswered \/ Heartbeat404 \/ HeartbeatFails

Next ==
  \/ \E t \in Thread : Start(t) \/ Registration(t)
  \/ HeartbeatLoop \/ PostResult \/ Shutdown \/ Deregister \/ Exit \/ Crash
  \/ ServeLate \/ LoseLate \/ Restart \/ EvictionTick \/ ChargeTimeout
  \/ Tick

Spec == Init /\ [][Next]_vars

\* Time passes, threads and a shutdown go on, a request arrives or is lost.  The
\* environment does not fail every heartbeat and every registration for ever.
FairSpec ==
  /\ Spec
  /\ WF_vars(Tick)
  /\ WF_vars(HeartbeatLoop)
  /\ WF_vars(\E t \in Thread : Registration(t))
  /\ WF_vars(Deregister \/ Exit)
  /\ WF_vars(ServeLate \/ LoseLate)
  /\ WF_vars(EvictionTick)
  /\ SF_vars(HeartbeatServed \/ Heartbeat404)
  /\ SF_vars(\E t \in Thread : Register(t))

-----------------------------------------------------------------------------
\* Properties.

TypeOK ==
  /\ registry \in [Worker -> WorkerInfo]
  /\ age \in 0 .. HEARTBEAT_TIMEOUT_SECS + 1 /\ restarts \in 0 .. MaxRestarts
  /\ phase \in {"down", "up", "stopping", "deregistered"} /\ starts \in 0 .. MaxStarts
  /\ attempts \in [Thread -> 0 .. MaxAttempts]
  /\ hb \in {"off", "sleeping", "calling", "served"} /\ timer \in Nat
  /\ late \in [Request -> 0 .. MaxLate]
  /\ heard \in BOOLEAN

\* An agent none of whose heartbeats has failed since its last sign of life is never
\* past the deadline, so the eviction thread leaves it alone, however slow the answers
\* are (worker_agent.py:245-249, worker_manager.py:203-221).
HealthyStays == heard => ~registry[WORKER_ID].silent

\* An agent that stays up is registered in the end for good, although a registration
\* thread gives up after five attempts, the coordinator forgets the worker when it
\* restarts, and a late DELETE of an earlier process may still arrive.
Joins == <>[](phase = "up") => <>[]Known

\* It is also available again and again, whatever the circuit breaker and the eviction
\* thread do.
ServesAgain ==
  <>[](phase = "up") => []<>(registry[WORKER_ID].status \in Available)

\* A worker that is gone is not offered frames in the end, also when its DELETE is lost
\* or a thread registers it again between the DELETE and the end of the process.
LeavesService ==
  <>[](phase = "down") => <>[](registry[WORKER_ID].status \notin Available)

================================================================================
