--------------------------- MODULE WorkerAgentProofs ---------------------------
(***************************************************************************)
(* Theorems about WorkerAgent for every number of registration threads,    *)
(* starts, restarts and late requests, and every interval and time-out     *)
(* that the coordinator's deadline allows for.                             *)
(***************************************************************************)
EXTENDS WorkerAgent, WorkerManagerProofs

\* The heartbeat thread lives as long as its process and is never late: its sleep and
\* its call end in time.
Punctual ==
  /\ hb = "off" <=> ~Running
  /\ hb = "off" => timer = 0
  /\ hb = "sleeping" => timer <= HEARTBEAT_INTERVAL_SECS
  /\ hb \in {"calling", "served"} => timer <= CallTimeout

\* How old the coordinator's last stamp can be, by where the heartbeat thread is.
StampAge ==
  CASE hb = "sleeping" -> CallTimeout + timer
    [] hb = "calling"  -> CallTimeout + HEARTBEAT_INTERVAL_SECS + timer
    [] hb = "served"   -> timer
    [] OTHER           -> 0

Recent ==
  heard => /\ Running
           /\ ~registry[WORKER_ID].silent
           /\ Known => age <= StampAge

HealthyInv == TypeOK /\ Punctual /\ Recent

-----------------------------------------------------------------------------
\* Type correctness.

\* A call that fails leaves at most one more request under way.
LEMMA CallFailsTyped ==
  ASSUME late \in [Request -> 0 .. MaxLate], NEW k \in Request, Fails(k)
  PROVE  late' \in [Request -> 0 .. MaxLate]
BY WorkerAgentAssumption DEF Fails

\* What a request does at the coordinator keeps the registry, the age and the
\* history well typed.
LEMMA ServeTyped ==
  ASSUME registry \in Registry, age \in 0 .. HEARTBEAT_TIMEOUT_SECS + 1, heard \in BOOLEAN,
         ServeRegister \/ ServeHeartbeat \/ ServeDelete \/ ServeResult
  PROVE  registry' \in Registry /\ age' \in 0 .. HEARTBEAT_TIMEOUT_SECS + 1 /\ heard' \in BOOLEAN
<1> USE WorkerAgentAssumption
<1>1. CASE ServeRegister
  BY <1>1, EntryTyped DEF ServeRegister, Stamped, Running
<1>2. CASE ServeHeartbeat
  BY <1>2, EntryTyped DEF ServeHeartbeat, Stamped, Running
<1>3. CASE ServeDelete
  BY <1>3, EntryTyped DEF ServeDelete
<1>4. CASE ServeResult
  BY <1>4, EntryTyped, FramesTyped DEF ServeResult
<1>. QED
  BY <1>1, <1>2, <1>3, <1>4

\* The registry of a coordinator that has just started.
LEMMA EmptyTyped == Empty \in Registry
<1>1. 0 \in 0 .. CIRCUIT_BREAKER_THRESHOLD
  BY WorkerManagerAssumption
<1>2. Unregistered \in WorkerInfo
  BY <1>1 DEF Unregistered, WorkerInfo
<1>. QED
  BY <1>2 DEF Empty, Registry

LEMMA InitTyped == Init => TypeOK
<1> SUFFICES ASSUME Init PROVE TypeOK
  OBVIOUS
<1>1. registry \in Registry
  BY EmptyTyped DEF Init
<1>2. attempts \in [Thread -> 0 .. MaxAttempts]
  BY WorkerAgentAssumption DEF Init, NoThread
<1>3. late \in [Request -> 0 .. MaxLate]
  BY WorkerAgentAssumption DEF Init, NoRequest
<1>4. /\ age \in 0 .. HEARTBEAT_TIMEOUT_SECS + 1 /\ restarts \in 0 .. MaxRestarts
      /\ starts \in 0 .. MaxStarts
  BY WorkerAgentAssumption DEF Init
<1>5. /\ phase \in {"down", "up", "stopping", "deregistered"} /\ heard \in BOOLEAN
      /\ hb \in {"off", "sleeping", "calling", "served"} /\ timer \in Nat
  BY DEF Init
<1>. QED
  BY <1>1, <1>2, <1>3, <1>4, <1>5 DEF TypeOK, Registry

\* The steps of the agent.
LEMMA AgentTyped ==
  ASSUME TypeOK,
         \/ \E t \in Thread : Start(t) \/ Registration(t)
         \/ HeartbeatLoop \/ PostResult \/ Shutdown \/ Deregister \/ Exit \/ Crash
  PROVE  TypeOK'
<1> USE WorkerAgentAssumption DEF TypeOK, Registry, coordinator, agent
<1>1. ASSUME NEW t \in Thread, Start(t) PROVE TypeOK'
  BY <1>1 DEF Start, Spawned
<1>2. ASSUME NEW t \in Thread, Register(t) PROVE TypeOK'
  <2>1. registry' \in Registry /\ age' \in 0 .. HEARTBEAT_TIMEOUT_SECS + 1 /\ heard' \in BOOLEAN
    BY <1>2, ServeTyped DEF Register
  <2>2. attempts' \in [Thread -> 0 .. MaxAttempts]
    BY <1>2 DEF Register
  <2>. QED
    BY <1>2, <2>1, <2>2 DEF Register
<1>3. ASSUME NEW t \in Thread, RegisterFails(t) PROVE TypeOK'
  <2>1. late' \in [Request -> 0 .. MaxLate]
    BY <1>3, CallFailsTyped DEF RegisterFails, Request
  <2>. QED
    BY <1>3, <2>1 DEF RegisterFails
<1>4. CASE SendHeartbeat
  BY <1>4 DEF SendHeartbeat, HeartbeatTo
<1>5. CASE HeartbeatServed
  <2>1. registry' \in Registry /\ age' \in 0 .. HEARTBEAT_TIMEOUT_SECS + 1 /\ heard' \in BOOLEAN
    BY <1>5, ServeTyped DEF HeartbeatServed
  <2>. QED
    BY <1>5, <2>1 DEF HeartbeatServed
<1>6. CASE HeartbeatAnswered
  BY <1>6 DEF HeartbeatAnswered, HeartbeatTo
<1>7. CASE Heartbeat404
  BY <1>7 DEF Heartbeat404, HeartbeatTo, ReRegisters, Spawned
<1>8. CASE HeartbeatFails
  <2>1. late' \in [Request -> 0 .. MaxLate]
    BY <1>8, CallFailsTyped DEF HeartbeatFails, Request
  <2>. QED
    BY <1>8, <2>1 DEF HeartbeatFails, HeartbeatTo
<1>9. CASE PostResult
  <2>1. CASE ServeResult /\ UNCHANGED late
    <3>1. registry' \in Registry /\ age' \in 0 .. HEARTBEAT_TIMEOUT_SECS + 1 /\ heard' \in BOOLEAN
      BY <2>1, ServeTyped
    <3>. QED
      BY <1>9, <2>1, <3>1 DEF PostResult
  <2>2. CASE Fails("result") /\ UNCHANGED <<registry, age, heard>>
    <3>1. late' \in [Request -> 0 .. MaxLate]
      BY <2>2, CallFailsTyped DEF Request
    <3>. QED
      BY <1>9, <2>2, <3>1 DEF PostResult
  <2>. QED
    BY <1>9, <2>1, <2>2 DEF PostResult
<1>10. CASE Shutdown
  BY <1>10 DEF Shutdown
<1>11. CASE Deregister
  <2>1. registry' \in Registry /\ age' \in 0 .. HEARTBEAT_TIMEOUT_SECS + 1 /\ heard' \in BOOLEAN
    BY <1>11, ServeTyped DEF Deregister
  <2>. QED
    BY <1>11, <2>1 DEF Deregister
<1>12. ASSUME Gone, late' \in [Request -> 0 .. MaxLate] PROVE TypeOK'
  <2>1. attempts' \in [Thread -> 0 .. MaxAttempts]
    BY <1>12 DEF Gone, NoThread
  <2>. QED
    BY <1>12, <2>1 DEF Gone
<1>13. CASE Exit
  BY <1>12, <1>13, CallFailsTyped DEF Exit, Request
<1>14. CASE Crash
  BY <1>12, <1>14 DEF Crash
<1>. QED
  BY <1>1, <1>2, <1>3, <1>4, <1>5, <1>6, <1>7, <1>8, <1>9, <1>10, <1>11, <1>13, <1>14
  DEF Registration, HeartbeatLoop

\* The steps of the coordinator, the network and the clock.
LEMMA CoordinatorTyped ==
  ASSUME TypeOK, ServeLate \/ LoseLate \/ Restart \/ EvictionTick \/ ChargeTimeout \/ Tick
  PROVE  TypeOK'
<1> USE WorkerAgentAssumption DEF TypeOK, coordinator, agent
<1>0. registry \in Registry
  BY DEF Registry
<1>1. CASE ServeLate
  <2>1. PICK k \in Request :
          /\ late[k] > 0 /\ late' = [late EXCEPT ![k] = @ - 1]
          /\ \/ ServeRegister \/ ServeHeartbeat \/ ServeDelete \/ ServeResult
             \/ UNCHANGED <<registry, age, heard>>
    BY <1>1 DEF ServeLate
  <2>2. late' \in [Request -> 0 .. MaxLate]
    BY <2>1
  <2>3. registry' \in Registry /\ age' \in 0 .. HEARTBEAT_TIMEOUT_SECS + 1 /\ heard' \in BOOLEAN
    BY <1>0, <2>1, ServeTyped
  <2>. QED
    BY <1>1, <2>2, <2>3 DEF ServeLate, Registry
<1>2. CASE LoseLate
  BY <1>2 DEF LoseLate
<1>3. CASE Restart
  BY <1>3, EmptyTyped DEF Restart, Registry, NoRequest
<1>4. CASE EvictionTick
  BY <1>0, <1>4, EvictionTyped DEF EvictionTick, Registry
<1>5. CASE ChargeTimeout
  BY <1>0, <1>5, TimeoutTyped DEF ChargeTimeout, Registry
<1>6. CASE Tick
  <2>1. registry' \in Registry
    BY <1>0, <1>6, EntryTyped DEF Tick
  <2>. QED
    BY <1>6, <2>1 DEF Tick, Registry
<1>. QED
  BY <1>1, <1>2, <1>3, <1>4, <1>5, <1>6

LEMMA StepTyped == TypeOK /\ [Next]_vars => TypeOK'
<1>1. ASSUME TypeOK, UNCHANGED vars PROVE TypeOK'
  BY <1>1 DEF TypeOK, vars, coordinator, agent
<1>. QED
  BY <1>1, AgentTyped, CoordinatorTyped DEF Next

\* The registry, the threads and the requests under way keep their types: no
\* registration thread has more attempts than it was started with.
THEOREM TypeCorrect == Spec => []TypeOK
<1>1. Init => TypeOK
  BY InitTyped
<1>2. TypeOK /\ [Next]_vars => TypeOK'
  BY StepTyped
<1>. QED
  BY <1>1, <1>2, PTL DEF Spec

-----------------------------------------------------------------------------
\* A healthy agent stays.

\* What a step may do to the stamp: leave it, or renew it.
StampKept ==
  /\ ~registry[WORKER_ID].silent => ~registry'[WORKER_ID].silent
  /\ Known' => Known
  /\ age' = age /\ heard' = heard

StampRenewed == ~registry'[WORKER_ID].silent /\ age' = 0 /\ heard' = Running

LEMMA ServeStamps ==
  ASSUME TypeOK
  PROVE  /\ ServeRegister \/ ServeHeartbeat => StampRenewed
         /\ ServeDelete \/ ServeResult => StampKept
<1> USE WorkerAgentAssumption DEF TypeOK, Known, StampKept, StampRenewed
<1>0. registry \in Registry
  BY DEF Registry
<1>1. ASSUME ServeRegister PROVE StampRenewed
  BY <1>0, <1>1, RegistrationStamps DEF ServeRegister, Stamped
<1>2. ASSUME ServeHeartbeat PROVE StampRenewed
  BY <1>0, <1>2, RegistrationStamps DEF ServeHeartbeat, Stamped
<1>3. ASSUME ServeDelete PROVE StampKept
  BY <1>0, <1>3, OthersKeepStamp DEF ServeDelete
<1>4. ASSUME ServeResult PROVE StampKept
  BY <1>0, <1>4, OthersKeepStamp DEF ServeResult
<1>. QED
  BY <1>1, <1>2, <1>3, <1>4

\* A step that leaves the heartbeat thread where it is and keeps or renews the stamp
\* keeps the invariant.
LEMMA StampStep ==
  ASSUME TypeOK, Punctual, Recent, StampKept \/ StampRenewed,
         UNCHANGED <<hb, timer>>, Running' = Running
  PROVE  Punctual' /\ Recent'
<1> USE WorkerAgentAssumption DEF TypeOK, Punctual, Recent, StampAge
<1>1. CASE StampKept
  BY <1>1 DEF StampKept
<1>2. CASE StampRenewed
  BY <1>2 DEF StampRenewed
<1>. QED
  BY <1>1, <1>2

LEMMA AgentHealthy ==
  ASSUME HealthyInv,
         \/ \E t \in Thread : Start(t) \/ Registration(t)
         \/ HeartbeatLoop \/ PostResult \/ Shutdown \/ Deregister \/ Exit \/ Crash
  PROVE  Punctual' /\ Recent'
<1> USE WorkerAgentAssumption DEF HealthyInv, coordinator, agent
<1>1. ASSUME NEW t \in Thread, Start(t) PROVE Punctual' /\ Recent'
  BY <1>1 DEF Start, TypeOK, Punctual, Recent, Running
<1>2. ASSUME NEW t \in Thread, Register(t) PROVE Punctual' /\ Recent'
  BY <1>2, ServeStamps, StampStep DEF Register, Running
<1>3. ASSUME NEW t \in Thread, RegisterFails(t) PROVE Punctual' /\ Recent'
  <2>1. StampKept
    BY <1>3 DEF RegisterFails, StampKept, Known
  <2>. QED
    BY <1>3, <2>1, StampStep DEF RegisterFails, Running
<1>4. CASE SendHeartbeat
  BY <1>4 DEF SendHeartbeat, HeartbeatTo, TypeOK, Punctual, Recent, StampAge, Running, Known
<1>5. CASE HeartbeatServed
  <2>1. StampRenewed
    BY <1>5, ServeStamps DEF HeartbeatServed
  <2>. QED
    BY <1>5, <2>1 DEF HeartbeatServed, StampRenewed, TypeOK, Punctual, Recent, StampAge, Running
<1>6. CASE HeartbeatAnswered
  BY <1>6 DEF HeartbeatAnswered, HeartbeatTo, TypeOK, Punctual, Recent, StampAge, Running, Known
<1>7. CASE Heartbeat404
  BY <1>7 DEF Heartbeat404, HeartbeatTo, TypeOK, Punctual, Recent, Running, Known
<1>8. CASE HeartbeatFails
  BY <1>8 DEF HeartbeatFails, HeartbeatTo, TypeOK, Punctual, Recent, Running
<1>9. CASE PostResult
  <2>1. StampKept
    BY <1>9, ServeStamps DEF PostResult, StampKept, Known
  <2>. QED
    BY <1>9, <2>1, StampStep DEF PostResult, Running
<1>10. CASE Shutdown
  BY <1>10 DEF Shutdown, Punctual, Recent, StampAge, Running, Known
<1>11. CASE Deregister
  BY <1>11, ServeStamps, StampStep DEF Deregister, Running
<1>12. ASSUME Gone PROVE Punctual' /\ Recent'
  BY <1>12 DEF Gone, Punctual, Recent, Running
<1>13. CASE Exit
  BY <1>12, <1>13 DEF Exit
<1>14. CASE Crash
  BY <1>12, <1>14 DEF Crash
<1>. QED
  BY <1>1, <1>2, <1>3, <1>4, <1>5, <1>6, <1>7, <1>8, <1>9, <1>10, <1>11, <1>13, <1>14
  DEF Registration, HeartbeatLoop

\* The clock is the only step that makes a worker silent, and it stands still while the
\* heartbeat thread is due.
LEMMA TickHealthy ==
  ASSUME HealthyInv, Tick
  PROVE  Punctual' /\ Recent'
<1> USE WorkerAgentAssumption DEF HealthyInv, TypeOK, agent
<1>1. Punctual'
  BY DEF Tick, Due, Punctual, Running
<1>2. ASSUME heard' PROVE Running' /\ ~registry'[WORKER_ID].silent /\ (Known' => age' <= StampAge')
  <2>1. heard /\ Running /\ Running' /\ timer' = timer + 1
    BY <1>2 DEF Tick, Recent, Running, Punctual
  <2>2. CASE age < HEARTBEAT_TIMEOUT_SECS
    BY <2>1, <2>2 DEF Tick, Recent, StampAge, Punctual, Running, Known
  <2>3. CASE ~(age < HEARTBEAT_TIMEOUT_SECS)
    <3>1. StampAge <= CallTimeout + HEARTBEAT_INTERVAL_SECS + CallTimeout
      BY <2>1 DEF StampAge, Punctual, Running
    <3>2. ~Known
      BY <2>1, <2>3, <3>1 DEF Recent, Known, StampAge
    <3>3. registry' = registry
      BY <2>3, <3>2 DEF Tick, FallenSilent, Updated, Known
    <3>. QED
      BY <2>1, <3>2, <3>3 DEF Recent, Known
  <2>. QED
    BY <2>2, <2>3
<1>. QED
  BY <1>1, <1>2 DEF Recent

LEMMA CoordinatorHealthy ==
  ASSUME HealthyInv, ServeLate \/ LoseLate \/ Restart \/ EvictionTick \/ ChargeTimeout \/ Tick
  PROVE  Punctual' /\ Recent'
<1> USE WorkerAgentAssumption DEF HealthyInv, coordinator, agent
<1>0. registry \in Registry
  BY DEF Registry, TypeOK
<1>1. CASE ServeLate
  <2>1. \/ ServeRegister \/ ServeHeartbeat \/ ServeDelete \/ ServeResult
        \/ UNCHANGED <<registry, age, heard>>
    BY <1>1 DEF ServeLate
  <2>2. StampKept \/ StampRenewed
    BY <2>1, ServeStamps DEF StampKept, Known
  <2>. QED
    BY <1>1, <2>2, StampStep DEF ServeLate, Running
<1>2. CASE LoseLate
  <2>1. StampKept
    BY <1>2 DEF LoseLate, StampKept, Known
  <2>. QED
    BY <1>2, <2>1, StampStep DEF LoseLate, Running
<1>3. CASE Restart
  BY <1>3 DEF Restart, Empty, Unregistered, IsRegistered, Punctual, Recent, Running, Known, StampAge
<1>4. CASE EvictionTick
  <2>1. StampKept
    BY <1>0, <1>4, OthersKeepStamp DEF EvictionTick, StampKept, Known
  <2>. QED
    BY <1>4, <2>1, StampStep DEF EvictionTick, Running
<1>5. CASE ChargeTimeout
  <2>1. StampKept
    BY <1>0, <1>5, OthersKeepStamp DEF ChargeTimeout, StampKept, Known
  <2>. QED
    BY <1>5, <2>1, StampStep DEF ChargeTimeout, Running
<1>. QED
  BY <1>1, <1>2, <1>3, <1>4, <1>5, TickHealthy

\* An agent whose heartbeats do not fail is never past the deadline, for every interval
\* and time-out with INTERVAL + 2 * CallTimeout < HEARTBEAT_TIMEOUT_SECS, whatever other
\* requests, restarts and circuit breaker do (worker_agent.py:242-256,
\* worker_manager.py:181-221).
THEOREM HealthyIsKept == Spec => []HealthyStays
<1>1. Init => HealthyInv
  BY InitTyped DEF Init, HealthyInv, Punctual, Recent, Running
<1>2. HealthyInv /\ [Next]_vars => HealthyInv'
  <2>1. ASSUME HealthyInv, UNCHANGED vars PROVE Punctual' /\ Recent'
    BY <2>1 DEF HealthyInv, Punctual, Recent, Running, Known, StampAge, vars, coordinator, agent
  <2>. QED
    BY <2>1, StepTyped, AgentHealthy, CoordinatorHealthy DEF HealthyInv, Next
<1>3. HealthyInv => HealthyStays
  BY DEF HealthyInv, Recent, HealthyStays
<1>. QED
  BY <1>1, <1>2, <1>3, PTL DEF Spec

================================================================================
