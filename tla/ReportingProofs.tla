---------------------------- MODULE ReportingProofs ----------------------------
(***************************************************************************)
(* Theorems of Reporting, for any cameras, events, dashboards and limits.  *)
(***************************************************************************)
EXTENDS Reporting, TLAPS

-----------------------------------------------------------------------------
\* Types.

Ring(S, max) == {s \in Seq(S) : Len(s) <= max}

\* A ring to which an element is appended and whose excess is cut stays a ring.
LEMMA LastOfRing ==
  ASSUME NEW S, NEW max \in Nat \ {0}, NEW s \in Ring(S, max), NEW e \in S
  PROVE  LastOf(Append(s, e), max) \in Ring(S, max)
<1> DEFINE t == Append(s, e)
<1>1. t \in Seq(S) /\ Len(t) = Len(s) + 1 BY DEF Ring
<1>2. CASE Len(t) > max
  <2>1. Len(t) = max + 1 BY <1>1, <1>2 DEF Ring
  <2>2. SubSeq(t, Len(t) - max + 1, Len(t)) \in Seq(S) BY <1>1, <2>1
  <2>3. Len(SubSeq(t, Len(t) - max + 1, Len(t))) = max BY <1>1, <2>1
  <2> QED BY <1>2, <2>2, <2>3 DEF LastOf, Ring
<1>3. CASE ~(Len(t) > max) BY <1>1, <1>3 DEF LastOf, Ring
<1> QED BY <1>2, <1>3

\* The alert store: the oldest alert goes before the new one comes.
LEMMA StoreRing ==
  ASSUME NEW S, NEW max \in Nat \ {0}, NEW s \in Ring(S, max), NEW e \in S
  PROVE  Append(IF Len(s) >= max THEN Tail(s) ELSE s, e) \in Ring(S, max)
<1>1. CASE Len(s) >= max
  <2>1. Tail(s) \in Seq(S) /\ Len(Tail(s)) = Len(s) - 1 BY <1>1 DEF Ring
  <2> QED BY <1>1, <2>1 DEF Ring
<1>2. CASE ~(Len(s) >= max) BY <1>2 DEF Ring
<1> QED BY <1>1, <1>2

LEMMA InitTyped == Init => TypeOK
BY AdminPortalAssumption
   DEF Init, TypeOK, Started, NoCameras, NoCounts, AllClosed, NothingShown, AllIdle, Idle

\* What Recorded does to the stores.
LEMMA RecordedTyped ==
  ASSUME TypeOK, NEW e \in Message, Recorded(e)
  PROVE  /\ cameras' \in [Camera -> {"unknown", "active", "offline"}]
         /\ per_camera' \in [Camera -> Nat]
         /\ timeline' \in Ring(Detection, MAX_TIMELINE)
         /\ alerts' \in Ring(Alert, MAX_ALERTS)
<1>0. timeline \in Ring(Detection, MAX_TIMELINE) /\ alerts \in Ring(Alert, MAX_ALERTS)
  BY DEF TypeOK, Ring
<1>1. CASE e \in Detection /\ cameras' = Seen(CameraOf[e])
           /\ per_camera' = [per_camera EXCEPT ![CameraOf[e]] = @ + 1]
           /\ timeline' = LastOf(Append(timeline, e), MAX_TIMELINE) /\ UNCHANGED alerts
  <2>1. CameraOf[e] \in Camera BY <1>1, AdminPortalAssumption
  <2>2. timeline' \in Ring(Detection, MAX_TIMELINE)
    BY <1>0, <1>1, LastOfRing, AdminPortalAssumption
  <2> QED BY <1>0, <1>1, <2>1, <2>2 DEF TypeOK, Seen
<1>2. CASE e \in Alert
           /\ alerts' = Append(IF Len(alerts) >= MAX_ALERTS THEN Tail(alerts) ELSE alerts, e)
           /\ UNCHANGED <<cameras, per_camera, timeline>>
  <2>1. alerts' \in Ring(Alert, MAX_ALERTS) BY <1>0, <1>2, StoreRing, AdminPortalAssumption
  <2> QED BY <1>0, <1>2, <2>1 DEF TypeOK
<1>3. CASE UNCHANGED portal BY <1>0, <1>3 DEF TypeOK, portal
<1> QED BY <1>1, <1>2, <1>3 DEF Recorded

\* What TypeOK says of the handlers.
Trying == [busy : BOOLEAN, todo : SUBSET Client, failed : SUBSET Client]

HandlersTyped(g) ==
  g \in [Message -> Trying] /\ \A m \in Message : g[m].todo \cap g[m].failed = {}

LEMMA HandlerReplaced ==
  ASSUME NEW g, HandlersTyped(g), NEW e \in Message,
         NEW new \in Trying, new.todo \cap new.failed = {}
  PROVE  HandlersTyped([g EXCEPT ![e] = new])
BY DEF HandlersTyped

LEMMA ReceiveTyped ==
  ASSUME TypeOK, NEW e \in Message, Receive(e),
         phase' \in [Camera -> {"registering", "beating"}], reported' \subseteq Event
  PROVE  TypeOK'
<1>1. Recorded(e) BY DEF Receive
<1>2. /\ timeline' \in Ring(Detection, MAX_TIMELINE) /\ alerts' \in Ring(Alert, MAX_ALERTS)
      /\ cameras' \in [Camera -> {"unknown", "active", "offline"}]
      /\ per_camera' \in [Camera -> Nat]
  BY <1>1, RecordedTyped
<1>3. /\ handlers' \in [Message -> [busy : BOOLEAN, todo : SUBSET Client, failed : SUBSET Client]]
      /\ \A m \in Message : handlers'[m].todo \cap handlers'[m].failed = {}
  BY DEF TypeOK, Receive, Broadcasting
<1>4. joining' = joining /\ clients' = clients /\ socket' = socket /\ shown' = shown
  BY DEF Receive, sockets
<1> QED BY <1>2, <1>3, <1>4 DEF TypeOK, Ring

LEMMA BroadcastTyped ==
  ASSUME TypeOK, NEW e \in Message, Broadcast(e)
  PROVE  TypeOK'
<1>1. CASE Finish(e)
  <2>1. /\ handlers' \in [Message -> [busy : BOOLEAN, todo : SUBSET Client, failed : SUBSET Client]]
        /\ \A m \in Message : handlers'[m].todo \cap handlers'[m].failed = {}
    BY <1>1 DEF TypeOK, Finish, Idle
  <2> QED BY <1>1, <2>1 DEF TypeOK, Finish, portal, Broadcast
<1>2. ASSUME NEW k \in Client, Send(e, k) PROVE TypeOK'
  <2>1. CASE socket[k] = "open"
    <3>1. /\ handlers' = [handlers EXCEPT ![e].todo = @ \ {k}]
          /\ shown' = [shown EXCEPT ![k] = @ \cup ({e} \cap Event)]
      BY <1>2, <2>1 DEF Send
    <3>2. HandlersTyped(handlers')
      <4> DEFINE h   == handlers[e]
                 new == [busy |-> h.busy, todo |-> h.todo \ {k}, failed |-> h.failed]
      <4>1. HandlersTyped(handlers) BY DEF TypeOK, HandlersTyped, Trying
      <4>2. h \in Trying /\ h.todo \cap h.failed = {} BY <4>1 DEF HandlersTyped
      <4>3. new \in Trying /\ new.todo \cap new.failed = {} BY <4>2 DEF Trying
      <4>4. handlers' = [handlers EXCEPT ![e] = new]
        <5>1. h = [busy |-> h.busy, todo |-> h.todo, failed |-> h.failed] BY <4>2 DEF Trying
        <5>2. [h EXCEPT !.todo = h.todo \ {k}] = new BY <5>1
        <5>3. handlers' = [handlers EXCEPT ![e] = [h EXCEPT !.todo = h.todo \ {k}]] BY <3>1
        <5> QED BY <5>2, <5>3
      <4> QED BY <4>1, <4>3, <4>4, HandlerReplaced
    <3>3. shown' \in [Client -> SUBSET Event] BY <3>1 DEF TypeOK
    <3> QED BY <1>2, <3>2, <3>3 DEF HandlersTyped, Trying, TypeOK, Send, portal, Broadcast
  <2>2. CASE socket[k] # "open"
    <3>1. /\ handlers' = [handlers EXCEPT ![e] =
                            [busy |-> TRUE, todo |-> @.todo \ {k}, failed |-> @.failed \cup {k}]]
          /\ UNCHANGED shown
      BY <1>2, <2>2 DEF Send, SendFailed
    <3>2. HandlersTyped(handlers')
      <4> DEFINE h   == handlers[e]
                 new == [busy |-> TRUE, todo |-> h.todo \ {k}, failed |-> h.failed \cup {k}]
      <4>1. HandlersTyped(handlers) BY DEF TypeOK, HandlersTyped, Trying
      <4>2. h \in Trying /\ h.todo \cap h.failed = {} BY <4>1 DEF HandlersTyped
      <4>3. new \in Trying /\ new.todo \cap new.failed = {} BY <4>2 DEF Trying
      <4>4. handlers' = [handlers EXCEPT ![e] = new] BY <3>1
      <4> QED BY <4>1, <4>3, <4>4, HandlerReplaced
    <3> QED BY <1>2, <3>1, <3>2 DEF HandlersTyped, Trying, TypeOK, Send, portal, Broadcast
  <2> QED BY <2>1, <2>2
<1> QED BY <1>1, <1>2 DEF Broadcast

LEMMA StepTyped == TypeOK /\ [Next]_vars => TypeOK'
<1> SUFFICES ASSUME TypeOK, [Next]_vars PROVE TypeOK'
  OBVIOUS
<1> USE DEF portal, sockets
<1>1. ASSUME NEW c \in Camera, NEW next \in {"registering", "beating"}, Register(c, next)
      PROVE  TypeOK'
  BY <1>1 DEF TypeOK, Register, RegisterCamera
<1>2. CASE CoordinatorRestarts BY <1>2 DEF TypeOK, CoordinatorRestarts, portalVars
<1>3. ASSUME NEW c \in Camera, Heartbeat(c) PROVE TypeOK'
  BY <1>3 DEF TypeOK, Heartbeat, After404, Seen
<1>4. ASSUME NEW e \in Event, Posted(e) PROVE TypeOK'
  <2>1. phase' \in [Camera -> {"registering", "beating"}] /\ reported' \subseteq Event
    BY <1>4 DEF TypeOK, Posted, Sent
  <2>2. CASE Receive(e) BY <2>1, <2>2, ReceiveTyped DEF Message
  <2>3. CASE UNCHANGED portalVars BY <2>1, <2>3 DEF TypeOK, portalVars
  <2> QED BY <1>4, <2>2, <2>3 DEF Posted
<1>5. ASSUME NEW d \in Detection, SendDetection(d) PROVE TypeOK'
  BY <1>4, <1>5 DEF SendDetection, Event
<1>6. ASSUME NEW a \in Alert, ReportAlert(a) PROVE TypeOK'
  BY <1>4, <1>6 DEF ReportAlert, Event
<1>7. CASE SendControl
  <2>1. Receive(Control) /\ UNCHANGED <<phase, reported>> BY <1>7 DEF SendControl
  <2>2. phase' \in [Camera -> {"registering", "beating"}] /\ reported' \subseteq Event
    BY <2>1 DEF TypeOK
  <2> QED BY <2>1, <2>2, ReceiveTyped DEF Message
<1>8. ASSUME NEW e \in Message, Broadcast(e) PROVE TypeOK'
  BY <1>8, BroadcastTyped
<1>9. CASE Environment
  <2>1. ASSUME NEW k \in Client,
               Connect(k) \/ Join(k) \/ Close(k) \/ Disconnect(k)
        PROVE  TypeOK'
    <3>1. CASE Connect(k) BY <1>9, <3>1 DEF TypeOK, Connect, Environment
    <3>2. CASE Join(k) BY <1>9, <3>2 DEF TypeOK, Join, Environment
    <3>3. CASE Close(k) BY <1>9, <3>3 DEF TypeOK, Close, Environment
    <3>4. CASE Disconnect(k) BY <1>9, <3>4 DEF TypeOK, Disconnect, Environment
    <3> QED BY <2>1, <3>1, <3>2, <3>3, <3>4
  <2>2. ASSUME NEW c \in Camera, RemoveCamera(c) \/ RefreshStatus(c) PROVE TypeOK'
    BY <1>9, <2>2 DEF TypeOK, RemoveCamera, RefreshStatus, Environment
  <2>3. CASE Restarted
    BY <1>9, <2>3, AdminPortalAssumption
       DEF TypeOK, Restarted, NoCameras, NoCounts, AllClosed, NothingShown, AllIdle, Idle,
           Environment
  <2> QED BY <1>9, <2>1, <2>2, <2>3 DEF Environment
<1>10. CASE UNCHANGED vars BY <1>10 DEF TypeOK, vars, portalVars
<1> QED BY <1>1, <1>2, <1>3, <1>5, <1>6, <1>7, <1>8, <1>9, <1>10 DEF Next

\* The portal's stores keep their types and limits, a broadcast tries no socket twice, and
\* the reporters' threads are where they can be.
THEOREM TypeCorrect == Spec => []TypeOK
<1> QED BY InitTyped, StepTyped, PTL DEF Spec

-----------------------------------------------------------------------------
\* What a step may do to the handlers, to the stores and to what is shown.

Quiet ==
  /\ UNCHANGED <<timeline, alerts, handlers>>
  /\ \A k \in Client : shown'[k] \subseteq shown[k]

LEMMA StepKinds ==
  ASSUME TypeOK, [Next]_vars
  PROVE  \/ Restarted \/ Quiet
         \/ \E e \in Message : Receive(e) \/ Finish(e) \/ \E k \in Client : Send(e, k)
<1> USE DEF portal, sockets
<1>1. ASSUME NEW e \in Event, Posted(e) PROVE Receive(e) \/ Quiet
  BY <1>1 DEF Posted, Quiet, portalVars
<1>2. CASE \E d \in Detection : SendDetection(d) BY <1>1, <1>2 DEF SendDetection, Event, Message
<1>3. CASE \E a \in Alert : ReportAlert(a) BY <1>1, <1>3 DEF ReportAlert, Event, Message
<1>4. CASE \E c \in Camera, next \in {"registering", "beating"} : Register(c, next)
  BY <1>4 DEF Register, RegisterCamera, Quiet
<1>5. CASE CoordinatorRestarts BY <1>5 DEF CoordinatorRestarts, Quiet, portalVars
<1>6. CASE \E c \in Camera : Heartbeat(c) BY <1>6 DEF Heartbeat, Quiet
<1>7. CASE SendControl BY <1>7 DEF SendControl, Message
<1>8. CASE \E e \in Message : Broadcast(e) BY <1>8 DEF Broadcast
<1>9. CASE Environment
  <2>1. ASSUME NEW k \in Client, Close(k) PROVE Quiet
    <3>1. \A j \in Client : shown'[j] \subseteq shown[j] BY <2>1 DEF TypeOK, Close
    <3> QED BY <2>1, <3>1 DEF Close, Quiet
  <2>2. ASSUME NEW k \in Client, Connect(k) \/ Join(k) \/ Disconnect(k) PROVE Quiet
    BY <2>2 DEF Connect, Join, Disconnect, Quiet
  <2>3. ASSUME NEW c \in Camera, RemoveCamera(c) \/ RefreshStatus(c) PROVE Quiet
    BY <2>3 DEF RemoveCamera, RefreshStatus, Quiet
  <2> QED BY <1>9, <2>1, <2>2, <2>3 DEF Environment
<1>10. CASE UNCHANGED vars BY <1>10 DEF vars, portalVars, Quiet
<1> QED BY <1>2, <1>3, <1>4, <1>5, <1>6, <1>7, <1>8, <1>9, <1>10 DEF Next

-----------------------------------------------------------------------------
\* Broadcasts.

\* A message that is not being handled has no socket left to serve.
IdleHasNoWork == \A e \in Message : handlers[e].todo # {} => handlers[e].busy

LEMMA SendStep ==
  ASSUME TypeOK, NEW e \in Message, NEW k \in Client, Send(e, k)
  PROVE  /\ \A m \in Message \ {e} : handlers'[m] = handlers[m]
         /\ handlers'[e].todo = handlers[e].todo \ {k}
         /\ handlers'[e].busy \in {TRUE, handlers[e].busy}
         /\ UNCHANGED socket
<1>1. CASE handlers' = [handlers EXCEPT ![e].todo = @ \ {k}] BY <1>1 DEF TypeOK, Send
<1>2. CASE SendFailed(e, k) BY <1>2 DEF TypeOK, Send, SendFailed
<1> QED BY <1>1, <1>2 DEF Send

LEMMA ReceiveStep ==
  ASSUME TypeOK, NEW e \in Message, Receive(e)
  PROVE  /\ \A m \in Message \ {e} : handlers'[m] = handlers[m]
         /\ ~handlers[e].busy /\ handlers'[e].busy
BY DEF TypeOK, Receive, Broadcasting

LEMMA FinishStep ==
  ASSUME TypeOK, NEW e \in Message, Finish(e)
  PROVE  /\ \A m \in Message \ {e} : handlers'[m] = handlers[m]
         /\ handlers[e].todo = {} /\ handlers'[e] = Idle
BY DEF TypeOK, Finish

LEMMA IdleInit == Init => IdleHasNoWork
BY DEF Init, Started, AllIdle, Idle, IdleHasNoWork

LEMMA IdleStep == TypeOK /\ IdleHasNoWork /\ [Next]_vars => IdleHasNoWork'
<1> SUFFICES ASSUME TypeOK, IdleHasNoWork, [Next]_vars PROVE IdleHasNoWork'
  OBVIOUS
<1>1. ASSUME NEW e \in Message, Receive(e) PROVE IdleHasNoWork'
  BY <1>1, ReceiveStep DEF IdleHasNoWork
<1>2. ASSUME NEW e \in Message, Finish(e) PROVE IdleHasNoWork'
  BY <1>2, FinishStep DEF IdleHasNoWork, Idle
<1>3. ASSUME NEW e \in Message, NEW k \in Client, Send(e, k) PROVE IdleHasNoWork'
  BY <1>3, SendStep DEF IdleHasNoWork
<1>4. CASE Restarted BY <1>4 DEF Restarted, AllIdle, Idle, IdleHasNoWork
<1>5. CASE Quiet BY <1>5 DEF Quiet, IdleHasNoWork
<1> QED BY <1>1, <1>2, <1>3, <1>4, <1>5, StepKinds DEF Message

\* A broadcast strikes a socket off its list only after it has sent the message or has
\* found the socket closed, whatever happens to the other sockets and broadcasts.
THEOREM NobodyIsSkipped == Spec => NobodySkipped
<1>1. ASSUME TypeOK, IdleHasNoWork, [Next]_vars, NEW e \in Message, NEW k \in Client,
             k \in handlers[e].todo \ handlers'[e].todo, socket'[k] = "open"
      PROVE  e \in shown'[k] \cup {Control}
  <2>1. ASSUME NEW m \in Message, Receive(m) PROVE FALSE
    BY <1>1, <2>1, ReceiveStep DEF IdleHasNoWork
  <2>2. ASSUME NEW m \in Message, Finish(m) PROVE FALSE BY <1>1, <2>2, FinishStep
  <2>3. ASSUME NEW m \in Message, NEW j \in Client, Send(m, j)
        PROVE  e \in shown'[k] \cup {Control}
    <3>1. m = e /\ j = k /\ socket[k] = "open" BY <1>1, <2>3, SendStep
    <3>2. shown' = [shown EXCEPT ![k] = @ \cup ({e} \cap Event)] BY <2>3, <3>1 DEF Send
    <3>3. shown \in [Client -> SUBSET Event] BY <1>1 DEF TypeOK
    <3>4. shown'[k] = shown[k] \cup ({e} \cap Event) BY <3>2, <3>3
    <3> QED BY <3>4 DEF Message
  <2>4. CASE Restarted BY <1>1, <2>4 DEF Restarted, AllClosed
  <2>5. CASE Quiet BY <1>1, <2>5 DEF Quiet
  <2> QED BY <1>1, <2>1, <2>2, <2>3, <2>4, <2>5, StepKinds DEF Message
<1>2. TypeOK /\ IdleHasNoWork /\ [Next]_vars =>
        [\A e \in Message, k \in Client :
           k \in handlers[e].todo \ handlers'[e].todo /\ socket'[k] = "open" =>
             e \in shown'[k] \cup {Control}]_vars
  <2> SUFFICES ASSUME TypeOK, IdleHasNoWork, [Next]_vars, NEW e \in Message, NEW k \in Client,
                      k \in handlers[e].todo \ handlers'[e].todo /\ socket'[k] = "open"
               PROVE  e \in shown'[k] \cup {Control}
    OBVIOUS
  <2> QED BY <1>1
<1> QED BY <1>2, InitTyped, StepTyped, IdleInit, IdleStep, PTL DEF Spec, NobodySkipped

-----------------------------------------------------------------------------
\* Pushes.

\* Inductive: an event is recorded from the moment its broadcast begins.
PushedInv ==
  /\ ShownIsRecorded
  /\ \A e \in Event : handlers[e].busy => IsRecorded(e)

LEMMA AppendHolds ==
  ASSUME NEW S, NEW max \in Nat, NEW s \in Seq(S), NEW e \in S, Len(s) # max
  PROVE  /\ Holds(Append(s, e), max, e)
         /\ \A x : Holds(s, max, x) => Holds(Append(s, e), max, x)
<1> DEFINE t == Append(s, e)
<1>1. PICK n \in Nat : n = Len(s) OBVIOUS
<1>2. DOMAIN s = 1 .. n BY <1>1
<1>3. t \in Seq(S) /\ Len(t) = n + 1 BY <1>1
<1>4. DOMAIN t = 1 .. (n + 1) BY <1>3
<1>5. t[n + 1] = e /\ \A i \in 1 .. n : t[i] = s[i] BY <1>1
<1> HIDE DEF t
<1>6. Holds(t, max, e)
  <2>1. n + 1 \in DOMAIN t BY <1>4
  <2> QED BY <1>5, <2>1 DEF Holds
<1>7. ASSUME NEW x, Holds(s, max, x) PROVE Holds(t, max, x)
  <2>1. PICK i \in DOMAIN s : s[i] = x BY <1>7 DEF Holds
  <2>2. i \in DOMAIN t /\ t[i] = x BY <1>2, <1>4, <1>5, <2>1
  <2> QED BY <2>2 DEF Holds
<1> QED BY <1>6, <1>7 DEF t

\* Both stores hold a new element and go on to hold what they held.
LEMMA TimelineHolds ==
  ASSUME NEW S, NEW max \in Nat \ {0}, NEW s \in Ring(S, max), NEW e \in S,
         NEW t, t = LastOf(Append(s, e), max)
  PROVE  Holds(t, max, e) /\ \A x : Holds(s, max, x) => Holds(t, max, x)
<1>1. Append(s, e) \in Seq(S) /\ Len(Append(s, e)) = Len(s) + 1 /\ Len(s) \in Nat
  BY DEF Ring
<1>2. CASE Len(s) = max
  <2>1. Len(SubSeq(Append(s, e), Len(Append(s, e)) - max + 1, Len(Append(s, e)))) = max
    BY <1>1, <1>2
  <2>2. Len(t) = max BY <1>1, <1>2, <2>1 DEF LastOf
  <2> QED BY <2>2 DEF Holds
<1>3. CASE Len(s) # max
  <2>1. t = Append(s, e) BY <1>1, <1>3 DEF LastOf, Ring
  <2> QED BY <1>3, <2>1, AppendHolds DEF Ring
<1> QED BY <1>2, <1>3

LEMMA StoreHolds ==
  ASSUME NEW S, NEW max \in Nat \ {0}, NEW s \in Ring(S, max), NEW e \in S,
         NEW t, t = Append(IF Len(s) >= max THEN Tail(s) ELSE s, e)
  PROVE  Holds(t, max, e) /\ \A x : Holds(s, max, x) => Holds(t, max, x)
<1>1. Len(s) \in Nat /\ Len(s) <= max BY DEF Ring
<1>2. CASE Len(s) = max
  <2>1. Tail(s) \in Seq(S) /\ Len(Tail(s)) = max - 1 BY <1>2 DEF Ring
  <2>2. Len(t) = max BY <1>2, <2>1
  <2> QED BY <2>2 DEF Holds
<1>3. CASE Len(s) # max
  <2>1. t = Append(s, e) BY <1>1, <1>3
  <2> QED BY <1>3, <2>1, AppendHolds DEF Ring
<1> QED BY <1>2, <1>3

LEMMA ReceiveRecords ==
  ASSUME TypeOK, NEW e \in Message, Receive(e)
  PROVE  /\ e \in Event => IsRecorded(e)'
         /\ \A x \in Event : IsRecorded(x) => IsRecorded(x)'
<1>0. timeline \in Ring(Detection, MAX_TIMELINE) /\ alerts \in Ring(Alert, MAX_ALERTS)
  BY DEF TypeOK, Ring
<1>1. CASE e \in Detection /\ UNCHANGED alerts
           /\ timeline' = LastOf(Append(timeline, e), MAX_TIMELINE)
  <2>1. /\ Holds(timeline', MAX_TIMELINE, e)
        /\ \A x : Holds(timeline, MAX_TIMELINE, x) => Holds(timeline', MAX_TIMELINE, x)
    BY <1>0, <1>1, TimelineHolds, AdminPortalAssumption
  <2>2. e \notin Alert BY <1>1, AdminPortalAssumption
  <2> QED BY <1>1, <2>1, <2>2 DEF IsRecorded
<1>2. CASE e \in Alert /\ UNCHANGED timeline
           /\ alerts' = Append(IF Len(alerts) >= MAX_ALERTS THEN Tail(alerts) ELSE alerts, e)
  <2>1. /\ Holds(alerts', MAX_ALERTS, e)
        /\ \A x : Holds(alerts, MAX_ALERTS, x) => Holds(alerts', MAX_ALERTS, x)
    BY <1>0, <1>2, StoreHolds, AdminPortalAssumption
  <2>2. e \notin Detection BY <1>2, AdminPortalAssumption
  <2> QED BY <1>2, <2>1, <2>2 DEF IsRecorded
<1>3. CASE e = Control /\ UNCHANGED portal
  BY <1>3, AdminPortalAssumption DEF IsRecorded, Event, portal
<1> QED BY <1>1, <1>2, <1>3 DEF Receive, Recorded

LEMMA PushedInit == Init => PushedInv
BY DEF Init, Started, NothingShown, AllIdle, Idle, PushedInv, ShownIsRecorded, Message

LEMMA PushedKept == TypeOK /\ IdleHasNoWork /\ PushedInv /\ [Next]_vars => PushedInv'
<1> SUFFICES ASSUME TypeOK, IdleHasNoWork, PushedInv, [Next]_vars PROVE PushedInv'
  OBVIOUS
<1>1. ASSUME NEW e \in Message, Receive(e) PROVE PushedInv'
  <2>1. shown' = shown /\ \A k \in Client : shown[k] \subseteq Event
    BY <1>1 DEF Receive, sockets, TypeOK
  <2>2. ASSUME NEW m \in Event, handlers'[m].busy PROVE IsRecorded(m)'
    <3>1. CASE m = e BY <1>1, <3>1, ReceiveRecords
    <3>2. CASE m # e BY <1>1, <2>2, <3>2, ReceiveRecords, ReceiveStep DEF PushedInv, Message
    <3> QED BY <3>1, <3>2
  <2>3. ASSUME NEW k \in Client, NEW m \in shown[k] PROVE IsRecorded(m)'
    BY <1>1, <2>1, ReceiveRecords DEF PushedInv, ShownIsRecorded
  <2> QED BY <2>1, <2>2, <2>3 DEF PushedInv, ShownIsRecorded
<1>2. ASSUME UNCHANGED <<timeline, alerts>>,
             \A m \in Event : handlers'[m].busy => handlers[m].busy,
             \A k \in Client : \A m \in shown'[k] : m \in shown[k] \/ IsRecorded(m)
      PROVE  PushedInv'
  BY <1>2 DEF PushedInv, ShownIsRecorded, IsRecorded
<1>3. ASSUME NEW e \in Message, Finish(e) PROVE PushedInv'
  <2>1. \A m \in Event : handlers'[m].busy => handlers[m].busy
    BY <1>3, FinishStep DEF Message, Idle
  <2> QED BY <1>2, <1>3, <2>1 DEF Finish, portal
<1>4. ASSUME NEW e \in Message, NEW k \in Client, Send(e, k) PROVE PushedInv'
  <2>1. handlers[e].busy BY <1>4 DEF Send, IdleHasNoWork
  <2>2. \A m \in Event : handlers'[m].busy => handlers[m].busy
    BY <1>4, <2>1, SendStep DEF Message
  <2>3. shown \in [Client -> SUBSET Event] BY DEF TypeOK
  <2>4. \A j \in Client : shown'[j] \subseteq shown[j] \cup ({e} \cap Event)
    BY <1>4, <2>3 DEF Send
  <2>5. e \in Event => IsRecorded(e) BY <2>1 DEF PushedInv
  <2> QED BY <1>2, <1>4, <2>2, <2>4, <2>5 DEF Send, portal
<1>5. CASE Restarted
  BY <1>5 DEF Restarted, NothingShown, AllIdle, Idle, PushedInv, ShownIsRecorded, Message
<1>6. CASE Quiet BY <1>2, <1>6 DEF Quiet
<1> QED BY <1>1, <1>3, <1>4, <1>5, <1>6, StepKinds DEF Message

\* No dashboard is shown an event that the portal has not recorded.
THEOREM PushesAreRecorded == Spec => []ShownIsRecorded
<1>1. PushedInv => ShownIsRecorded BY DEF PushedInv
<1> QED BY <1>1, InitTyped, StepTyped, IdleInit, IdleStep, PushedInit, PushedKept, PTL DEF Spec

================================================================================
