------------------------------- MODULE Reporting -------------------------------
(***************************************************************************)
(* Who talks to the Admin Portal: a coordinator, whose AdminReporter       *)
(* registers, sends heartbeats, reports finished jobs and pushes alerts; a *)
(* camera worker; an operator; dashboards.  The portal may restart at any  *)
(* time and forget everything.  Requests may be lost; a caller may give up *)
(* a request, and the portal serves it all the same, so the caller's       *)
(* time-outs are no steps of the model.                                    *)
(***************************************************************************)
EXTENDS AdminPortal

CONSTANT Reporter  \* the coordinator's CAMERA_ID; the other cameras are camera workers

ASSUME ReportingAssumption == Reporter \in Camera

VARIABLES
  phase,   \* of each camera's registration and heartbeat threads
  reported \* detections and alerts whose call has been made

vars == <<portalVars, phase, reported>>

Init ==
  /\ Started
  /\ phase = [c \in Camera |-> "registering"]
  /\ reported = {}

-----------------------------------------------------------------------------
\* Registration and heartbeats.  A call that does not arrive changes nothing.

\* The thread registers until it gets an answer, which may be lost.
Register(c, next) ==
  /\ phase[c] = "registering" /\ phase' = [phase EXCEPT ![c] = next]
  /\ RegisterCamera(c)
  /\ UNCHANGED reported

\* What a thread does after a 404: the camera worker does not look at the answer.
GoesOn(c) == "beating"                        \* a mutant of the next
After404(c) == IF c = Reporter THEN "registering" ELSE "beating"

Heartbeat(c) ==
  /\ phase[c] = "beating"
  /\ phase' = [phase EXCEPT ![c] = IF Known(c) THEN "beating" ELSE After404(c)]
  /\ cameras' = Seen(c)
  /\ UNCHANGED <<per_camera, timeline, alerts, sockets, handlers, reported>>

-----------------------------------------------------------------------------
\* Reports.

Sent(e) == e \notin reported /\ reported' = reported \cup {e}

\* One call for each report, whatever becomes of it: no caller repeats one.
Posted(e) ==
  /\ Sent(e)
  /\ Receive(e) \/ UNCHANGED portalVars
  /\ UNCHANGED phase

\* The camera worker captures nothing before it is registered.
Captures(c) == c = Reporter \/ phase[c] = "beating"

SendDetection(d) == Captures(CameraOf[d]) /\ Posted(d)

ReportAlert(a) == Posted(a)

SendControl == Receive(Control) /\ UNCHANGED <<phase, reported>>

-----------------------------------------------------------------------------
Broadcast(e) ==
  /\ Finish(e) \/ \E k \in Client : Send(e, k)
  /\ UNCHANGED <<phase, reported>>

\* The coordinator's process ends and another one starts, without removing the camera.
\* A camera worker that ends is one that sends nothing any more.
CoordinatorRestarts ==
  /\ phase' = [phase EXCEPT ![Reporter] = "registering"]
  /\ UNCHANGED <<portalVars, reported>>

Environment ==
  /\ \/ \E k \in Client : Connect(k) \/ Join(k) \/ Close(k) \/ Disconnect(k)
     \/ \E c \in Camera : RemoveCamera(c) \/ RefreshStatus(c)
     \/ Restarted
  /\ UNCHANGED <<phase, reported>>

Next ==
  \/ \E c \in Camera, next \in {"registering", "beating"} : Register(c, next)
  \/ CoordinatorRestarts \/ \E c \in Camera : Heartbeat(c)
  \/ \E d \in Detection : SendDetection(d)
  \/ \E a \in Alert : ReportAlert(a)
  \/ SendControl \/ \E e \in Message : Broadcast(e)
  \/ Environment

Spec == Init /\ [][Next]_vars

\* A broadcast goes on: the server closes a socket that stalls.  The calls of the
\* reporter's thread get through again and again.
FairSpec ==
  /\ Spec
  /\ \A e \in Message : WF_vars(Broadcast(e))
  /\ SF_vars(Register(Reporter, "beating"))
  /\ SF_vars(Heartbeat(Reporter))

-----------------------------------------------------------------------------
\* Properties.

TypeOK ==
  /\ cameras \in [Camera -> {"unknown", "active", "offline"}] /\ per_camera \in [Camera -> Nat]
  /\ timeline \in Seq(Detection) /\ Len(timeline) <= MAX_TIMELINE
  /\ alerts \in Seq(Alert) /\ Len(alerts) <= MAX_ALERTS
  /\ joining \cup clients \subseteq Client /\ socket \in [Client -> {"closed", "open"}]
  /\ shown \in [Client -> SUBSET Event]
  /\ handlers \in [Message -> [busy : BOOLEAN, todo : SUBSET Client, failed : SUBSET Client]]
  /\ \A e \in Message : handlers[e].todo \cap handlers[e].failed = {}
  /\ phase \in [Camera -> {"registering", "beating"}]
  /\ reported \subseteq Event

\* The store that e goes to holds it or has filled up.
Holds(ring, max, e) == Len(ring) = max \/ \E i \in DOMAIN ring : ring[i] = e
IsRecorded(e) ==
  /\ e \in Detection => Holds(timeline, MAX_TIMELINE, e)
  /\ e \in Alert => Holds(alerts, MAX_ALERTS, e)

\* What a dashboard has been pushed it also finds when it asks, unless the store has
\* filled up since (control_routes.py:23-25, 45-49).
ShownIsRecorded == \A k \in Client : \A e \in shown[k] : IsRecorded(e)

\* A broadcast leaves out no socket that works, whatever happens to the others
\* (websocket_manager.py:22-30).
NobodySkipped ==
  [][\A e \in Message, k \in Client :
       k \in handlers[e].todo \ handlers'[e].todo /\ socket'[k] = "open" =>
         e \in shown'[k] \cup {Control}]_vars

\* A socket that is gone leaves the WebSocketManager in the end if broadcasts go on,
\* also when its endpoint ended without disconnect (main.py:46, websocket_manager.py:29).
GhostsLeave ==
  \A k \in Client :
    []<>(\E e \in Message : handlers[e].busy) /\ <>[](socket[k] = "closed")
      => <>[](k \notin clients)

\* The coordinator is shown as active again and again, however often the portal
\* restarts and forgets it, the operator removes it or it falls silent
\* (admin_reporter.py:69-92).
ComesBack == []<>(cameras[Reporter] = "active")

================================================================================
