------------------------------ MODULE AdminPortal ------------------------------
(***************************************************************************)
(* The Admin Portal's backend: the cameras it knows (CameraManager), the   *)
(* analytics (AnalyticsManager), the alert store (control_routes) and the  *)
(* dashboards' sockets (WebSocketManager), all in memory.                  *)
(*                                                                         *)
(* A detection, an alert or a control command is handled by a coroutine of *)
(* the one event loop: it runs without a break up to its first await and   *)
(* between two of them.  The awaits are the sends of the broadcast, one    *)
(* per socket of the snapshot that the broadcast works through.            *)
(***************************************************************************)
EXTENDS Naturals, Sequences, FiniteSets

CONSTANTS
  Camera,    \* camera ids: coordinators' and camera workers'
  Detection, \* detection events, each the report of one job or video frame
  Alert,     \* alert events
  Control,   \* a command for a camera: broadcast, but not kept
  CameraOf,  \* the camera that a detection event is about
  Client,    \* dashboards, each with at most one socket at a time
  MAX_TIMELINE,
  MAX_ALERTS,
  MaxRequests \* bound: requests that are handled at once

Event == Detection \cup Alert
Message == Event \cup {Control}

ASSUME AdminPortalAssumption ==
  /\ CameraOf \in [Detection -> Camera]
  /\ Detection \cap Alert = {} /\ Control \notin Event
  /\ {MAX_TIMELINE, MAX_ALERTS, MaxRequests} \subseteq Nat \ {0}

VARIABLES
  cameras,    \* status of each camera: "unknown" is not registered
  per_camera, \* detections counted for each camera
  timeline,   \* the last MAX_TIMELINE detections
  alerts,     \* the last MAX_ALERTS alerts, newest last
  joining,    \* sockets whose endpoint has not added them yet
  clients,    \* sockets that the WebSocketManager knows
  socket,     \* of each client: "open", or "closed", as far as the server knows
  shown,      \* events that a dashboard has received on its present socket
  handlers    \* of each message, its handler: none (idle), or a broadcast under way

portal == <<cameras, per_camera, timeline, alerts>>
sockets == <<joining, clients, socket, shown>>
portalVars == <<portal, sockets, handlers>>

\* todo: sockets of the snapshot that are still to be served.
Idle == [busy |-> FALSE, todo |-> {}, failed |-> {}]
Broadcasting == [busy |-> TRUE, todo |-> clients, failed |-> {}]

NoCameras == [c \in Camera |-> "unknown"]
NoCounts == [c \in Camera |-> 0]
AllClosed == [k \in Client |-> "closed"]
NothingShown == [k \in Client |-> {}]
AllIdle == [e \in Message |-> Idle]

Started ==
  /\ cameras = NoCameras /\ per_camera = NoCounts /\ timeline = <<>> /\ alerts = <<>>
  /\ joining = {} /\ clients = {} /\ socket = AllClosed /\ shown = NothingShown
  /\ handlers = AllIdle

\* The process ends and another one starts.
Restarted ==
  /\ cameras' = NoCameras /\ per_camera' = NoCounts /\ timeline' = <<>> /\ alerts' = <<>>
  /\ joining' = {} /\ clients' = {} /\ socket' = AllClosed /\ shown' = NothingShown
  /\ handlers' = AllIdle

-----------------------------------------------------------------------------
\* The cameras.

RegisterCamera(c) ==
  /\ cameras' = [cameras EXCEPT ![c] = "active"]
  /\ UNCHANGED <<per_camera, timeline, alerts, sockets, handlers>>

RemoveCamera(c) ==
  /\ cameras' = [cameras EXCEPT ![c] = "unknown"]
  /\ UNCHANGED <<per_camera, timeline, alerts, sockets, handlers>>

\* update_last_seen: what a heartbeat or a detection does to the camera's status.
Known(c) == cameras[c] # "unknown"
Seen(c) == IF Known(c) THEN [cameras EXCEPT ![c] = "active"] ELSE cameras

\* Someone asks for the cameras when nothing was seen of c for
\* CAMERA_HEARTBEAT_TIMEOUT: only then it is marked.
RefreshStatus(c) ==
  /\ Known(c) /\ cameras' = [cameras EXCEPT ![c] = "offline"]
  /\ UNCHANGED <<per_camera, timeline, alerts, sockets, handlers>>

-----------------------------------------------------------------------------
\* The handlers.

LastOf(s, max) == IF Len(s) > max THEN SubSeq(s, Len(s) - max + 1, Len(s)) ELSE s

\* What the handler of e does before its first await.  An event of a camera that is not
\* registered is counted like any other, and does not register it.
Unrecorded(e) == UNCHANGED portal             \* a mutant of the next
Recorded(e) ==
  \/ /\ e \in Detection
     /\ cameras' = Seen(CameraOf[e])
     /\ per_camera' = [per_camera EXCEPT ![CameraOf[e]] = @ + 1]
     /\ timeline' = LastOf(Append(timeline, e), MAX_TIMELINE)
     /\ UNCHANGED alerts
  \/ /\ e \in Alert
     /\ alerts' = Append(IF Len(alerts) >= MAX_ALERTS THEN Tail(alerts) ELSE alerts, e)
     /\ UNCHANGED <<cameras, per_camera, timeline>>
  \/ e = Control /\ UNCHANGED portal

\* A request with message e reaches the portal.
Receive(e) ==
  /\ ~handlers[e].busy
  /\ Cardinality({m \in Message : handlers[m].busy}) < MaxRequests
  /\ Recorded(e)
  /\ handlers' = [handlers EXCEPT ![e] = Broadcasting]
  /\ UNCHANGED sockets

SendRetried(e, k) ==                          \* a mutant of SendFailed
  handlers' = [handlers EXCEPT ![e].failed = @ \cup {k}]
SendAbandoned(e, k) ==                        \* another
  handlers' = [handlers EXCEPT ![e].todo = {}, ![e].failed = @ \cup {k}]
SendFailed(e, k) ==
  handlers' = [handlers EXCEPT ![e] =
                 [busy |-> TRUE, todo |-> @.todo \ {k}, failed |-> @.failed \cup {k}]]

\* send_json: an open socket gets the message, a closed one raises an exception.
Send(e, k) ==
  /\ k \in handlers[e].todo
  /\ IF socket[k] = "open"
     THEN /\ handlers' = [handlers EXCEPT ![e].todo = @ \ {k}]
          /\ shown' = [shown EXCEPT ![k] = @ \cup ({e} \cap Event)]
     ELSE SendFailed(e, k) /\ UNCHANGED shown
  /\ UNCHANGED <<portal, joining, clients, socket>>

FinishKeeping(e) ==                           \* a mutant of the next
  /\ handlers[e].busy /\ handlers[e].todo = {}
  /\ handlers' = [handlers EXCEPT ![e] = Idle]
  /\ UNCHANGED <<portal, sockets>>

\* The sockets that failed are forgotten and the request is answered.
Finish(e) ==
  /\ handlers[e].busy /\ handlers[e].todo = {}
  /\ clients' = clients \ handlers[e].failed
  /\ handlers' = [handlers EXCEPT ![e] = Idle]
  /\ UNCHANGED <<portal, joining, socket, shown>>

-----------------------------------------------------------------------------
\* The sockets.

\* accept.  A new socket is another object: nothing of the old one is left when an id
\* is reused.
Connect(k) ==
  /\ socket[k] = "closed" /\ k \notin joining \cup clients
  /\ \A e \in Message : k \notin handlers[e].todo \cup handlers[e].failed
  /\ socket' = [socket EXCEPT ![k] = "open"]
  /\ joining' = joining \cup {k}
  /\ UNCHANGED <<portal, clients, shown, handlers>>

\* The endpoint goes on after accept; the dashboard may have left meanwhile.
Join(k) ==
  /\ k \in joining
  /\ joining' = joining \ {k} /\ clients' = clients \cup {k}
  /\ UNCHANGED <<portal, socket, shown, handlers>>

\* The dashboard leaves, or the endpoint fails: receive_text raises an exception.
Close(k) ==
  /\ socket[k] = "open"
  /\ socket' = [socket EXCEPT ![k] = "closed"]
  /\ shown' = [shown EXCEPT ![k] = {}]
  /\ UNCHANGED <<portal, joining, clients, handlers>>

\* The exception was WebSocketDisconnect.  After any other (a binary message raises
\* one) the endpoint ends without this step.
Disconnect(k) ==
  /\ socket[k] = "closed" /\ k \in clients
  /\ clients' = clients \ {k}
  /\ UNCHANGED <<portal, joining, socket, shown, handlers>>

================================================================================
