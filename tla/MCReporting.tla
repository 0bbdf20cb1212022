------------------------------ MODULE MCReporting ------------------------------
(***************************************************************************)
(* Reporting for TLC: the detections are the camera worker's, the alerts   *)
(* the coordinator's.                                                      *)
(***************************************************************************)
EXTENDS Reporting

CONSTANT worker

MCCameraOf == [d \in Detection |-> worker]

================================================================================
