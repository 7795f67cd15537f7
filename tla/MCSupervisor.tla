---------------------------- MODULE MCSupervisor ----------------------------
(* Instances of Supervisor for TLC. *)
EXTENDS Supervisor

AllKinds == {"tray", "window", "serve"}
OneKind == {"tray"}
BothLabels == {"viewer", "dashboard"}
OneLabel == {"dashboard"}
============================================================================
