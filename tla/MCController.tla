---------------------------- MODULE MCController ----------------------------
(* Two workers whose ids are ordered, so that one is always scanned first. *)
EXTENDS ControllerExecution

MCWorkers == {1, 2}
=============================================================================
