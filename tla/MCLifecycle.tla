---------------------------- MODULE MCLifecycle ----------------------------
(* Instances of ServerLifecycle for TLC. *)
EXTENDS ServerLifecycle, TLC

CONSTANTS stop1, stop2, c1, quiet
============================================================================
