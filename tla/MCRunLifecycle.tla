--------------------------- MODULE MCRunLifecycle ---------------------------
(* RunLifecycle for TLC: bounds are in the configurations.                 *)
EXTENDS RunLifecycle
=============================================================================
