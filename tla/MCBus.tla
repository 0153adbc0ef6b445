-------------------------------- MODULE MCBus --------------------------------
(* Bus for TLC.                                                            *)
EXTENDS Bus
=============================================================================
