--------------------------- MODULE MCDeployTracking ---------------------------
(***************************************************************************)
(* Small instances of DeployTracking for TLC.                              *)
(***************************************************************************)
EXTENDS DeployTracking
==============================================================================
