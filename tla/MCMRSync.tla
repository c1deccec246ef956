------------------------------- MODULE MCMRSync -------------------------------
(***************************************************************************)
(* Small instances of MRSync for TLC.  Symmetry is unsound for the         *)
(* temporal properties and is not used.                                    *)
(***************************************************************************)
EXTENDS MRSync
==============================================================================
