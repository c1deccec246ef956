---------------------------- MODULE MCAutoRelease -----------------------------
(***************************************************************************)
(* Small instances of AutoRelease for TLC.                                 *)
(***************************************************************************)
EXTENDS AutoRelease
==============================================================================
