--------------------------- MODULE MCReleaseNotify ----------------------------
(***************************************************************************)
(* Small instances of ReleaseNotify for TLC.                               *)
(***************************************************************************)
EXTENDS ReleaseNotify
==============================================================================
