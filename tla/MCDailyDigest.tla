----------------------------- MODULE MCDailyDigest ----------------------------
(***************************************************************************)
(* A user in Moscow, London, on Hawaii or in Auckland, from Saturday to    *)
(* Monday night.                                                           *)
(***************************************************************************)
EXTENDS DailyDigest

CONSTANTS r1, r2

MCProjects == {r1, r2}

MCZones == {-10, 0, 3, 12}
==============================================================================
