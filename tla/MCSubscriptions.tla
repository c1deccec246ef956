--------------------------- MODULE MCSubscriptions ----------------------------
(* Two repositories, two chats, one setting that is only added, one that   *)
(* can be cleared, one that outlives a take-over, and two managers.        *)
EXTENDS Subscriptions, TLC

CONSTANTS r1, r2, c1, c2

MCSymmetry == Permutations({r1, r2}) \union Permutations({c1, c2})

=============================================================================
