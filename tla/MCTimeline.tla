------------------------------ MODULE MCTimeline ------------------------------
(***************************************************************************)
(* Quarters of days, from a Thursday on: a gap of ten of them crosses a    *)
(* weekend.                                                                *)
(*                                                                         *)
(* MCNext is Next with bounds of its own: a timeline has notes and         *)
(* MaxChanges changes, or a long gap, block labels and four.               *)
(***************************************************************************)
EXTENDS CachedTimes

CONSTANTS ann, bob, eve, d1, d2, l1, l2

MCReviewers == {bob, eve}

MCDiscs == {d1, d2}

MCLabels == {l1, l2}

MCGaps == {2, 10}

MCCalendars == {{5, 7}}

NoLabels ==
  /\ labels = {} /\ blockLabels = Labels
  /\ Rows("block_label_added") = {}

(* How much longer the gaps were than they had to be.                      *)
Delay == now - (Start + 2 * changes)

MCNext ==
  \/ /\ comments = <<>> /\ changes < 4
     /\ \E long \in {FALSE} \union {Delay = 0} :
          now' = now + IF long THEN 10 ELSE 2
     /\ PollLabels \/ SetBlockLabels \/ PollDraft \/ PollReviewer
  \/ /\ NoLabels /\ Delay = 0
     /\ now' = now + 2
     /\ PollDraft \/ PollNote \/ PollResolved \/ PollReopened \/ PollReviewer
  \/ PollAgain

MCSpec == Init /\ [][MCNext]_vars

MCSymmetry ==
  Permutations(MCReviewers) \union Permutations(MCDiscs)
    \union Permutations(MCLabels)
==============================================================================
