------------------------- MODULE MCReviewerAssignment -------------------------
(* Three users and two labels; a start without reviewers, and one whose    *)
(* labels have a reviewer in common.                                       *)
EXTENDS ReviewerAssignment

MCPeople == {"author", "u1", "u2"}

MCLabels == {1, 2}

MCStarts ==
  {[count |-> 1, pool |-> {}, team |-> NoGroups, spent |-> NoGroups],
   [count |-> 2, pool |-> {"author", "u1"},
    team |-> [l \in Labels |-> IF l = 1 THEN {"u1", "u2"} ELSE {"u2"}],
    spent |-> NoGroups]}

=============================================================================
