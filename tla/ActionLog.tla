------------------------------ MODULE ActionLog ------------------------------
(***************************************************************************)
(* The timeline of a merge request: the MRAction rows that the poller      *)
(* writes and that the notification and SLA code reads back.               *)
(*                                                                         *)
(* A row is the record [type, user, meta, ts].  `user' stands for the      *)
(* actor or target of the action, `meta' for its metadata (the label, the  *)
(* new draft flag), and `ts' for its timestamp in ticks.  recordMRAction   *)
(* drops an action when a row of the same type and user is younger than    *)
(* DedupWindow (one minute in the code).  The comparison ignores `meta'.   *)
(***************************************************************************)
EXTENDS Naturals

CONSTANT DedupWindow    \* recordMRAction's minute, in ticks

ASSUME DedupWindowAssumption == DedupWindow \in Nat \ {0}

SameKey(a, b) == a.type = b.type /\ a.user = b.user

(***************************************************************************)
(* The lookup of recordMRAction: a row of the same key whose timestamp is  *)
(* later than ts - window.                                                 *)
(***************************************************************************)
Duplicate(log, a) ==
  \E b \in log : SameKey(a, b) /\ b.ts + DedupWindow > a.ts

Fresh(log, batch) == {a \in batch : ~ Duplicate(log, a)}

(***************************************************************************)
(* What the calls of recordMRAction for the actions of `batch', made one   *)
(* after the other with one timestamp, can add to `log': one action of     *)
(* each key that is not a duplicate of an older row.  Which one is left    *)
(* open: the code ranges over Go maps.                                     *)
(***************************************************************************)
Additions(log, batch) ==
  {T \in SUBSET Fresh(log, batch) :
      \A a \in Fresh(log, batch) :
         \E t \in T : /\ SameKey(a, t)
                      /\ \A b \in T : SameKey(a, b) => b = t}

(***************************************************************************)
(* The same when calls may fail: an error of the lookup reads as "no       *)
(* duplicate", an error of the write is logged and dropped, and the caller *)
(* learns of neither, so that a call may add its row or not, whatever the  *)
(* log holds.                                                              *)
(***************************************************************************)
Recorded(log, batch, mayFail) ==
  IF mayFail THEN SUBSET batch ELSE Additions(log, batch)

(***************************************************************************)
(* The rows of S that an ORDER BY timestamp DESC can return first.         *)
(***************************************************************************)
Latest(S) == {a \in S : \A b \in S : b.ts <= a.ts}
==============================================================================
