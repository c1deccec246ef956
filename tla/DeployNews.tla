------------------------------ MODULE DeployNews -------------------------------
(***************************************************************************)
(* What the chats that are subscribed to the releases of a repository are  *)
(* promised about its deploy jobs (README.md, Deploy Tracking): that a job *)
(* has started, that it has ended.  Each piece of news may be missed, but  *)
(* none comes before it is true, and nobody hears of a start after the     *)
(* end.  How often a message is sent is not said here.                     *)
(***************************************************************************)
CONSTANTS
  Rules,  \* the tracking rules
  Jobs    \* the jobs they track

VARIABLES
  status, \* of each job in GitLab
  heard   \* the last news each rule's chats have of each job

Init ==
  /\ status = [j \in Jobs |-> "none"]
  /\ heard = [p \in Rules \X Jobs |-> "nothing"]

(* A job that is created may be canceled before it runs.                   *)
Follows(s) ==
  CASE s = "none"    -> {"created"}
    [] s = "created" -> {"running", "ended"}
    [] s = "running" -> {"ended"}
    [] OTHER         -> {}

Advance(j) ==
  /\ \E s \in Follows(status[j]) : status' = [status EXCEPT ![j] = s]
  /\ UNCHANGED heard

HearStart(p) ==
  /\ status[p[2]] \in {"running", "ended"}
  /\ heard[p] = "nothing"
  /\ heard' = [heard EXCEPT ![p] = "running"]
  /\ UNCHANGED status

HearEnd(p) ==
  /\ status[p[2]] = "ended"
  /\ heard' = [heard EXCEPT ![p] = "ended"]
  /\ UNCHANGED status

Next ==
  \/ \E j \in Jobs : Advance(j)
  \/ \E p \in Rules \X Jobs : HearStart(p) \/ HearEnd(p)

Spec == Init /\ [][Next]_<<status, heard>>
==============================================================================
