----------------------------- MODULE DevPipeInv -----------------------------
(***************************************************************************)
(* The inductive invariant of DevPipe.  NoFalseAlarm is not inductive: it  *)
(* says nothing of the examination that is under way.                      *)
(***************************************************************************)
EXTENDS DevPipe

\* Only a loop that runs examines DRBD, and not for a RoleMgr that is going.
\* As long as DRBD has been in order, the examination has found nothing else.
CheckInv ==
  /\ check.pc # "none" => agent \in {"taking", "active"} /\ ~loopEnded
  /\ check.pc # "loop" => ~check.bad
  /\ steady => /\ agent = "active" /\ InOrder
               /\ ~check.bad
               /\ check.pc \in {"role", "loop"} => check.upToDate

\* The inductive invariant: what the reactor thread of the agent holds in
\* drbdHealth() is true of a DRBD that does not change (processMsg()).
IInv == TypeOK /\ SilentOnlyIfTold /\ CheckInv

=============================================================================
