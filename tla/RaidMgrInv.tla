----------------------------- MODULE RaidMgrInv -----------------------------
(***************************************************************************)
(* The inductive invariant of RaidMgr: why a recovery, which takes the     *)
(* resource of the other node down by force, does not hit the active node  *)
(* as long as the role stays where it is.                                  *)
(***************************************************************************)
EXTENDS RaidMgr, Naturals

\* The role is with the agent that runs raidmgr, and with no other node.
RoleInv ==
  \A n \in Node :
    /\ agent[n] # "off" => agent[Peer(n)] = "off"
    /\ role[n] = "Primary" => agent[n] # "off" /\ up[n]
    /\ mounted[n] => role[n] = "Primary"

\* Whoever is past the test of do_recover() runs on the active node; what it has
\* started on the other one meets a node without a role.
RecoverInv ==
  \A n \in Node :
    /\ rec[n] # "off" \/ remote[n] # "none" => Resting
    /\ rec[n] \notin {"off", "role"} => agent[n] = "active"
    /\ rec[n] # "off" /\ agent[n] = "active" => IsUpToDate(n)
    /\ remote[n] # "none" => agent[n] = "off"

\* A recovery that waits for ssh waits for the very command that it has started
\* there, and not for what an earlier one left behind; this holds even if the
\* role moves.
AnswerInv ==
  \A n \in Node :
    /\ rec[n] = "deact" => remote[Peer(n)] \in DeactSteps \cup {"ok", "fail"}
    /\ rec[n] = "act" => remote[Peer(n)] \in {"up", "ok", "fail"}

\* The inductive invariant (do_assemble(), do_disable(), do_recover()).
IInv ==
  /\ TypeOK /\ AnswerInv
  /\ "failover" \notin Admitted => RoleInv /\ RecoverInv /\ ActiveHasData

-----------------------------------------------------------------------------
\* How far a recovery has come, and a command that runs for it on the peer.
RecRank == [role |-> 1, ssh |-> 2, deact |-> 3, sshAct |-> 4, act |-> 5, cstate |-> 6,
            sync |-> 7, pdisk |-> 7, invalidate |-> 8, off |-> 9]
RemoteRank == [deact |-> 1, umount |-> 2, demote |-> 3, down |-> 4, up |-> 4,
               ok |-> 5, fail |-> 5, none |-> 6]

\* A recovery never goes back, nor does its command on the peer: neither repeats
\* a step, whatever the other node, AMF and DRBD do meanwhile, so that both have
\* ended after a bounded number of steps of their own (do_recover(),
\* do_deactivate(), do_activate()).
RecoveryAdvances ==
  [][\A n \in Node :
       /\ rec[n] # "off" /\ rec'[n] # rec[n] => RecRank[rec'[n]] > RecRank[rec[n]]
       /\ remote[n] # "none" /\ remote'[n] # remote[n] =>
            RemoteRank[remote'[n]] > RemoteRank[remote[n]]]_vars

=============================================================================
