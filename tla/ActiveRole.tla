----------------------------- MODULE ActiveRole -----------------------------
(***************************************************************************)
(* What the pair of agents promises the rest of the node: the active role  *)
(* - /data mounted, the MIP addresses up - belongs to at most one node.    *)
(* A node takes the disk while nobody has it, announces the addresses over *)
(* a disk it has, and loses or gives up the addresses no later than the    *)
(* disk.  The role never goes from one node to another in one step.        *)
(***************************************************************************)
CONSTANT Node

VARIABLES owners,   \* the nodes that have /data mounted
          addr      \* the nodes that answer for the MIP addresses

Init == owners = {} /\ addr = {}

Take(n) == owners = {} /\ owners' = {n} /\ UNCHANGED addr

Announce(n) == owners = {n} /\ addr' = {n} /\ UNCHANGED owners

Withdraw == addr' = {} /\ UNCHANGED owners

GiveUp == owners' = {} /\ addr' = {}

Next == Withdraw \/ GiveUp \/ \E n \in Node : Take(n) \/ Announce(n)

Spec == Init /\ [][Next]_<<owners, addr>>

=============================================================================
