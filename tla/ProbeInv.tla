----------------------------- MODULE ProbeInv ------------------------------
(***************************************************************************)
(* The inductive invariant of Probe: what the packets on the network and   *)
(* the counters of the address under test stand for.                       *)
(***************************************************************************)
EXTENDS Probe

\* A reply was sent for a request, by a node that had the address; an answer
\* that was counted had a smaller number than the request under way.
SoundInv ==
  /\ held \subseteq ever
  /\ \A p \in net : p.op = "rep" => p.addr \in ever /\ \E q \in answered : q.seq = p.seq
  /\ pc \in {"send", "wait"} /\ success > 0 => Virtual
  /\ pc \in {"send", "wait"} /\ success > 0 => \E q \in answered : q.seq < counter

\* As long as the other node has the address, every request without an answer
\* is accounted for by a fault, and the one under way is or is on its way.
CompleteInv ==
  /\ kept \subseteq held
  /\ cur \in kept /\ pc \in {"send", "wait"} =>
       /\ counter <= faults + success
       /\ pc = "wait" => OnItsWay \/ counter < faults + success

\* The inductive invariant (splitBrainAlgo(), ping(), arping()).
IInv == TypeOK /\ SoundInv /\ FoundTrue /\ TwoAnswers /\ (Pid < 65536 /\ V6 = {} => CompleteInv)

-----------------------------------------------------------------------------
\* A round makes progress: no packet, however often it is repeated, and nothing
\* that the other node does takes it back to an address or a request that it is
\* done with.  With the bounds of TypeOK, a round consists of at most
\* Mips * (2 * XTimes + 1) + 1 steps of its own (splitBrainAlgo(), ping(),
\* arping()).
RoundAdvances ==
  [][(pc \notin {"found", "clear"}) /\ <<pc, cur, counter>>' # <<pc, cur, counter>> =>
       \/ pc' \in {"found", "clear"}
       \/ cur' > cur
       \/ cur' = cur /\ counter' > counter
       \/ UNCHANGED <<cur, counter>> /\ pc = "send" /\ pc' = "wait"]_vars

=============================================================================
