------------------------------- MODULE Probe -------------------------------
(***************************************************************************)
(* One round of probes of splitBrainAlgo(): the addresses of the active    *)
(* role are tried one after the other, each with up to XTimes requests,    *)
(* over a network that loses, delays, reorders and repeats packets, while  *)
(* the other node takes addresses and gives them up.  A native node asks   *)
(* with ARP, a virtual one with ICMP echo requests, and not on the public  *)
(* interface.                                                              *)
(*                                                                         *)
(* A socket is bound to the interface of the address.  An ARP reply names  *)
(* the address it is for; an echo reply is known by its number and the id  *)
(* of the process, 16 bits each, and who sent it is not looked at.  Of an  *)
(* IPv6 address the wrong bytes are taken for the destination, which is    *)
(* then 0.  No packet survives from one round to the next.                 *)
(***************************************************************************)
EXTENDS Naturals

CONSTANTS Mips,      \* mipInfo.size
          Intf,      \* mipInfo.interface
          V6,        \* the IPv6 addresses among them
          XTimes,    \* AGNT_X_TIMES
          Pid        \* getpid()

ASSUME MipsAssumption == Mips \in Nat /\ Intf \in [1..Mips -> STRING] /\ V6 \subseteq 1..Mips
ASSUME XTimesAssumption == XTimes \in Nat \ {0}
ASSUME PidAssumption == Pid \in Nat

VARIABLES
  node,      \* "virtual" or "native" (m_isVirtual)
  pc,        \* splitBrainAlgo(), ping() or arping(): where it is
  cur,       \* the address under test (cntr)
  counter,   \* the requests made for it (counter, cntr)
  success,   \* the answers to them (pingSuccessCount, recvCntr)
  net,       \* the packets on their way
  held,      \* the addresses that the other node has
  kept,      \* history: the present one, if it has had it since its test began
  faults,    \* history: what went wrong with the test of this address
  ever,      \* history: the addresses it has had in this round
  answered   \* history: the requests of this round that it has answered

probeVars == <<pc, cur, counter, success>>
vars == <<node, probeVars, net, held, kept, faults, ever, answered>>

Packet == [op : {"req", "rep"}, addr : 0..Mips, seq : 0 .. XTimes - 1]

\* The type invariant.
TypeOK ==
  /\ node \in {"virtual", "native"}
  /\ pc \in {"next", "send", "wait", "found", "clear"}
  /\ cur \in 0..Mips /\ counter \in 0..XTimes /\ success \in 0..2
  /\ pc \in {"send", "wait"} => cur > 0 /\ counter < XTimes /\ success < 2
  /\ pc = "found" => cur > 0
  /\ net \subseteq Packet /\ held \subseteq 1..Mips
  /\ kept \subseteq 1..Mips /\ faults \in 0..XTimes
  /\ ever \subseteq 1..Mips /\ answered \subseteq Packet

Init ==
  /\ node \in {"virtual", "native"}
  /\ pc = "next" /\ cur = 0 /\ counter = 0 /\ success = 0
  /\ net = {} /\ held \in SUBSET (1..Mips)
  /\ kept = {} /\ faults = 0 /\ ever = held /\ answered = {}

Virtual == node = "virtual"

\* The number a request carries; an ARP request has none.
PingSeqNum == IF Virtual THEN counter ELSE 0

\* sin_addr of a sockaddr_in6 is its flow information.
m_dst == IF cur \in V6 THEN 0 ELSE cur

Request == [op |-> "req", addr |-> m_dst, seq |-> PingSeqNum]
ReplyTo(p) == [p EXCEPT !.op = "rep"]

\* The request under way, or the answer to it, is on the network.
OnItsWay == Request \in net \/ ReplyTo(Request) \in net

Fault(b) == faults' = IF b /\ faults < XTimes THEN faults + 1 ELSE faults

-----------------------------------------------------------------------------
(* splitBrainAlgo(), ping() and arping()                                     *)

Skipped(a) == Virtual /\ Intf[a] = "eth1"

\* The next address; init() of the socket may fail, which counts as no answer.
NextMip ==
  /\ pc = "next" /\ cur < Mips
  /\ cur' = cur + 1 /\ counter' = 0 /\ success' = 0
  /\ IF Skipped(cur + 1) THEN pc' = "next" ELSE pc' \in {"send", "next"}
  /\ kept' = held \cap {cur + 1} /\ faults' = 0
  /\ UNCHANGED <<net, held, ever, answered>>

NoMipLeft ==
  /\ pc = "next" /\ cur = Mips
  /\ pc' = "clear"
  /\ UNCHANGED <<cur, counter, success, net, held, kept, faults, ever, answered>>

\* A request without an answer.
Failed_OneLess ==
  /\ counter' = counter + 1
  /\ pc' = IF counter + 2 < XTimes THEN "send" ELSE "next"
  /\ UNCHANGED <<cur, success>>
Failed ==
  /\ counter' = counter + 1
  /\ pc' = IF counter + 1 < XTimes THEN "send" ELSE "next"
  /\ UNCHANGED <<cur, success>>

Send ==
  /\ pc = "send"
  /\ \/ pc' = "wait" /\ net' = net \cup {Request} /\ UNCHANGED <<cur, counter, success, faults>>
     \/ Failed /\ Fault(TRUE) /\ UNCHANGED net
  /\ UNCHANGED <<held, kept, ever, answered>>

\* SO_BINDTODEVICE, bind(): a socket hears only what comes in on its interface.
Heard_Unbound(p) == p.op = "rep"
Heard(p) == p.op = "rep" /\ Intf[p.addr] = Intf[cur]

\* The id is cut to 16 bits in the packet, and compared with the whole.
IdMatches == Pid % 65536 = Pid

Accepted_AnySeq(p) == Heard(p) /\ IF Virtual THEN IdMatches ELSE p.addr = m_dst
Accepted(p) ==
  Heard(p) /\ IF Virtual THEN p.seq = counter /\ IdMatches ELSE p.addr = m_dst

\* "if 2 pings are successful OR if ping is successful in last retry"; one ARP
\* reply is enough.
Reachable == success > 0 \/ counter = XTimes - 1 \/ ~Virtual

\* select() and recvfrom(): the packet that was waited for; it may come again.
Receive(p) ==
  /\ pc = "wait" /\ Accepted(p)
  /\ success' = success + 1
  /\ counter' = IF Virtual THEN counter + 1 ELSE counter
  /\ pc' = IF Reachable THEN "found" ELSE IF counter + 1 < XTimes THEN "send" ELSE "next"
  /\ net' \in {net, net \ {p}}
  /\ UNCHANGED <<cur, held, kept, faults, ever, answered>>

\* Any other packet: the wait goes on with what is left of the time.
Ignore(p) ==
  /\ pc = "wait" /\ Heard(p) /\ ~Accepted(p)
  /\ net' = net \ {p}
  /\ UNCHANGED <<probeVars, held, kept, faults, ever, answered>>

\* The time, YMsecs, is over.
Timeout_Silence ==
  /\ pc = "wait" /\ net = {} /\ Failed /\ Fault(OnItsWay)
  /\ UNCHANGED <<net, held, kept, ever, answered>>
Timeout ==
  /\ pc = "wait" /\ Failed /\ Fault(OnItsWay)
  /\ UNCHANGED <<net, held, kept, ever, answered>>

\* select() or recvfrom() fails, or an ARP packet with a strange header comes.
RecvFails ==
  /\ pc = "wait" /\ Failed /\ Fault(TRUE)
  /\ UNCHANGED <<net, held, kept, ever, answered>>

\* The agent probes again, with new sockets, when it is to be active once more.
NextRound ==
  /\ pc \in {"found", "clear"}
  /\ pc' = "next" /\ cur' = 0 /\ counter' = 0 /\ success' = 0
  /\ net' = {} /\ kept' = {} /\ faults' = 0 /\ ever' = held /\ answered' = {}
  /\ UNCHANGED held

-----------------------------------------------------------------------------
(* The network and the other node                                            *)

\* A request arrives; the node that has the address answers.
Answer(p) ==
  /\ p.op = "req"
  /\ IF p.addr \in held THEN net' = (net \ {p}) \cup {ReplyTo(p)} /\ answered' = answered \cup {p}
                        ELSE net' = net \ {p} /\ UNCHANGED answered
  /\ UNCHANGED <<probeVars, held, kept, faults, ever>>

Lose(p) ==
  /\ net' = net \ {p}
  /\ Fault(pc = "wait" /\ p \in {Request, ReplyTo(Request)})
  /\ UNCHANGED <<probeVars, held, kept, ever, answered>>

\* The other node configures an address or takes it down.
PeerMip(a) ==
  /\ held' = IF a \in held THEN held \ {a} ELSE held \cup {a}
  /\ kept' = kept \cap held' /\ ever' = ever \cup held'
  /\ UNCHANGED <<probeVars, net, faults, answered>>

-----------------------------------------------------------------------------
Step == (NextMip \/ NoMipLeft \/ Send \/ Timeout) /\ UNCHANGED node

Others ==
  \/ RecvFails \/ NextRound
  \/ \E p \in net : Receive(p) \/ Ignore(p) \/ Answer(p) \/ Lose(p)
  \/ \E a \in 1..Mips : PeerMip(a)

Next == Step \/ (Others /\ UNCHANGED node)

Spec == Init /\ [][Next]_vars

\* The thread of RoleMgr is scheduled, and select() has a timeout.
FairSpec == Spec /\ WF_vars(Step)

-----------------------------------------------------------------------------
\* Nobody is found who is not there: a positive verdict means that the other
\* node has had, in this round, the very address with ARP, and with ping one on
\* its interface, which is the same where no two addresses share an interface
\* (recv_resp(), send_ping(), splitBrainAlgo()).
FoundTrue == pc = "found" => \E a \in ever : Intf[a] = Intf[cur] /\ (Virtual \/ a = cur)

\* "IP addr is considered reachable if 2 pings are successful OR if ping is
\* successful in last retry": before the last try, two requests have been
\* answered, and no repeated or late reply stands for the second (ping()).
TwoAnswers ==
  pc = "found" /\ Virtual /\ counter < XTimes => \E p, q \in answered : p # q

\* How much may go wrong with the test of one address.
Tolerance == IF ~Virtual THEN XTimes - 1 ELSE IF XTimes = 1 THEN 0 ELSE XTimes - 2

\* An active node is found: an address that the other node has had all the
\* time is not given up, unless more requests or answers were lost, late or
\* spoilt than the retries make up for (ping(), arping()).
ActiveFound ==
  [][(pc \in {"send", "wait"}) /\ pc' = "next" => cur \notin kept \/ faults' > Tolerance]_vars

\* A round ends, whatever arrives meanwhile (send_ping(): "overall, we only wait
\* m_config.ysecs for all select() & recvFrom() calls").
RoundEnds == (pc \notin {"found", "clear"}) ~> (pc \in {"found", "clear"})

=============================================================================
