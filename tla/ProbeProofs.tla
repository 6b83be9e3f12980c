---------------------------- MODULE ProbeProofs ----------------------------
(***************************************************************************)
(* Proofs about Probe for every number of addresses and of tries, with ARP *)
(* and with ping; what is said of an active node that is found supposes an *)
(* id of the process that fits into 16 bits, and no IPv6 address.          *)
(***************************************************************************)
EXTENDS ProbeInv, TLAPS

USE MipsAssumption, XTimesAssumption, PidAssumption
USE DEF probeVars

-----------------------------------------------------------------------------
(* Helpers                                                                   *)

\* A number of 16 bits is not changed by being cut to 16 bits.
LEMMA Fits == ASSUME Pid < 65536 PROVE IdMatches
BY DEF IdMatches

\* The packets of the request under way are packets.
LEMMA RequestIsPacket ==
  ASSUME TypeOK, pc \in {"send", "wait"}
  PROVE  /\ Request \in Packet /\ Request.op = "req" /\ Request.addr = m_dst
         /\ Request.seq = PingSeqNum
         /\ ReplyTo(Request) \in Packet /\ ReplyTo(Request).op = "rep"
         /\ ReplyTo(Request).addr = m_dst /\ ReplyTo(Request).seq = PingSeqNum
BY DEF TypeOK, Request, ReplyTo, Packet, PingSeqNum, m_dst

\* A reply has the address and the number of its request.
LEMMA ReplyIsPacket ==
  ASSUME NEW p \in Packet
  PROVE  /\ ReplyTo(p) \in Packet /\ ReplyTo(p).op = "rep"
         /\ ReplyTo(p).addr = p.addr /\ ReplyTo(p).seq = p.seq
BY DEF ReplyTo, Packet

-----------------------------------------------------------------------------
(* Types                                                                     *)

\* A node stays what it is.
LEMMA NodeKept == [Next]_vars => node' = node
BY DEF Next, Step, vars

LEMMA TypeInit == Init => TypeOK
<1> SUFFICES ASSUME Init PROVE TypeOK
  OBVIOUS
<1>1. 0 \in 0..Mips /\ 0 \in 0..XTimes /\ 0 \in 0..2
  OBVIOUS
<1> QED
  BY <1>1, Zenon DEF Init, TypeOK

LEMMA TypeNext == TypeOK /\ [Next]_vars => TypeOK'
<1> SUFFICES ASSUME TypeOK, [Next]_vars PROVE TypeOK'
  OBVIOUS
<1> node' = node
  BY NodeKept
<1>1. CASE NextMip
  BY <1>1 DEF NextMip, TypeOK
<1>2. CASE NoMipLeft
  BY <1>2 DEF NoMipLeft, TypeOK
<1>3. CASE Send
  BY <1>3, RequestIsPacket DEF Send, Failed, Fault, TypeOK
<1>4. CASE Timeout
  BY <1>4 DEF Timeout, Failed, Fault, TypeOK
<1>5. CASE RecvFails
  BY <1>5 DEF RecvFails, Failed, Fault, TypeOK
<1>6. CASE NextRound
  <2>1. 0 \in 0..Mips /\ 0 \in 0..XTimes /\ 0 \in 0..2
    OBVIOUS
  <2> QED
    BY <1>6, <2>1, Zenon DEF NextRound, TypeOK
<1>7. ASSUME NEW p \in net, Receive(p) PROVE TypeOK'
  BY <1>7 DEF Receive, Reachable, TypeOK
<1>8. ASSUME NEW p \in net, Ignore(p) PROVE TypeOK'
  BY <1>8 DEF Ignore, TypeOK
<1>9. ASSUME NEW p \in net, Answer(p) PROVE TypeOK'
  BY <1>9, ReplyIsPacket DEF Answer, TypeOK
<1>10. ASSUME NEW p \in net, Lose(p) PROVE TypeOK'
  BY <1>10 DEF Lose, Fault, TypeOK
<1>11. ASSUME NEW a \in 1..Mips, PeerMip(a) PROVE TypeOK'
  BY <1>11 DEF PeerMip, TypeOK
<1>12. CASE UNCHANGED vars
  BY <1>12 DEF vars, TypeOK
<1> QED
  BY <1>1, <1>2, <1>3, <1>4, <1>5, <1>6, <1>7, <1>8, <1>9, <1>10, <1>11, <1>12 DEF Next, Step, Others

-----------------------------------------------------------------------------
(* What is found is there                                                    *)

Sound == SoundInv /\ FoundTrue /\ TwoAnswers

LEMMA SoundInit == Init => Sound
BY Zenon DEF Init, Sound, SoundInv, FoundTrue, TwoAnswers

\* No packet is new, no address or answer is forgotten, and no request is under
\* way that was not before.
LEMMA SoundKept ==
  ASSUME TypeOK, Sound, net' \subseteq net, ever \subseteq ever', answered \subseteq answered',
         held' \subseteq ever', UNCHANGED probeVars, Virtual' = Virtual
  PROVE  Sound'
<1>1. SoundInv'
  BY DEF Sound, SoundInv
<1>2. FoundTrue'
  BY DEF Sound, FoundTrue
<1>3. TwoAnswers'
  BY DEF Sound, TwoAnswers
<1> QED
  BY <1>1, <1>2, <1>3 DEF Sound

\* A request that failed.
LEMMA SoundFailed ==
  ASSUME TypeOK, Sound, pc \in {"send", "wait"}, Failed, UNCHANGED <<net, held, ever, answered>>,
         Virtual' = Virtual
  PROVE  Sound'
<1>1. pc' \in {"send", "next"} /\ counter' = counter + 1 /\ cur' = cur /\ success' = success
  BY DEF Failed
<1>2. SoundInv'
  BY <1>1 DEF Sound, SoundInv, TypeOK, Packet
<1> QED
  BY <1>1, <1>2 DEF Sound, FoundTrue, TwoAnswers

LEMMA SoundNext == TypeOK /\ Sound /\ [Next]_vars => Sound'
<1> SUFFICES ASSUME TypeOK, Sound, [Next]_vars PROVE Sound'
  OBVIOUS
<1> Virtual' = Virtual
  BY NodeKept DEF Virtual
<1>1. CASE NextMip
  BY <1>1 DEF NextMip, Sound, SoundInv, FoundTrue, TwoAnswers, TypeOK
<1>2. CASE NoMipLeft
  BY <1>2 DEF NoMipLeft, Sound, SoundInv, FoundTrue, TwoAnswers
<1>3. CASE Send
  <2>1. CASE Failed /\ UNCHANGED net
    BY <1>3, <2>1, SoundFailed DEF Send
  <2>2. CASE pc' = "wait" /\ net' = net \cup {Request} /\ UNCHANGED <<cur, counter, success>>
    <3>1. Request.op = "req"
      BY <1>3, RequestIsPacket DEF Send
    <3>2. SoundInv'
      BY <1>3, <2>2, <3>1 DEF Send, Sound, SoundInv
    <3> QED
      BY <2>2, <3>2 DEF Sound, FoundTrue, TwoAnswers
  <2> QED
    BY <1>3, <2>1, <2>2 DEF Send
<1>4. CASE Timeout
  BY <1>4, SoundFailed DEF Timeout
<1>5. CASE RecvFails
  BY <1>5, SoundFailed DEF RecvFails
<1>6. CASE NextRound
  BY <1>6 DEF NextRound, Sound, SoundInv, FoundTrue, TwoAnswers
<1>7. ASSUME NEW p \in net, Receive(p) PROVE Sound'
  <2>1. /\ pc = "wait" /\ Accepted(p) /\ net' \subseteq net /\ UNCHANGED <<cur, held, ever, answered>>
        /\ counter' = IF Virtual THEN counter + 1 ELSE counter
        /\ success' = success + 1
    BY <1>7 DEF Receive
  <2>2. p \in Packet /\ p.op = "rep" /\ p.addr \in ever /\ p.addr \in 1..Mips
    <3>1. p.op = "rep"
      BY <2>1 DEF Accepted, Heard
    <3>2. p.addr \in ever
      BY <3>1, Zenon DEF Sound, SoundInv
    <3>3. p \in Packet /\ ever \subseteq 1..Mips
      BY Zenon DEF TypeOK
    <3> QED
      BY <3>1, <3>2, <3>3
  <2>3. PICK q \in answered : q.seq = p.seq
    BY <2>2 DEF Sound, SoundInv
  <2>4. q.seq \in Nat
    BY DEF TypeOK, Packet
  <2>5. Virtual => q.seq = counter
    BY <2>1, <2>3 DEF Accepted
  <2>6. pc' = "found" \/ (pc' \in {"send", "next"} /\ Virtual)
    BY <1>7 DEF Receive, Reachable
  <2>7. SoundInv'
    BY <2>1, <2>4, <2>5, <2>6 DEF Sound, SoundInv, TypeOK
  <2>8. FoundTrue'
    <3>1. Intf[p.addr] = Intf[cur] /\ (Virtual \/ p.addr = m_dst)
      BY <2>1 DEF Accepted, Heard
    <3>2. Virtual \/ p.addr = cur
      BY <2>2, <3>1 DEF m_dst
    <3> QED
      BY <2>1, <2>2, <3>1, <3>2, Zenon DEF FoundTrue
  <2>9. TwoAnswers'
    <3> SUFFICES ASSUME pc' = "found", Virtual, counter' < XTimes PROVE \E r, s \in answered : r # s
      BY <2>1 DEF TwoAnswers
    <3>1. success > 0
      BY <1>7, <2>1 DEF Receive, Reachable, TypeOK
    <3>2. PICK r \in answered : r.seq < counter
      BY <2>1, <3>1 DEF Sound, SoundInv
    <3>3. r # q
      BY <2>5, <3>2 DEF TypeOK
    <3> QED
      BY <3>3
  <2> QED
    BY <2>7, <2>8, <2>9 DEF Sound
<1>8. ASSUME NEW p \in net, Ignore(p) PROVE Sound'
  BY <1>8, SoundKept DEF Ignore, Sound, SoundInv
<1>9. ASSUME NEW p \in net, Answer(p) PROVE Sound'
  <2>1. CASE p.addr \notin held
    BY <1>9, <2>1, SoundKept DEF Answer, Sound, SoundInv
  <2>2. CASE p.addr \in held
    <3>1. p \in Packet /\ ReplyTo(p).addr = p.addr /\ ReplyTo(p).seq = p.seq
      BY ReplyIsPacket DEF TypeOK
    <3>2. /\ net' \subseteq net \cup {ReplyTo(p)} /\ answered' = answered \cup {p}
          /\ UNCHANGED <<probeVars, held, ever>>
      BY <1>9, <2>2 DEF Answer
    <3>3. SoundInv'
      BY <2>2, <3>1, <3>2 DEF Sound, SoundInv
    <3> QED
      BY <3>2, <3>3 DEF Sound, FoundTrue, TwoAnswers
  <2> QED
    BY <2>1, <2>2
<1>10. ASSUME NEW p \in net, Lose(p) PROVE Sound'
  BY <1>10, SoundKept DEF Lose, Sound, SoundInv
<1>11. ASSUME NEW a \in 1..Mips, PeerMip(a) PROVE Sound'
  BY <1>11, SoundKept DEF PeerMip, Sound, SoundInv
<1>12. CASE UNCHANGED vars
  BY <1>12, SoundKept DEF vars, Sound, SoundInv
<1> QED
  BY <1>1, <1>2, <1>3, <1>4, <1>5, <1>6, <1>7, <1>8, <1>9, <1>10, <1>11, <1>12 DEF Next, Step, Others

-----------------------------------------------------------------------------
(* What is there is found                                                    *)

\* The present request only changes with the address and the counter.
LEMMA RequestKept == ASSUME UNCHANGED <<node, cur, counter>> PROVE Request' = Request
BY DEF Request, PingSeqNum, m_dst, Virtual

LEMMA CompleteInit == Init => CompleteInv
BY DEF Init, CompleteInv

\* One more fault is counted.
Counted == faults' = IF faults < XTimes THEN faults + 1 ELSE faults

LEMMA FaultCounted ==
  /\ Fault(TRUE) => Counted
  /\ \A b \in BOOLEAN : Fault(b) => IF b THEN Counted ELSE faults' = faults
BY DEF Fault, Counted

\* How a request can fail.
FailStep == (Send /\ pc' # "wait") \/ Timeout \/ RecvFails

LEMMA WaysToFail ==
  ASSUME FailStep
  PROVE  /\ pc \in {"send", "wait"} /\ Failed /\ held' = held /\ kept' = kept
         /\ Counted \/ (pc = "wait" /\ ~OnItsWay /\ faults' = faults)
<1>1. CASE Send /\ pc' # "wait"
  BY <1>1, FaultCounted, Zenon DEF Send
<1>2. CASE Timeout
  <2>1. OnItsWay \in BOOLEAN
    BY DEF OnItsWay
  <2> QED
    BY <1>2, <2>1, FaultCounted, Zenon DEF Timeout
<1>3. CASE RecvFails
  BY <1>3, FaultCounted, Zenon DEF RecvFails
<1> QED
  BY <1>1, <1>2, <1>3, Zenon DEF FailStep

\* A request that failed was paid for by a fault.
LEMMA CompleteFailed ==
  ASSUME TypeOK, CompleteInv, FailStep
  PROVE  CompleteInv' /\ (cur \in kept => counter' <= faults' + success)
<1>1. /\ pc \in {"send", "wait"} /\ Failed /\ held' = held /\ kept' = kept
      /\ Counted \/ (pc = "wait" /\ ~OnItsWay /\ faults' = faults)
  BY WaysToFail, Zenon
<1>2. /\ counter' = counter + 1 /\ success' = success /\ cur' = cur
      /\ pc' \in {"send", "next"}
  BY <1>1 DEF Failed
<1>3. cur \in kept => counter + 1 <= faults' + success
  <2> SUFFICES ASSUME cur \in kept PROVE counter + 1 <= faults' + success
    OBVIOUS
  <2>1. counter <= faults + success /\ (pc = "wait" => OnItsWay \/ counter < faults + success)
    BY <1>1 DEF CompleteInv
  <2>2. counter \in Nat /\ faults \in Nat /\ success \in Nat /\ counter < XTimes
    BY <1>1 DEF TypeOK
  <2>3. CASE Counted
    BY <2>1, <2>2, <2>3 DEF Counted
  <2>4. CASE pc = "wait" /\ ~OnItsWay /\ faults' = faults
    BY <2>1, <2>2, <2>4
  <2> QED
    BY <1>1, <2>3, <2>4
<1>4. kept \subseteq held
  BY DEF CompleteInv
<1>5. pc' # "wait"
  BY <1>2
<1> QED
  BY <1>1, <1>2, <1>3, <1>4, <1>5, Zenon DEF CompleteInv

LEMMA EnoughFaults ==
  \A t, f, s \in Nat : t + s < XTimes /\ XTimes <= f + s => f > t
BY XTimesAssumption

LEMMA MoreFaults ==
  ASSUME NEW a \in Nat, NEW b \in Nat, NEW c \in Nat, NEW d \in Nat, d > b, a <= b + c
  PROVE  a < d + c /\ a <= d + c
OBVIOUS

\* A step that leaves the probe alone, and the packets of the request under way
\* unless it counts as a fault.
LEMMA CompleteKept ==
  ASSUME TypeOK, CompleteInv, UNCHANGED probeVars, kept' \subseteq kept, held \cap kept' \subseteq held',
          faults' \in Nat,
         \/ faults' = faults /\ (pc = "wait" /\ cur \in kept /\ OnItsWay => OnItsWay')
         \/ faults' > faults
  PROVE  CompleteInv'
<1>1. kept' \subseteq held'
  BY DEF CompleteInv
<1>2. CASE faults' = faults /\ (pc = "wait" /\ cur \in kept /\ OnItsWay => OnItsWay')
  BY <1>1, <1>2 DEF CompleteInv
<1>3. CASE faults' > faults
  <2>1. counter \in Nat /\ faults \in Nat /\ success \in Nat
    BY DEF TypeOK
  <2>2. counter <= faults + success => counter < faults' + success /\ counter <= faults' + success
    BY <1>3, <2>1, MoreFaults, Zenon
  <2> QED
    BY <1>1, <2>2, Zenon DEF CompleteInv
<1> QED
  BY <1>2, <1>3

LEMMA CompleteNext ==
  ASSUME Pid < 65536, V6 = {}, TypeOK, CompleteInv, Sound, [Next]_vars
  PROVE  CompleteInv'
<1> node' = node
  BY NodeKept
<1>1. CASE NextMip
  <2>1. kept' \subseteq held'
    BY <1>1 DEF NextMip
  <2>2. 0 <= faults' + success' /\ counter' = 0 /\ pc' # "wait"
    BY <1>1 DEF NextMip
  <2> QED
    BY <2>1, <2>2 DEF CompleteInv
<1>2. CASE NoMipLeft
  BY <1>2 DEF NoMipLeft, CompleteInv
<1>3. CASE Send
  <2>1. CASE pc' # "wait"
    BY <1>3, <2>1, CompleteFailed DEF FailStep
  <2>2. CASE pc' = "wait"
    <3>1. /\ net' = net \cup {Request} /\ pc = "send"
          /\ UNCHANGED <<cur, counter, success, faults, held, kept>>
      BY <1>3, <2>2 DEF Send, Failed
    <3>2. OnItsWay'
      BY <3>1, RequestKept DEF OnItsWay
    <3> QED
      BY <2>2, <3>1, <3>2 DEF CompleteInv
  <2> QED
    BY <2>1, <2>2
<1>4. CASE Timeout
  BY <1>4, CompleteFailed DEF FailStep
<1>5. CASE RecvFails
  BY <1>5, CompleteFailed DEF FailStep
<1>6. CASE NextRound
  BY <1>6 DEF NextRound, CompleteInv
<1>7. ASSUME NEW p \in net, Receive(p) PROVE CompleteInv'
  <2>1. /\ pc' \in {"found", "send", "next"} /\ UNCHANGED <<cur, held, kept, faults>>
        /\ success' = success + 1 /\ counter' = (IF Virtual THEN counter + 1 ELSE counter)
        /\ pc = "wait"
    BY <1>7 DEF Receive
  <2> QED
    BY <2>1 DEF CompleteInv, TypeOK
<1>8. ASSUME NEW p \in net, Ignore(p) PROVE CompleteInv'
  <2>1. pc = "wait" /\ ~Accepted(p) /\ Heard(p) /\ net' = net \ {p}
        /\ UNCHANGED <<probeVars, held, kept, faults>>
    BY <1>8 DEF Ignore
  <2>2. p # Request /\ p # ReplyTo(Request)
    BY <2>1, RequestIsPacket, Fits DEF Accepted, Heard, PingSeqNum
  <2>3. OnItsWay => OnItsWay'
    BY <2>1, <2>2, RequestKept DEF OnItsWay, ReplyTo
  <2> QED
    BY <2>1, <2>3, CompleteKept DEF TypeOK
<1>9. ASSUME NEW p \in net, Answer(p) PROVE CompleteInv'
  <2>1. p.op = "req" /\ net \ {p} \subseteq net' /\ UNCHANGED <<probeVars, held, kept, faults>>
        /\ (p.addr \in held => ReplyTo(p) \in net')
    BY <1>9 DEF Answer
  <2>2. pc = "wait" /\ cur \in kept /\ OnItsWay => OnItsWay'
    <3> SUFFICES ASSUME pc = "wait", cur \in kept, OnItsWay PROVE OnItsWay'
      OBVIOUS
    <3>1. Request' = Request
      BY <2>1, RequestKept
    <3>2. CASE p = Request
      BY <2>1, <3>1, <3>2, RequestIsPacket DEF OnItsWay, CompleteInv, m_dst
    <3>3. CASE p # Request
      <4>1. p # ReplyTo(Request)
        BY <2>1, RequestIsPacket
      <4> QED
        BY <2>1, <3>1, <3>3, <4>1 DEF OnItsWay
    <3> QED
      BY <3>2, <3>3
  <2> QED
    BY <2>1, <2>2, CompleteKept DEF TypeOK
<1>10. ASSUME NEW p \in net, Lose(p) PROVE CompleteInv'
  <2>1. net' = net \ {p} /\ UNCHANGED <<probeVars, held, kept>>
        /\ Fault(pc = "wait" /\ p \in {Request, ReplyTo(Request)})
    BY <1>10 DEF Lose
  <2>2. CASE pc = "wait" /\ p \in {Request, ReplyTo(Request)}
    <3>1. CASE faults < XTimes
      <4>1. faults' > faults /\ faults' \in Nat
        BY <2>1, <2>2, <3>1 DEF Fault, TypeOK
      <4> QED
        BY <2>1, <4>1, CompleteKept
    <3>2. CASE ~(faults < XTimes)
      <4>1. faults' = faults
        BY <2>1, <3>2 DEF Fault
      <4> QED
        BY <2>1, <2>2, <3>2, <4>1 DEF CompleteInv, TypeOK
    <3> QED
      BY <3>1, <3>2
  <2>3. CASE ~(pc = "wait" /\ p \in {Request, ReplyTo(Request)})
    <3>1. faults' = faults
      BY <2>1, <2>3 DEF Fault
    <3>2. pc = "wait" /\ OnItsWay => OnItsWay'
      BY <2>1, <2>3, RequestKept DEF OnItsWay
    <3> QED
      BY <2>1, <3>1, <3>2, CompleteKept DEF TypeOK
  <2> QED
    BY <2>2, <2>3
<1>11. ASSUME NEW a \in 1..Mips, PeerMip(a) PROVE CompleteInv'
  <2>1. UNCHANGED <<probeVars, net, faults>> /\ kept' = kept \cap held'
    BY <1>11 DEF PeerMip
  <2>2. OnItsWay' = OnItsWay
    BY <2>1, RequestKept DEF OnItsWay
  <2> QED
    BY <2>1, <2>2, CompleteKept DEF TypeOK
<1>12. CASE UNCHANGED vars
  <2>1. OnItsWay' = OnItsWay
    BY <1>12, RequestKept DEF vars, OnItsWay
  <2> QED
    BY <1>12, <2>1 DEF vars, CompleteInv
<1> QED
  BY <1>1, <1>2, <1>3, <1>4, <1>5, <1>6, <1>7, <1>8, <1>9, <1>10, <1>11, <1>12 DEF Next, Step, Others

\* An address that is held all the time is only given up after more faults than
\* are tolerated.
LEMMA GivenUp ==
  ASSUME TypeOK, SoundInv, CompleteInv, Next,
         pc \in {"send", "wait"}, pc' = "next", cur \in kept
  PROVE  faults' > Tolerance
<1>0. TypeOK /\ SoundInv /\ CompleteInv
  OBVIOUS
<1>1. CASE \E p \in net : Receive(p)
  BY <1>0, <1>1 DEF Receive, Reachable, TypeOK
<1>2. CASE Send \/ Timeout \/ RecvFails
  <2>0. FailStep
    BY <1>2 DEF FailStep
  <2>1. Failed /\ (Counted \/ faults' = faults)
    BY <2>0, WaysToFail
  <2>2. counter' <= faults' + success'
    BY <1>0, <2>0, <2>1, CompleteFailed DEF Failed
  <2>3. success' = success /\ counter' = XTimes
    BY <1>0, <2>1 DEF Failed, TypeOK
  <2>4. faults' \in Nat
    BY <1>0, <2>1 DEF Counted, TypeOK
  <2>8. success' \in Nat
    BY <1>0, <2>3 DEF TypeOK
  <2>9. Tolerance \in Nat
    BY XTimesAssumption DEF Tolerance
  <2>5. success = 0 \/ (success = 1 /\ Virtual /\ counter > 0)
    BY <1>0 DEF SoundInv, TypeOK, Packet
  <2>6. Tolerance + success' < XTimes
    BY <1>0, <2>3, <2>5 DEF Tolerance, TypeOK
  <2>7. XTimes <= faults' + success'
    BY <2>2, <2>3
  <2> QED
    BY <2>4, <2>8, <2>9, <2>6, <2>7, EnoughFaults, Zenon
<1>3. CASE ~(\E p \in net : Receive(p)) /\ ~(Send \/ Timeout \/ RecvFails)
  BY <1>3 DEF Next, Step, Others, NextMip, NoMipLeft, NextRound, Ignore, Answer, Lose, PeerMip
<1> QED
  BY <1>1, <1>2, <1>3

\* A round goes on from one request, and from one address, to the next.
LEMMA Forward ==
  ASSUME TypeOK, Next, pc \notin {"found", "clear"}, <<pc, cur, counter>>' # <<pc, cur, counter>>
  PROVE  \/ pc' \in {"found", "clear"}
         \/ cur' > cur
         \/ cur' = cur /\ counter' > counter
         \/ UNCHANGED <<cur, counter>> /\ pc = "send" /\ pc' = "wait"
<1> DEFINE Goal == \/ pc' \in {"found", "clear"}
                   \/ cur' > cur
                   \/ cur' = cur /\ counter' > counter
                   \/ UNCHANGED <<cur, counter>> /\ pc = "send" /\ pc' = "wait"
<1>0. cur \in Nat /\ counter \in Nat
  BY DEF TypeOK
<1>1. CASE NextMip
  BY <1>0, <1>1 DEF NextMip
<1>2. CASE NoMipLeft
  BY <1>2 DEF NoMipLeft
<1>3. CASE Failed
  <2>1. counter' = counter + 1 /\ cur' = cur
    BY <1>3 DEF Failed
  <2> QED
    BY <1>0, <2>1
<1>4. CASE Send \/ Timeout \/ RecvFails
  <2>1. Failed \/ (pc = "send" /\ pc' = "wait" /\ UNCHANGED <<cur, counter>>)
    BY <1>4, Zenon DEF Send, Timeout, RecvFails
  <2> QED
    BY <1>3, <2>1
<1>5. ASSUME NEW p \in net, Receive(p) PROVE Goal
  BY <1>0, <1>5 DEF Receive, Reachable
<1>6. CASE NextRound
  BY <1>6 DEF NextRound
<1>7. ASSUME NEW p \in net, Ignore(p) \/ Answer(p) \/ Lose(p) PROVE FALSE
  <2>1. UNCHANGED <<pc, cur, counter>>
    BY <1>7 DEF Ignore, Answer, Lose
  <2> QED
    BY <2>1
<1>8. ASSUME NEW a \in 1..Mips, PeerMip(a) PROVE FALSE
  <2>1. UNCHANGED <<pc, cur, counter>>
    BY <1>8 DEF PeerMip
  <2> QED
    BY <2>1
<1> QED
  BY <1>1, <1>2, <1>4, <1>5, <1>6, <1>7, <1>8 DEF Next, Step, Others

-----------------------------------------------------------------------------
(* The theorems                                                              *)

\* The inductive invariant holds in every reachable state (splitBrainAlgo(),
\* ping(), arping()).
THEOREM Inductive == Spec => []IInv
<1>1. Init => IInv
  BY TypeInit, SoundInit, CompleteInit DEF IInv, Sound
<1>2. IInv /\ [Next]_vars => IInv'
  BY TypeNext, SoundNext, CompleteNext DEF IInv, Sound
<1> QED
  BY <1>1, <1>2, PTL DEF Spec

\* Every variable keeps its type, and no address gets more than XTimes requests.
THEOREM Types == Spec => []TypeOK
<1>1. IInv => TypeOK
  BY DEF IInv
<1> QED
  BY <1>1, Inductive, PTL

\* A positive verdict of splitBrainAlgo() means that the other node has had one of the
\* probed addresses in this round; with ARP, the one that was asked for.
THEOREM Found == Spec => []FoundTrue
<1>1. IInv => FoundTrue
  BY DEF IInv
<1> QED
  BY <1>1, Inductive, PTL

\* Where no two addresses share an interface, ping() too finds only the address
\* that it asked for: that the reply's sender is not looked at does no harm
\* (recv_resp(), SO_BINDTODEVICE).
THEOREM FoundExactly ==
  ASSUME \A a, b \in 1..Mips : Intf[a] = Intf[b] => a = b
  PROVE  Spec => [](pc = "found" => cur \in ever)
<1>1. IInv => (pc = "found" => cur \in ever)
  <2> SUFFICES ASSUME IInv, pc = "found" PROVE cur \in ever
    OBVIOUS
  <2>1. PICK a \in ever : Intf[a] = Intf[cur] /\ (Virtual \/ a = cur)
    BY DEF IInv, FoundTrue
  <2>2. a \in 1..Mips /\ cur \in 0..Mips /\ cur > 0
    BY DEF IInv, TypeOK
  <2>3. cur \in 1..Mips
    BY <2>2
  <2>4. a = cur
    BY <2>1, <2>2, <2>3, Zenon
  <2> QED
    BY <2>4
<1> QED
  BY <1>1, Inductive, PTL

\* Before its last try ping() believes only two answers to different requests.
THEOREM Twice == Spec => []TwoAnswers
<1>1. IInv => TwoAnswers
  BY DEF IInv
<1> QED
  BY <1>1, Inductive, PTL

\* An address that is held all the time is found in spite of Tolerance faults,
\* if the id of the process fits into an ICMP packet and no address is an IPv6
\* address (ping(), arping()).
THEOREM Complete == ASSUME Pid < 65536, V6 = {} PROVE Spec => ActiveFound
<1>1. IInv /\ [Next]_vars =>
        [(pc \in {"send", "wait"}) /\ pc' = "next" => cur \notin kept \/ faults' > Tolerance]_vars
  <2>1. IInv => TypeOK /\ SoundInv /\ CompleteInv
    BY SMT DEF IInv
  <2> QED
    BY <2>1, GivenUp, SMT
<1> QED
  BY <1>1, Inductive, PTL DEF Spec, ActiveFound

\* A round never goes back, so that it has ended after a bounded number of steps
\* of its own (splitBrainAlgo(), ping(), arping()).
THEOREM Advances == Spec => RoundAdvances
<1> DEFINE Adv == (pc \notin {"found", "clear"}) /\ <<pc, cur, counter>>' # <<pc, cur, counter>> =>
                    \/ pc' \in {"found", "clear"}
                    \/ cur' > cur
                    \/ cur' = cur /\ counter' > counter
                    \/ UNCHANGED <<cur, counter>> /\ pc = "send" /\ pc' = "wait"
<1>1. TypeOK /\ [Next]_vars => [Adv]_vars
  BY Forward
<1> QED
  BY <1>1, Types, PTL DEF Spec, RoundAdvances

=============================================================================
