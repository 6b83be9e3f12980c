\* The addresses of an APG, probed by a virtual and by a native node.
SPECIFICATION FairSpec
CONSTANT Mips = 3
CONSTANT Intf <- Internal
CONSTANT V6 = {}
CONSTANT XTimes = 3
CONSTANT Pid = 65535
INVARIANT FoundTrue
INVARIANT TwoAnswers
PROPERTY ActiveFound
PROPERTY RoundEnds
INVARIANT IInv
