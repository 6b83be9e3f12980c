\* One agent process; the stop scripts may fail.
SPECIFICATION FairSpec
CONSTANT StopMayFail = TRUE
INVARIANT OneRole
INVARIANT NoOrphans
INVARIANT Released
INVARIANT ResourceOrder
INVARIANT ActiveAnswerTrue
INVARIANT JoinsAdvance
INVARIANT IInv
PROPERTY Answered
PROPERTY NodeSpec
