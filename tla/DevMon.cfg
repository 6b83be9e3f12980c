\* The supervision is on when AMF was told so, and leaves nothing behind.
SPECIFICATION FairSpec
CONSTANT MaxBacklog = 2
INVARIANT ActiveWatched
INVARIANT NothingLeft
INVARIANT InUse
INVARIANT NoAbnormalClose
INVARIANT IInv
PROPERTY Answered
