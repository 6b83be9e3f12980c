\* No fault is passed over in silence, and no message is acted upon for nothing;
\* a fault is reported, and the loss of the role leads to a failover.
SPECIFICATION FairSpec
CONSTANT PipeSize = 1
CONSTANT MsgSize = 1
CONSTANT ReadSize = 1
CONSTANT MaxRetry = 1
CONSTANT Disks = {"UpToDate", "Consistent", "Bad"}
INVARIANT SilentOnlyIfTold
INVARIANT NoFalseAlarm
INVARIANT IInv
PROPERTY FaultTold
PROPERTY RoleLossActedOn
