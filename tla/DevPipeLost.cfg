\* A change of role that was written into the pipe, at the real sizes.
SPECIFICATION FairSpec
CONSTANT PipeSize = 4
CONSTANT MsgSize = 313
CONSTANT ReadSize = 1024
CONSTANT MaxRetry = 0
CONSTANT Disks = {"UpToDate"}
PROPERTY RoleChangeReceived
