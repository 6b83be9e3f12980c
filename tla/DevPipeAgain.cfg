\* A reactor that is started again, with one message in a pipe that holds one.
SPECIFICATION FairSpec
CONSTANT PipeSize = 1
CONSTANT MsgSize = 1
CONSTANT ReadSize = 1
CONSTANT MaxRetry = 0
CONSTANT Disks = {"UpToDate"}
PROPERTY PipeServed
