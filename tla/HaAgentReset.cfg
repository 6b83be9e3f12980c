\* Stop scripts that keep failing keep the node up.
SPECIFICATION FairSpec
CONSTANT StopMayFail = TRUE
PROPERTY StopFailureResets
