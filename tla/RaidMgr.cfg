\* A recovery leaves the active node alone and ends.
SPECIFICATION FairSpec
CONSTANT Node = {a, b}
CONSTANT Admitted = {}
INVARIANT ActiveHasData
INVARIANT RecoveryByPrimary
INVARIANT IInv
PROPERTY RecoveryEnds
