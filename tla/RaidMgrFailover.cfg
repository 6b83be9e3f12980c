\* The role moves while a recovery is under way.
SPECIFICATION Spec
CONSTANT Node = {a, b}
CONSTANT Admitted = {"failover"}
INVARIANT ActiveHasData
