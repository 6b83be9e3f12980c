\* The pair in a partition, with none of the excluded circumstances.
SPECIFICATION Spec
CONSTANT Node = {sc1, sc2}
CONSTANT Admitted = {}
INVARIANT OneActive
PROPERTY LockFileKept
PROPERTY NoResponseNoActive
PROPERTY LockedPeerInactive
PROPERTY RoleSpec
PROPERTY MembersSpec
INVARIANT IInv
