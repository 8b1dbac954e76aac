SPECIFICATION Spec
CONSTANTS
NoDoc = NoDoc
NoRole = NoRole
main = main
irsa1 = irsa1
irsa2 = irsa2
d1 = d1
d2 = d2
Role = {main}
Policy = {"control-plane", "nodes"}
Managed = {"m"}
Doc = {d1, d2}
Worker = {w1, w2}
Jobs <- SharedRoleJobs
IRSARoles <- NoIRSARoles
Environment = {"adopt", "create", "attach", "remove"}
SYMMETRY WorkerSymmetry
INVARIANTS TypeOK
PROPERTIES OthersRolesAreSafe
