SPECIFICATION Spec
CONSTANTS
NoDoc = NoDoc
NoRole = NoRole
main = main
irsa1 = irsa1
irsa2 = irsa2
d1 = d1
d2 = d2
Role = {main}
Policy = {"control-plane"}
Managed = {}
Doc = {d1}
Worker = {w1}
Jobs <- ReconcileJobs
IRSARoles <- NoIRSARoles
Environment = {"adopt", "create"}
PROPERTIES OnlyOwnedRolesGetPolicies
