SPECIFICATION Spec
CONSTANTS
NoDoc = NoDoc
NoRole = NoRole
main = main
irsa1 = irsa1
irsa2 = irsa2
d1 = d1
d2 = d2
Role = {irsa1, irsa2}
Policy = {"control-plane"}
Managed = {"m"}
Doc = {d1, d2}
Worker = {w1}
Jobs <- AllJobs
IRSARoles <- MCIRSARoles
Environment = {}
Domain = {"x", "y"}
MaxParts = 3
INVARIANTS OkMeansDone DocumentsAreComplete TrustDomainsAreCentral
PROPERTIES NoProfileIsOrphaned RolesOutliveUpgrades SteadyStateIsKept
