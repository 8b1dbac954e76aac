SPECIFICATION RetrySpec
CONSTANTS
NoDoc = NoDoc
NoRole = NoRole
main = main
irsa1 = irsa1
irsa2 = irsa2
d1 = d1
d2 = d2
Role = {irsa1, irsa2}
Policy = {"control-plane"}
Managed = {}
Doc = {d1, d2}
Worker = {w1}
Jobs <- IRSAJobs
IRSARoles <- MCIRSARoles
Environment = {"adopt", "create", "remove"}
MaxFaults = 2
PROPERTIES ReconciliationConverges DeletionConverges
