SPECIFICATION Spec
CONSTANTS
t1 = t1
t2 = t2
bastion = bastion
p1 = p1
p2 = p2
Template <- OneAndBastion
ControlPlane <- OneTemplate
Profile = {p1, p2}
profileOf <- ProfileOf
Before = {"capa"}
Release = 33
EnableRoute53Role = TRUE
OldConfigMap = TRUE
maxPatchAttempts = 2
MaxFaults = 0
INVARIANTS RolesHaveAWSCluster
CHECK_DEADLOCK FALSE
