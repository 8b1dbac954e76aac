SPECIFICATION FairSpec
CONSTANTS
t1 = t1
t2 = t2
bastion = bastion
p1 = p1
p2 = p2
Template <- OneTemplate
ControlPlane <- OneTemplate
Profile = {p1}
profileOf <- ProfileOf
Before = {}
Release = 33
EnableRoute53Role = TRUE
OldConfigMap = TRUE
maxPatchAttempts = 2
MaxFaults = 1
INVARIANTS TypeOK EveryRoleIsHeld
PROPERTIES TemplateReleased AWSClusterGuardsRoles
CHECK_DEADLOCK FALSE
