SPECIFICATION FairSpec
CONSTANTS
Releases = {34, 35}
maxPatchAttempts = 2
MaxFaults = 2
INVARIANTS TypeOK RolesGoWithControlPlane
PROPERTIES ControlPlaneIsServed ControlPlaneDeletionCompletes
CHECK_DEADLOCK FALSE
