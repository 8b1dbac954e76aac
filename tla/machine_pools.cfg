SPECIFICATION FairSpec
CONSTANTS
a = a
b = b
k = k
NoPool = NoPool
p1 = p1
p2 = p2
Pool = {a, b}
Karpenter = {}
Provided = {a}
Old = {b}
Profile = {p1}
profileOf <- ProfileOf
Release = 33
maxPatchAttempts = 2
MaxFaults = 1
INVARIANTS TypeOK
PROPERTIES UsedRolesStay PoolDeletionCompletes LivePoolsAreServed
CHECK_DEADLOCK FALSE
