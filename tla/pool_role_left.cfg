SPECIFICATION Spec
CONSTANTS
a = a
b = b
k = k
NoPool = NoPool
p1 = p1
p2 = p2
Pool = {a}
Karpenter = {}
Provided = {}
Old = {}
Profile = {p1}
profileOf <- ProfileOf
Release = 33
maxPatchAttempts = 2
MaxFaults = 0
INVARIANTS RoleGoesWithItsPools
CHECK_DEADLOCK FALSE
