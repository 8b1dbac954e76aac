----------------------- MODULE MCMachinePoolController -----------------------
(***************************************************************************)
(* Small instances of MachinePoolController.                               *)
(***************************************************************************)
EXTENDS MachinePoolController

CONSTANTS a, b, k,  \* two pools of AWSMachinePools, one of Karpenter's
          p1, p2    \* profiles

\* The AWSMachinePools share a profile.
ProfileOf == [p \in Pool |-> IF p = k THEN p2 ELSE p1]
=============================================================================
