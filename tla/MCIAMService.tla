---------------------------- MODULE MCIAMService ----------------------------
(***************************************************************************)
(* Small instances of IAMService.                                          *)
(***************************************************************************)
EXTENDS IAMService, TLC

CONSTANTS main, irsa1, irsa2,   \* role names
          d1, d2                \* documents

MCIRSARoles == <<irsa1, irsa2>>

\* For the runs without an IRSA job, which look at one role only.
NoIRSARoles == <<main>>

MkJob(op, roleType, release, deleted, doc) ==
    [op |-> op, roleType |-> roleType, release |-> release,
     clusterIsBeingDeleted |-> deleted, mainRole |-> CHOOSE r \in Role : TRUE,
     doc |-> doc, trustDomains |-> TRUE]

\* A control plane's machine template and a machine pool that share a role,
\* before and during the upgrades to 34 and 35.  The pool's jobs write one of
\* the two inline policies; the other is somebody else's.  The role that 35
\* deletes stands for any that is not a node role.
SharedRoleJobs ==
    {MkJob("ReconcileRole", "nodes", v, FALSE, d1) : v \in {33, 34}}
    \union {MkJob("DeleteRole", "control-plane", v, TRUE, d1) : v \in {33, 34}}
    \union {MkJob("DeleteRole", "nodes", 33, FALSE, d1),
            MkJob("ReconcileRolesForIRSA", "control-plane", 35, FALSE, d1)}

\* Two workers are interchangeable.
WorkerSymmetry == Permutations(Worker)

\* The reconciliation of a role that another tool may have made, on either side
\* of the gate for node roles.
ReconcileJobs == {MkJob("ReconcileRole", "control-plane", v, FALSE, d1) : v \in {33, 34}}
=============================================================================
