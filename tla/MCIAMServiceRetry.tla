-------------------------- MODULE MCIAMServiceRetry --------------------------
(***************************************************************************)
(* Small instances of IAMServiceRetry: jobs that are tried again and again. *)
(***************************************************************************)
EXTENDS IAMServiceRetry

CONSTANTS main, irsa1, irsa2,   \* role names
          d1, d2                \* documents

MCIRSARoles == <<irsa1, irsa2>>
NoIRSARoles == <<main>>

MkJob(op, roleType, deleted) ==
    [op |-> op, roleType |-> roleType, release |-> 33,
     clusterIsBeingDeleted |-> deleted, mainRole |-> CHOOSE r \in Role : TRUE,
     doc |-> d1, trustDomains |-> TRUE]

OneReconcile == {MkJob("ReconcileRole", "control-plane", FALSE)}

\* The IRSA roles of a cluster, made or deleted.
IRSAJobs == {MkJob("ReconcileRolesForIRSA", "control-plane", FALSE),
             MkJob("DeleteRolesForIRSA", "control-plane", TRUE)}
=============================================================================
