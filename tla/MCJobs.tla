------------------------------- MODULE MCJobs -------------------------------
(***************************************************************************)
(* An instance of IAMService with the jobs of a whole cluster, and what    *)
(* the functions that give these jobs their documents return.              *)
(***************************************************************************)
EXTENDS MCIAMService, RoleDocuments

\* The jobs of one cluster whose IRSA roles are reconciled and deleted.
IRSAJobs ==
    {MkJob("ReconcileRolesForIRSA", "control-plane", v, FALSE, d1) : v \in {33, 35}}
    \union {MkJob("DeleteRolesForIRSA", "control-plane", 33, b, d1) : b \in BOOLEAN}
    \union {[MkJob("ReconcileRolesForIRSA", "control-plane", 33, FALSE, d1)
               EXCEPT !.trustDomains = FALSE]}

\* Jobs of every kind on the roles of one cluster, on either side of each gate.
\* The main role that 35 deletes, a bastion's, is in the run ownership.
AllJobs ==
    {MkJob("ReconcileRole", "control-plane", v, FALSE, d1) : v \in {33, 35}}
    \union {MkJob("DeleteRole", "control-plane", 33, b, d1) : b \in BOOLEAN}
    \union IRSAJobs
=============================================================================
