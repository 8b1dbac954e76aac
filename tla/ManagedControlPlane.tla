------------------------- MODULE ManagedControlPlane -------------------------
(***************************************************************************)
(* controllers/awsmanagedcontrolplane_controller.go: the IRSA roles of an  *)
(* EKS cluster, kept by the one goroutine that reconciles its              *)
(* AWSManagedControlPlane.  After every reconciliation that succeeds it    *)
(* comes back in five minutes.  The object itself, its Cluster and what    *)
(* Helm, Cluster API (CAPI) and its AWS provider (CAPA) do to them and to  *)
(* EKS are outside the repository.                                         *)
(***************************************************************************)
EXTENDS Naturals, KubernetesObject

CONSTANTS Releases,  \* those the cluster may have, by their major versions
          maxPatchAttempts,
          MaxFaults  \* how often a call fails or the operator restarts

ASSUME ControllerAssumption == /\ Releases \subseteq Nat
                               /\ maxPatchAttempts \in Nat \ {0}
                               /\ MaxFaults \in Nat

VARIABLES
    cluster,       \* the Cluster, with its release
    controlPlane,  \* the AWSManagedControlPlane
    eks,           \* EKS has the cluster, with its role and its OIDC issuer
    seen,          \* the cache: older copies of the two objects
    old,           \* five minutes ago the cache showed both deletions
    overtaken,     \* CAPA has let the control plane go before the operator was done
    pc,            \* the controller's next step, "idle" between reconciliations
    read,          \* what it has read, and the patch attempt
    queued,        \* the control plane waits to be reconciled
    requeueAfter,  \* it will be queued again in five minutes
    irsaRoles,     \* some IRSA role of the cluster exists
    faults

apiVars == <<cluster, controlPlane, eks>>
history == <<old, overtaken>>
queueVars == <<queued, requeueAfter>>
vars == <<apiVars, seen, history, pc, read, queueVars, irsaRoles, faults>>

Finalizer == {"operator", "capa"}
Steps == {"AddFinalizer", "GetEKS", "ReconcileRolesForIRSA",
          "DeleteRolesForIRSA", "RemoveFinalizer"}

ClusterRec == [life : {"live", "deleting", "gone"}, release : Releases]

ControlPlaneRec == [life : {"live", "deleting", "gone"}, named : BOOLEAN,
                    finalizers : SUBSET Finalizer]

TypeOK == /\ cluster \in ClusterRec
          /\ controlPlane \in ControlPlaneRec
          /\ seen \in [cluster : ClusterRec, controlPlane : ControlPlaneRec]
          /\ eks \in BOOLEAN /\ old \in BOOLEAN /\ overtaken \in BOOLEAN
          /\ pc \in Steps \union {"idle"}
          /\ read \in [clusterDeleting : BOOLEAN, rolesWanted : BOOLEAN,
                       finalizers : SUBSET Finalizer, attempt : 1 .. maxPatchAttempts]
          /\ queued \in BOOLEAN /\ requeueAfter \in BOOLEAN
          /\ irsaRoles \in BOOLEAN
          /\ faults \in 0 .. MaxFaults

\* What a reconciliation has read, it forgets when it returns.
Nothing == [clusterDeleting |-> FALSE, rolesWanted |-> FALSE,
            finalizers |-> {}, attempt |-> 1]

UpToDate == [cluster |-> cluster, controlPlane |-> controlPlane]

\* CAPA names a control plane's role after it has put its finalizer on it, and
\* without the name the operator does nothing: no copy that one of them patches
\* from lacks the finalizer of CAPA.
Init == /\ cluster \in [life : {"live"}, release : Releases]
        /\ controlPlane = [life |-> "live", named |-> FALSE, finalizers |-> {"capa"}]
        /\ eks = FALSE /\ old = FALSE /\ overtaken = FALSE
        /\ seen = UpToDate
        /\ pc = "idle" /\ read = Nothing
        /\ queued = TRUE /\ requeueAfter = FALSE
        /\ irsaRoles = FALSE
        /\ faults = 0

-----------------------------------------------------------------------------
Goto(step) == pc' = step /\ UNCHANGED <<read, queueVars>>

Return == pc' = "idle" /\ read' = Nothing

\* Reconcile returns an error: the control plane is queued again.
Error == Return /\ queued' = TRUE /\ UNCHANGED requeueAfter

\* It returns a RequeueAfter, which adds to the events still to come.
Requeue == Return /\ requeueAfter' = TRUE /\ UNCHANGED queued

\* Mutant: a control plane that is being deleted is not looked at again.
NoRequeueWhenDeleted ==
    IF seen.controlPlane.life = "deleting" THEN Return /\ UNCHANGED queueVars ELSE Requeue

RequeueAfterSuccess == Requeue

\* Mutant: the EKS cluster is described before the deletion is looked at.
DescribeFirst(deleting) ==
    IF ~deleting THEN "AddFinalizer" ELSE IF eks THEN "DeleteRolesForIRSA" ELSE "GetEKS"

Dispatch(deleting) == IF deleting THEN "DeleteRolesForIRSA" ELSE "AddFinalizer"

\* From release 35 on the roles are Crossplane's, and the operator's are deleted.
RolesWanted(release) == release < 35

\* The objects as the cache has them.  That the Cluster is not found is an error.
\* Without a role name there is nothing to do yet, not even for a control plane
\* that is being deleted.
Begin ==
    /\ pc = "idle" /\ queued
    /\ \/ /\ ~There(seen.controlPlane.life)
          /\ queued' = FALSE /\ UNCHANGED <<pc, read, requeueAfter>>
       \/ /\ There(seen.controlPlane.life) /\ ~There(seen.cluster.life)
          /\ Error
       \/ /\ There(seen.controlPlane.life) /\ There(seen.cluster.life)
          /\ ~seen.controlPlane.named
          /\ queued' = FALSE /\ requeueAfter' = TRUE /\ UNCHANGED <<pc, read>>
       \/ /\ There(seen.controlPlane.life) /\ There(seen.cluster.life)
          /\ seen.controlPlane.named
          /\ pc' = Dispatch(seen.controlPlane.life = "deleting")
          /\ read' = [clusterDeleting |-> seen.cluster.life = "deleting",
                      rolesWanted |-> RolesWanted(seen.cluster.release),
                      finalizers |-> seen.controlPlane.finalizers, attempt |-> 1]
          /\ queued' = FALSE /\ UNCHANGED requeueAfter
    /\ UNCHANGED <<apiVars, seen, history, irsaRoles, faults>>

\* A merge patch of the finalizers: it carries no resource version.
Patchable(new) == /\ There(controlPlane.life)
                  /\ Accepts(controlPlane.life, controlPlane.finalizers, new)

Patch(new) == /\ Patchable(new)
              /\ controlPlane' = [controlPlane EXCEPT !.life = LifeWith(@, new),
                                                      !.finalizers = new]
              /\ UNCHANGED <<cluster, eks>>

AddFinalizer ==
    LET new == read.finalizers \union {"operator"} IN
    /\ pc = "AddFinalizer"
    /\ \/ "operator" \in read.finalizers /\ Goto("GetEKS") /\ UNCHANGED apiVars
       \/ "operator" \notin read.finalizers /\ Patch(new) /\ Goto("GetEKS")
       \/ "operator" \notin read.finalizers /\ ~Patchable(new) /\ Error /\ UNCHANGED apiVars
    /\ UNCHANGED <<seen, history, irsaRoles, faults>>

\* GetIRSAOpenIDForEKS and GetRoleARN, which fail until CAPA has made both.
\* Mutant: a missing issuer is not an error, and nothing is tried again.
GiveUpWithoutEKS ==
    /\ pc = "GetEKS"
    /\ IF eks THEN Goto("ReconcileRolesForIRSA") ELSE Return /\ UNCHANGED queueVars
    /\ UNCHANGED <<apiVars, seen, history, irsaRoles, faults>>

GetEKS ==
    /\ pc = "GetEKS"
    /\ IF eks THEN Goto("ReconcileRolesForIRSA") ELSE Error
    /\ UNCHANGED <<apiVars, seen, history, irsaRoles, faults>>

ReconcileRolesForIRSA ==
    /\ pc = "ReconcileRolesForIRSA" /\ RequeueAfterSuccess
    /\ irsaRoles' = read.rolesWanted
    /\ UNCHANGED <<apiVars, seen, history, faults>>

\* They are kept, with no more ado, when the Cluster does not seem to go.
DeleteRolesForIRSA ==
    /\ pc = "DeleteRolesForIRSA" /\ Goto("RemoveFinalizer")
    /\ irsaRoles' = (irsaRoles /\ ~read.clusterDeleting)
    /\ UNCHANGED <<apiVars, seen, history, faults>>

\* removeFinalizer, which reads the object again when the patch is refused.
\* Mutant: one attempt too many.
MayRetryOnceMore == read.attempt <= maxPatchAttempts
MayRetry == read.attempt < maxPatchAttempts

RemoveFinalizer ==
    LET new == read.finalizers \ {"operator"} IN
    /\ pc = "RemoveFinalizer"
    /\ \/ "operator" \notin read.finalizers /\ RequeueAfterSuccess /\ UNCHANGED apiVars
       \/ "operator" \in read.finalizers /\ Patch(new) /\ RequeueAfterSuccess
       \/ /\ "operator" \in read.finalizers /\ ~Patchable(new)
          /\ IF There(controlPlane.life) /\ There(seen.controlPlane.life) /\ MayRetry
             THEN /\ read' = [read EXCEPT !.finalizers = seen.controlPlane.finalizers,
                                          !.attempt = @ + 1]
                  /\ UNCHANGED <<pc, queueVars>>
             ELSE Error
          /\ UNCHANGED apiVars
    /\ UNCHANGED <<seen, history, irsaRoles, faults>>

Working == \/ AddFinalizer \/ GetEKS \/ ReconcileRolesForIRSA
           \/ DeleteRolesForIRSA \/ RemoveFinalizer

\* A call fails, perhaps after what was left to do with the roles is done.
CallFails == /\ pc # "idle" /\ Error
             /\ \/ UNCHANGED irsaRoles
                \/ pc = "ReconcileRolesForIRSA" /\ irsaRoles' = read.rolesWanted
                \/ pc = "DeleteRolesForIRSA" /\ read.clusterDeleting /\ irsaRoles' = FALSE
             /\ UNCHANGED seen

\* The operator restarts: its queue begins with every object.
Restart == /\ Return /\ seen' = UpToDate
           /\ queued' = There(controlPlane.life) /\ requeueAfter' = FALSE
           /\ UNCHANGED irsaRoles

Fault == /\ faults < MaxFaults /\ faults' = faults + 1
         /\ CallFails \/ Restart
         /\ UNCHANGED <<apiVars, history>>

-----------------------------------------------------------------------------
(* The others.  Besides(A): the controller has no part in A.               *)

Besides(A) == A /\ UNCHANGED <<pc, read, irsaRoles, faults>>

SyncCluster == /\ seen.cluster # cluster
               /\ seen' = [seen EXCEPT !.cluster = cluster]
               /\ UNCHANGED <<apiVars, history, queueVars>>

\* The watch of control planes, which also queues them.
SyncControlPlane == /\ seen.controlPlane # controlPlane
                    /\ seen' = [seen EXCEPT !.controlPlane = controlPlane]
                    /\ queued' = TRUE
                    /\ UNCHANGED <<apiVars, history, requeueAfter>>

\* CAPA names the role, and makes it and the EKS cluster.
NameRole == /\ controlPlane.life = "live" /\ ~controlPlane.named
            /\ controlPlane' = [controlPlane EXCEPT !.named = TRUE]
            /\ UNCHANGED <<cluster, eks, seen, history, queueVars>>

MakeEKS == /\ controlPlane.life = "live" /\ controlPlane.named /\ ~eks
           /\ eks' = TRUE
           /\ UNCHANGED <<cluster, controlPlane, seen, history, queueVars>>

\* Helm gives the cluster a newer release, and uninstalls it: it deletes both
\* objects, in either order.
Upgrade == /\ cluster.life = "live"
           /\ \E r \in Releases : /\ r > cluster.release
                                  /\ cluster' = [cluster EXCEPT !.release = r]
           /\ UNCHANGED <<controlPlane, eks, seen, history, queueVars>>

DeleteCluster == /\ cluster.life = "live" /\ cluster' = [cluster EXCEPT !.life = "deleting"]
                 /\ UNCHANGED <<controlPlane, eks, seen, history, queueVars>>

DeleteControlPlane == /\ controlPlane.life = "live"
                      /\ controlPlane' = [controlPlane EXCEPT
                             !.life = Deleted(@, controlPlane.finalizers)]
                      /\ UNCHANGED <<cluster, eks, seen, history, queueVars>>

\* Five minutes pass, and what waits for them to pass is queued.
DeletionIsSeen == seen.cluster.life = "deleting" /\ seen.controlPlane.life = "deleting"

FiveMinutes == /\ requeueAfter \/ (DeletionIsSeen /\ ~old)
               /\ queued' = (queued \/ requeueAfter) /\ requeueAfter' = FALSE
               /\ old' = (old \/ (DeletionIsSeen /\ pc = "idle"))
               /\ UNCHANGED <<apiVars, seen, overtaken>>

\* CAPA deletes the EKS cluster, and when there is none it lets the object go.
\* It does not wait for the operator, and overtakes it when the five minutes have
\* not passed or what they have put into the queue is not done yet, perhaps
\* because it fails again and again.  CAPA's list may be an old copy, but no
\* finalizer comes to an object that is being deleted: the patch of a list that
\* has more than there are is refused, and CAPA tries again.
DeleteEKS == /\ controlPlane.life = "deleting"
             /\ eks /\ eks' = FALSE
             /\ UNCHANGED <<cluster, controlPlane, seen, history, queueVars>>

CAPAIsDone == /\ controlPlane.life = "deleting" /\ ~eks
              /\ "capa" \in controlPlane.finalizers
              /\ Patch(controlPlane.finalizers \ {"capa"})
              /\ overtaken' = ~(old /\ ~queued /\ pc = "idle")
              /\ UNCHANGED <<seen, old, queueVars>>

\* CAPI
ClusterGoes == /\ cluster.life = "deleting" /\ controlPlane.life = "gone"
               /\ cluster' = [cluster EXCEPT !.life = "gone"]
               /\ UNCHANGED <<controlPlane, eks, seen, history, queueVars>>

Next == \/ Begin \/ Working \/ Fault
        \/ Besides(\/ SyncCluster \/ SyncControlPlane \/ NameRole \/ MakeEKS
                   \/ Upgrade \/ DeleteCluster \/ DeleteControlPlane \/ FiveMinutes
                   \/ DeleteEKS \/ CAPAIsDone \/ ClusterGoes)

Spec == Init /\ [][Next]_vars

(* The queue gives the control plane its turn, a goroutine does not stop   *)
(* in the middle of a request, every watch brings its events, time passes  *)
(* and CAPA finishes what it has begun, and an uninstall is finished too.  *)
FairSpec == /\ Spec
            /\ WF_vars(Begin) /\ WF_vars(Working)
            /\ WF_vars(Besides(SyncCluster)) /\ WF_vars(Besides(SyncControlPlane))
            /\ WF_vars(Besides(FiveMinutes))
            /\ WF_vars(Besides(MakeEKS))
            /\ WF_vars(Besides(DeleteEKS)) /\ WF_vars(Besides(CAPAIsDone))
            /\ WF_vars(Besides(controlPlane.life = "deleting" /\ DeleteCluster))

-----------------------------------------------------------------------------
\* No IRSA role outlives a control plane that CAPA has let go only after the visit
\* that the operator makes five minutes after the cache shows both deletions, the
\* visit having ended without an error, however often it was tried.  When the
\* cache does not yet show that the Cluster is being deleted, DeleteRolesForIRSA
\* keeps the roles and the finalizer is removed all the same: only this later
\* visit, while CAPA still holds the object, makes up for it, and it always comes.
RolesGoWithControlPlane == controlPlane.life = "gone" /\ ~overtaken => ~irsaRoles

\* A control plane that stays, with a role name, ends with the operator's
\* finalizer, with its IRSA roles when its Cluster's release has them and without
\* any from release 35 on, though no event tells of its EKS cluster or of the
\* Cluster's upgrade.
ControlPlaneIsServed ==
    <>[](controlPlane.life = "live" /\ controlPlane.named
         => /\ irsaRoles <=> RolesWanted(cluster.release)
            /\ "operator" \in controlPlane.finalizers)

\* A control plane that is being deleted goes: the operator, which patches the
\* finalizers from an old copy, and CAPA, which removes its own meanwhile, do not
\* block each other, and the operator does not need the EKS cluster that CAPA
\* deletes at any time.
ControlPlaneDeletionCompletes == <>[](controlPlane.life # "deleting")
=============================================================================
