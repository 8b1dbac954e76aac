------------------------- MODULE TemplateController -------------------------
(***************************************************************************)
(* controllers/awsmachinetemplate_controller.go: the one goroutine that    *)
(* reconciles the AWSMachineTemplates of a cluster, call by call: its      *)
(* reads of the cache, its patches of finalizers and its calls of pkg/iam, *)
(* which IAMService refines.  Here a call of pkg/iam either does its work  *)
(* or fails; a failure in the middle of one is a failure after the step.   *)
(***************************************************************************)
EXTENDS ClusterObjects

CONSTANTS
    Release,            \* the cluster's release, by its major version
    EnableRoute53Role,  \* the flag --enable-route53-role
    OldConfigMap,       \* an older version held the cluster-values ConfigMap
    maxPatchAttempts,
    MaxFaults           \* how often a call fails or the operator restarts

ASSUME ControllerAssumption == /\ Release \in Nat
                               /\ EnableRoute53Role \in BOOLEAN
                               /\ OldConfigMap \in BOOLEAN
                               /\ maxPatchAttempts \in Nat \ {0}
                               /\ MaxFaults \in Nat

VARIABLES
    pc,        \* the controller's next step, "idle" between two reconciliations
    at,        \* the template it reconciles
    read,      \* what it has read: the template, the Cluster's deletion
               \* timestamp, the AWSCluster's finalizers and the patch attempt
    mainRole,  \* the profiles whose IAM role exists
    irsaRoles, \* some IRSA role of the cluster exists
    valuesHeld,\* the operator's finalizer is on the cluster-values ConfigMap
    faults

controllerVars == <<pc, at, read>>
iamState == <<mainRole, irsaRoles>>
vars == <<objectVars, controllerVars, iamState, valuesHeld, faults>>

Steps == {"GetCluster", "GetAWSCluster", "HoldTemplate", "HoldAWSCluster",
          "ReconcileRole", "ReconcileRolesForIRSA", "IsRoleUsedElsewhere",
          "DeleteRole", "DeleteRolesForIRSA", "GetAWSClusterAgain",
          "ReleaseAWSCluster", "ReleaseTemplate", "ReleaseConfigMap"}

TypeOK == /\ ObjectsTypeOK
          /\ pc \in Steps \union {"idle"}
          /\ at \in Template
          /\ read \in [template : TemplateRec, clusterDeleting : BOOLEAN,
                       finalizers : SUBSET Finalizer, attempt : 1 .. maxPatchAttempts]
          /\ mainRole \subseteq Profile
          /\ irsaRoles \in BOOLEAN /\ valuesHeld \in BOOLEAN
          /\ faults \in 0 .. MaxFaults

\* What a reconciliation has read, it forgets when it returns.
Nothing == [template |-> [life |-> "absent", held |-> FALSE], clusterDeleting |-> FALSE,
            finalizers |-> {}, attempt |-> 1]

Init == /\ ObjectsInit
        /\ pc = "idle"
        /\ at \in Template
        /\ read = Nothing
        /\ mainRole = {} /\ irsaRoles = FALSE
        /\ valuesHeld = OldConfigMap
        /\ faults = 0

-----------------------------------------------------------------------------
Goto(step) == /\ pc' = step /\ UNCHANGED at
              /\ read' = IF step = "idle" THEN Nothing ELSE read

GotoWith(step, known) == pc' = step /\ read' = known /\ UNCHANGED at

Step(here, next) == /\ pc = here /\ Goto(next) /\ UNCHANGED faults

\* Reconcile returns, with nil or with an error: the request is done or tried
\* again later, which is the same to a controller that may begin at any time.
Return == Goto("idle")

IsControlPlane == at \in ControlPlane
WithIRSA == IsControlPlane /\ EnableRoute53Role

\* Mutant: the deletion of a template is not waited with.
BeginAtOnce(t) ==
    /\ pc = "idle" /\ There(seen.template[t].life)
    /\ at' = t
    /\ read' = [read EXCEPT !.template = seen.template[t]]
    /\ pc' = "GetCluster"
    /\ UNCHANGED <<objectVars, iamState, valuesHeld, faults>>

\* The template as the cache has it.  A template whose deletion is younger
\* than ten seconds is put back in the queue untouched.
Begin(t) ==
    /\ pc = "idle" /\ There(seen.template[t].life)
    /\ seen.template[t].life = "deleting" => t \in aged
    /\ at' = t
    /\ read' = [read EXCEPT !.template = seen.template[t]]
    /\ pc' = "GetCluster"
    /\ UNCHANGED <<objectVars, iamState, valuesHeld, faults>>

GetCluster ==
    /\ pc = "GetCluster"
    /\ \/ /\ There(seen.cluster)
          /\ GotoWith("GetAWSCluster", [read EXCEPT !.clusterDeleting = (seen.cluster = "deleting")])
       \/ ~There(seen.cluster) /\ Return
    /\ UNCHANGED <<objectVars, iamState, valuesHeld, faults>>

\* Mutant: an AWSCluster that is being deleted does not count.
FoundLive == seen.awsCluster.life = "live"

\* GetAWSClusterByName: the one AWSCluster with the cluster's label.
Found == There(seen.awsCluster.life)

GetAWSCluster ==
    /\ pc = "GetAWSCluster"
    /\ \/ /\ Found
          /\ GotoWith(IF read.template.life = "deleting" THEN "IsRoleUsedElsewhere"
                      ELSE "HoldTemplate",
                      [read EXCEPT !.finalizers = seen.awsCluster.finalizers])
       \/ ~Found /\ Return
    /\ UNCHANGED <<objectVars, iamState, valuesHeld, faults>>

(* reconcileNormal *)

AddTemplateFinalizer ==
    /\ pc = "HoldTemplate"
    /\ \/ read.template.held /\ Goto("HoldAWSCluster") /\ UNCHANGED objectVars
       \/ ~read.template.held /\ HoldTemplate(at) /\ Goto("HoldAWSCluster")
       \/ ~read.template.held /\ template[at].life = "gone" /\ Return /\ UNCHANGED objectVars
    /\ UNCHANGED <<iamState, valuesHeld, faults>>

\* Mutant: the roles are made without a finalizer on the AWSCluster.
NoAWSClusterFinalizer == /\ pc = "HoldAWSCluster" /\ Goto("ReconcileRole")
                         /\ UNCHANGED <<objectVars, iamState, valuesHeld, faults>>

AddAWSClusterFinalizer ==
    LET new == read.finalizers \union {"operator"} IN
    /\ pc = "HoldAWSCluster"
    /\ \/ "operator" \in read.finalizers /\ Goto("ReconcileRole") /\ UNCHANGED objectVars
       \/ "operator" \notin read.finalizers /\ PatchAWSCluster(new) /\ Goto("ReconcileRole")
       \/ /\ "operator" \notin read.finalizers
          /\ ~There(awsCluster.life) \/ ~AcceptsFinalizers(new)
          /\ Return /\ UNCHANGED objectVars
    /\ UNCHANGED <<iamState, valuesHeld, faults>>

\* From 34 on the control plane's role is Crossplane's, from 35 on all are.
LeftToCrossplane == IsControlPlane /\ Release >= 34

ReconcileRole ==
    /\ Step("ReconcileRole", IF WithIRSA THEN "ReconcileRolesForIRSA" ELSE "idle")
    /\ mainRole' = IF LeftToCrossplane THEN mainRole
                   ELSE IF Release >= 35 THEN mainRole \ {profileOf[at]}
                   ELSE mainRole \union {profileOf[at]}
    /\ UNCHANGED <<objectVars, irsaRoles, valuesHeld>>

ReconcileRolesForIRSA ==
    /\ Step("ReconcileRolesForIRSA", "idle")
    /\ irsaRoles' = (Release < 35)
    /\ UNCHANGED <<objectVars, mainRole, valuesHeld>>

(* reconcileDelete *)

\* Mutant: no other template is looked for.
NeverUsedElsewhere(p) == FALSE

UsedElsewhere(p) == \E t \in Template : seen.template[t].life = "live" /\ profileOf[t] = p

IsRoleUsedElsewhere ==
    /\ Step("IsRoleUsedElsewhere",
            IF UsedElsewhere(profileOf[at]) THEN "GetAWSClusterAgain" ELSE "DeleteRole")
    /\ UNCHANGED <<objectVars, iamState, valuesHeld>>

\* Mutant: a bastion's role is kept until the cluster is deleted, too.
DeleteRoleOnlyWithCluster ==
    /\ Step("DeleteRole", IF WithIRSA THEN "DeleteRolesForIRSA" ELSE "GetAWSClusterAgain")
    /\ mainRole' = IF LeftToCrossplane \/ ~read.clusterDeleting
                   THEN mainRole ELSE mainRole \ {profileOf[at]}
    /\ UNCHANGED <<objectVars, irsaRoles, valuesHeld>>

DeleteRole ==
    /\ Step("DeleteRole", IF WithIRSA THEN "DeleteRolesForIRSA" ELSE "GetAWSClusterAgain")
    /\ mainRole' = IF LeftToCrossplane \/ (IsControlPlane /\ ~read.clusterDeleting)
                   THEN mainRole ELSE mainRole \ {profileOf[at]}
    /\ UNCHANGED <<objectVars, irsaRoles, valuesHeld>>

DeleteRolesForIRSA ==
    /\ Step("DeleteRolesForIRSA", "GetAWSClusterAgain")
    /\ irsaRoles' = (irsaRoles /\ ~read.clusterDeleting)
    /\ UNCHANGED <<objectVars, mainRole, valuesHeld>>

GetAWSClusterAgain ==
    /\ pc = "GetAWSClusterAgain"
    /\ \/ /\ Found
          /\ GotoWith("ReleaseAWSCluster", [read EXCEPT !.finalizers = seen.awsCluster.finalizers])
       \/ ~Found /\ Return
    /\ UNCHANGED <<objectVars, iamState, valuesHeld, faults>>

\* removeFinalizer on the AWSCluster: when the API server refuses the patch,
\* because another controller has removed its finalizer meanwhile, the object
\* is read again and the patch repeated, up to maxPatchAttempts times.
\* Mutant: one attempt too many.
MayRetryOnceMore == read.attempt <= maxPatchAttempts
MayRetry == read.attempt < maxPatchAttempts

Refetch ==
    IF There(seen.awsCluster.life)
    THEN GotoWith("ReleaseAWSCluster", [read EXCEPT !.finalizers = seen.awsCluster.finalizers,
                                                    !.attempt = @ + 1])
    ELSE Return

RemoveAWSClusterFinalizer ==
    LET new == read.finalizers \ {"operator"} IN
    /\ pc = "ReleaseAWSCluster"
    /\ \/ "operator" \notin read.finalizers /\ Goto("ReleaseTemplate") /\ UNCHANGED objectVars
       \/ "operator" \in read.finalizers /\ PatchAWSCluster(new) /\ Goto("ReleaseTemplate")
       \/ /\ "operator" \in read.finalizers /\ There(awsCluster.life) /\ ~AcceptsFinalizers(new)
          /\ IF MayRetry THEN Refetch ELSE Return
          /\ UNCHANGED objectVars
       \/ "operator" \in read.finalizers /\ ~There(awsCluster.life) /\ Return /\ UNCHANGED objectVars
    /\ UNCHANGED <<iamState, valuesHeld, faults>>

RemoveTemplateFinalizer ==
    /\ pc = "ReleaseTemplate"
    /\ \/ ~read.template.held /\ Goto("ReleaseConfigMap") /\ UNCHANGED objectVars
       \/ read.template.held /\ ReleaseTemplate(at) /\ Goto("ReleaseConfigMap")
       \/ read.template.held /\ template[at].life = "gone" /\ Return /\ UNCHANGED objectVars
    /\ UNCHANGED <<iamState, valuesHeld, faults>>

RemoveConfigMapFinalizer ==
    /\ Step("ReleaseConfigMap", "idle")
    /\ valuesHeld' = FALSE
    /\ UNCHANGED <<objectVars, iamState>>

\* A call fails, or the operator restarts, which empties its cache: the new
\* process lists every object.
Fault == /\ pc # "idle" /\ faults < MaxFaults
         /\ Return /\ faults' = faults + 1
         /\ seen' \in {seen, [cluster |-> cluster, awsCluster |-> awsCluster,
                              template |-> template]}
         /\ UNCHANGED <<apiVars, capaSaw, aged, uninstall, iamState, valuesHeld>>

Working == \/ GetCluster \/ GetAWSCluster
           \/ AddTemplateFinalizer \/ AddAWSClusterFinalizer
           \/ ReconcileRole \/ ReconcileRolesForIRSA
           \/ IsRoleUsedElsewhere \/ DeleteRole \/ DeleteRolesForIRSA
           \/ GetAWSClusterAgain \/ RemoveAWSClusterFinalizer
           \/ RemoveTemplateFinalizer \/ RemoveConfigMapFinalizer

\* What others do besides the controller.
Besides(A) == A /\ UNCHANGED <<controllerVars, iamState, valuesHeld, faults>>
Elsewhere == Besides(Others)

Next == \/ \E t \in Template : Begin(t)
        \/ Working \/ Fault \/ Elsewhere

Spec == Init /\ [][Next]_vars

(* What is due happens: every watch brings its events, CAPI and CAPA       *)
(* finish, time passes, and Helm finishes an uninstall it has begun.       *)
(* Nobody has to create, upgrade or uninstall anything.  The controller's  *)
(* queue gives every template its turn, and a goroutine does not stop in   *)
(* the middle of a request.                                                *)
FairSpec == /\ Spec
            /\ WF_vars(Working)
            /\ \A t \in Template : SF_vars(Begin(t))
            /\ WF_vars(Besides(SyncCluster))
            /\ WF_vars(Besides(SyncAWSCluster))
            /\ WF_vars(Besides(SyncTemplates))
            /\ WF_vars(Besides(Due))

-----------------------------------------------------------------------------
\* As long as a role that the operator made exists, the AWSCluster does too:
\* without it the operator has neither the AWS account nor the region, and
\* can never delete the role.  This is what the finalizer on the AWSCluster
\* is for ("Add finalizer to AWSCluster when reconciling AWSClusterTemplates",
\* CHANGELOG.md, 0.21.0).
RolesHaveAWSCluster == awsCluster.life = "gone" => mainRole = {} /\ ~irsaRoles

\* CAPA never adds its finalizer to a list from before the operator's came.
CAPAKeepsFinalizer ==
    \A old \in capaSaw : "operator" \in awsCluster.finalizers => "operator" \in old

\* RolesHaveAWSCluster, as long as CAPA does not take the operator's finalizer
\* away with a patch from an old copy, which nothing prevents: no order of the
\* operator's own patches, no failure, no restart and no stale read may do it
\* (awsmachinetemplate_controller.go, reconcileNormal and reconcileDelete).
AWSClusterGuardsRoles == []CAPAKeepsFinalizer => []RolesHaveAWSCluster

\* A role never outlives the last template that could still delete it: some
\* template with its profile has the operator's finalizer, and for the IRSA
\* roles it is a control plane's.  Deletion keeps a role that another template
\* uses, or whose Cluster seems to stay, and then lets the template go; the
\* ten seconds' wait is what makes the second of these decisions right.
EveryRoleIsHeld ==
    /\ \A p \in mainRole : \E t \in Template : profileOf[t] = p /\ template[t].held
    /\ irsaRoles => \E t \in ControlPlane : template[t].held

\* No step of the controller deletes the role of a template that is live and
\* has been reconciled, however old the cache that tells it who uses the role:
\* its machines would lose their permissions.
ReconciledRolesStay ==
    [][\A t \in Template : template[t].life = "live" /\ template[t].held =>
           (profileOf[t] \in mainRole => profileOf[t] \in mainRole')]_vars

\* A template that is being deleted is released, or the AWSCluster is gone:
\* the two deletions, each of which waits for finalizers of the other's, do
\* not wait for one another for ever.
TemplateReleased ==
    \A t \in Template : template[t].life = "deleting" ~>
        (template[t].life = "gone" \/ awsCluster.life = "gone")

\* A template that is being deleted while the operator's finalizer keeps the
\* AWSCluster goes in the end: until then the AWSCluster stays ("Add finalizer
\* to AWSCluster ...  The AWSClusterTemplate won't block deletion of the
\* AWSCluster, without which the operator cannot proceed with deletion",
\* CHANGELOG.md, 0.21.0).
TemplateDeletionCompletes ==
    \A t \in Template :
        template[t].life = "deleting" /\ "operator" \in awsCluster.finalizers
            ~> template[t].life = "gone"
=============================================================================
