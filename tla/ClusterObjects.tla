--------------------------- MODULE ClusterObjects ---------------------------
(***************************************************************************)
(* The Kubernetes objects of one workload cluster that the                 *)
(* AWSMachineTemplate controller reads and writes, as the API server has   *)
(* them and as the operator's informer cache shows them, and what Helm,    *)
(* Cluster API (CAPI) and its AWS provider (CAPA) do to them.  All of it   *)
(* is outside the repository.                                              *)
(***************************************************************************)
EXTENDS Naturals, KubernetesObject

CONSTANTS
    Template,      \* AWSMachineTemplates with the watch label and a role label
    ControlPlane,  \* those labelled control-plane; the others are bastions
    Profile,       \* names of instance profiles, and so of roles
    profileOf,     \* [Template -> Profile]: spec.template.spec.iamInstanceProfile
    Before         \* the AWSCluster's finalizers when the operator comes

Finalizer == {"operator", "capa"}

ASSUME TemplateAssumption == /\ ControlPlane \subseteq Template
                             /\ profileOf \in [Template -> Profile]
                             /\ Before \subseteq Finalizer \ {"operator"}

ClusterLife == Life \ {"absent"}
AWSClusterRec == [life : ClusterLife, finalizers : SUBSET Finalizer]
TemplateRec == [life : Life, held : BOOLEAN]   \* held by the operator's finalizer

VARIABLES
    cluster,     \* the Cluster's life
    awsCluster,  \* the AWSCluster
    capaSaw,     \* the finalizers CAPA has read and will add its own to
    template,    \* [Template -> TemplateRec]
    seen,        \* the cache: older copies of the three
    aged,        \* the templates deleted more than ten seconds ago
    uninstall    \* Helm has begun to uninstall the cluster's release

apiVars == <<cluster, awsCluster, template>>
objectVars == <<apiVars, capaSaw, seen, aged, uninstall>>

ObjectsTypeOK ==
    /\ cluster \in ClusterLife
    /\ awsCluster \in AWSClusterRec
    /\ capaSaw \in SUBSET SUBSET Finalizer
    /\ template \in [Template -> TemplateRec]
    /\ seen \in [cluster : ClusterLife, awsCluster : AWSClusterRec,
                 template : [Template -> TemplateRec]]
    /\ aged \subseteq Template
    /\ uninstall \in BOOLEAN

\* One template is there from the beginning, the AWSCluster is as Helm has made
\* it or as CAPA has left it since, and the cache is up to date.
ObjectsInit ==
    /\ cluster = "live"
    /\ awsCluster = [life |-> "live", finalizers |-> Before]
    /\ capaSaw = {}
    /\ template \in [Template -> [life : {"absent", "live"}, held : {FALSE}]]
    /\ \E t \in ControlPlane : template[t].life = "live"
    /\ seen = [cluster |-> cluster, awsCluster |-> awsCluster, template |-> template]
    /\ aged = {}
    /\ uninstall = FALSE

-----------------------------------------------------------------------------
(* Merge patches of the finalizers, as the operator sends them.  The patch *)
(* replaces the whole list and carries no resource version.                *)

AcceptsFinalizers(new) == Accepts(awsCluster.life, awsCluster.finalizers, new)

PatchAWSCluster(new) ==
    /\ There(awsCluster.life) /\ AcceptsFinalizers(new)
    /\ awsCluster' = [life |-> LifeWith(awsCluster.life, new), finalizers |-> new]
    /\ UNCHANGED <<cluster, template, capaSaw, seen, aged, uninstall>>

HoldTemplate(t) ==
    /\ template[t].life = "live" \/ (template[t].life = "deleting" /\ template[t].held)
    /\ template' = [template EXCEPT ![t].held = TRUE]
    /\ UNCHANGED <<cluster, awsCluster, capaSaw, seen, aged, uninstall>>

ReleaseTemplate(t) ==
    /\ There(template[t].life)
    /\ template' = [template EXCEPT
           ![t] = [life |-> LifeWith(@.life, {}), held |-> FALSE]]
    /\ UNCHANGED <<cluster, awsCluster, capaSaw, seen, aged, uninstall>>

-----------------------------------------------------------------------------
(* The informer cache catches up with the objects of one kind, whose       *)
(* events it gets in their order; kinds are watched independently.         *)

Caught(s) == /\ seen' = s /\ seen' # seen
             /\ UNCHANGED <<apiVars, capaSaw, aged, uninstall>>

SyncCluster == Caught([seen EXCEPT !.cluster = cluster])
SyncAWSCluster == Caught([seen EXCEPT !.awsCluster = awsCluster])
SyncTemplates == Caught([seen EXCEPT !.template = template])

(* Helm.  An upgrade makes a new template before it deletes the old one,   *)
(* and deletes a control plane's template only when another one with the   *)
(* same profile is in place.  Nobody uninstalls a release before the       *)
(* operator has put its finalizer on the templates.                        *)

Marked(t) == IF template[t].held THEN [template[t] EXCEPT !.life = "deleting"]
             ELSE [template[t] EXCEPT !.life = "gone"]

Create(t) == /\ ~uninstall /\ template[t].life = "absent"
             /\ template' = [template EXCEPT ![t].life = "live"]
             /\ UNCHANGED <<cluster, awsCluster, capaSaw, seen, aged, uninstall>>

Replaced(t) == \E u \in Template \ {t} : /\ template[u].life = "live" /\ template[u].held
                                         /\ profileOf[u] = profileOf[t]

Upgrade(t) == /\ ~uninstall /\ template[t].life = "live"
              /\ t \in ControlPlane => Replaced(t)
              /\ template' = [template EXCEPT ![t] = Marked(t)]
              /\ UNCHANGED <<cluster, awsCluster, capaSaw, seen, aged, uninstall>>

Uninstall == /\ ~uninstall
             /\ \A t \in Template : template[t].life = "live" => template[t].held
             /\ uninstall' = TRUE
             /\ UNCHANGED <<apiVars, capaSaw, seen, aged>>

UninstallCluster == /\ uninstall /\ cluster = "live"
                    /\ cluster' = "deleting"
                    /\ UNCHANGED <<awsCluster, template, capaSaw, seen, aged, uninstall>>

UninstallTemplate(t) == /\ uninstall /\ template[t].life = "live"
                        /\ template' = [template EXCEPT ![t] = Marked(t)]
                        /\ UNCHANGED <<cluster, awsCluster, capaSaw, seen, aged, uninstall>>

\* Ten seconds pass.  They are enough for Helm to delete the Cluster too, and
\* for the cache to learn of it: what the controller's wait relies on.
Age(t) == /\ template[t].life = "deleting" /\ t \notin aged
          /\ uninstall => seen.cluster # "live"
          /\ aged' = aged \union {t}
          /\ UNCHANGED <<apiVars, capaSaw, seen, uninstall>>

(* CAPI and CAPA: the AWSCluster is deleted after the Cluster and before   *)
(* it goes.  CAPA's patches are merge patches without a resource version,  *)
(* too: the one that adds its finalizer is made from what it read before,  *)
(* and the operator's finalizer is lost if it has come since.  The one     *)
(* that removes it cannot lose anything: nobody adds a finalizer to an     *)
(* object that is being deleted.                                           *)

CAPAReads == /\ awsCluster.life = "live" /\ "capa" \notin awsCluster.finalizers
             /\ capaSaw = {}
             /\ capaSaw' = {awsCluster.finalizers}
             /\ UNCHANGED <<apiVars, seen, aged, uninstall>>

CAPAHolds == \E old \in capaSaw :
    LET new == old \union {"capa"} IN
    /\ awsCluster' = IF There(awsCluster.life) /\ AcceptsFinalizers(new)
                     THEN [awsCluster EXCEPT !.finalizers = new] ELSE awsCluster
    /\ capaSaw' = {}
    /\ UNCHANGED <<cluster, template, seen, aged, uninstall>>

DeleteAWSCluster ==
    /\ cluster = "deleting" /\ awsCluster.life = "live"
    /\ awsCluster' = [awsCluster EXCEPT !.life = Deleted(@, awsCluster.finalizers)]
    /\ UNCHANGED <<cluster, template, capaSaw, seen, aged, uninstall>>

CAPAIsDone == /\ awsCluster.life = "deleting" /\ "capa" \in awsCluster.finalizers
              /\ capaSaw = {}
              /\ PatchAWSCluster(awsCluster.finalizers \ {"capa"})

ClusterGoes == /\ cluster = "deleting" /\ awsCluster.life = "gone"
               /\ cluster' = "gone"
               /\ UNCHANGED <<awsCluster, template, capaSaw, seen, aged, uninstall>>

\* What nobody can leave undone for ever.
Due == \/ UninstallCluster \/ DeleteAWSCluster \/ ClusterGoes
       \/ CAPAReads \/ CAPAHolds \/ CAPAIsDone
       \/ \E t \in Template : UninstallTemplate(t) \/ Age(t)

Others == \/ SyncCluster \/ SyncAWSCluster \/ SyncTemplates
          \/ Due \/ Uninstall
          \/ \E t \in Template : Create(t) \/ Upgrade(t)
=============================================================================
