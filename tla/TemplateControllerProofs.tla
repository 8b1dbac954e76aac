----------------------- MODULE TemplateControllerProofs -----------------------
(***************************************************************************)
(* Proofs about TemplateController, for any templates, profiles, number of *)
(* failures and restarts, and patch attempts.                              *)
(***************************************************************************)
EXTENDS TemplateController, TLAPS

-----------------------------------------------------------------------------
(* Type correctness.                                                       *)

LEMMA LifeWithType ==
    ASSUME NEW life \in Life, NEW finalizers
    PROVE  /\ LifeWith(life, finalizers) \in Life
           /\ life # "absent" => LifeWith(life, finalizers) \in ClusterLife
BY DEF LifeWith, Life, ClusterLife

LEMMA DeletedType ==
    ASSUME NEW life \in Life, NEW finalizers
    PROVE  /\ Deleted(life, finalizers) \in Life
           /\ life # "absent" => Deleted(life, finalizers) \in ClusterLife
BY DEF Deleted, LifeWith, Life, ClusterLife

LEMMA MarkedType ==
    ASSUME ObjectsTypeOK, NEW t \in Template
    PROVE  Marked(t) \in TemplateRec
BY DEF ObjectsTypeOK, Marked, TemplateRec, Life

\* The operator's patches keep the objects' types.
LEMMA PatchAWSClusterType ==
    ASSUME ObjectsTypeOK, NEW new \in SUBSET Finalizer, PatchAWSCluster(new)
    PROVE  ObjectsTypeOK'
<1>1. LifeWith(awsCluster.life, new) \in ClusterLife
  BY LifeWithType DEF ObjectsTypeOK, AWSClusterRec, ClusterLife
<1>2. awsCluster' \in AWSClusterRec
  BY <1>1 DEF PatchAWSCluster, AWSClusterRec
<1> QED
  BY <1>2 DEF PatchAWSCluster, ObjectsTypeOK

LEMMA HoldTemplateType ==
    ASSUME ObjectsTypeOK, NEW t \in Template, HoldTemplate(t)
    PROVE  ObjectsTypeOK'
<1>1. template' \in [Template -> TemplateRec]
  BY DEF ObjectsTypeOK, HoldTemplate, TemplateRec
<1> QED
  BY <1>1 DEF ObjectsTypeOK, HoldTemplate

LEMMA ReleaseTemplateType ==
    ASSUME ObjectsTypeOK, NEW t \in Template, ReleaseTemplate(t)
    PROVE  ObjectsTypeOK'
<1>1. LifeWith(template[t].life, {}) \in Life
  BY LifeWithType DEF ObjectsTypeOK, TemplateRec
<1>2. template' \in [Template -> TemplateRec]
  BY <1>1 DEF ObjectsTypeOK, ReleaseTemplate, TemplateRec
<1> QED
  BY <1>2 DEF ObjectsTypeOK, ReleaseTemplate

LEMMA SyncType ==
    ASSUME ObjectsTypeOK, SyncCluster \/ SyncAWSCluster \/ SyncTemplates
    PROVE  ObjectsTypeOK'
<1>1. CASE SyncCluster
  BY <1>1 DEF ObjectsTypeOK, SyncCluster, Caught, apiVars
<1>2. CASE SyncAWSCluster
  BY <1>2 DEF ObjectsTypeOK, SyncAWSCluster, Caught, apiVars
<1>3. CASE SyncTemplates
  BY <1>3 DEF ObjectsTypeOK, SyncTemplates, Caught, apiVars
<1> QED
  BY <1>1, <1>2, <1>3

\* Helm, CAPI and CAPA keep them too.
LEMMA MarkType ==
    ASSUME ObjectsTypeOK, NEW t \in Template,
           template' = [template EXCEPT ![t] = Marked(t)],
           UNCHANGED <<cluster, awsCluster, capaSaw, seen, aged, uninstall>>
    PROVE  ObjectsTypeOK'
<1>1. template' \in [Template -> TemplateRec]
  BY MarkedType DEF ObjectsTypeOK
<1> QED
  BY <1>1 DEF ObjectsTypeOK

LEMMA OthersType ==
    ASSUME ObjectsTypeOK, Others
    PROVE  ObjectsTypeOK'
<1>1. CASE SyncCluster \/ SyncAWSCluster \/ SyncTemplates
  BY <1>1, SyncType
<1>2. ASSUME NEW t \in Template, Create(t) PROVE ObjectsTypeOK'
  <2>1. template' \in [Template -> TemplateRec]
    BY <1>2 DEF Create, ObjectsTypeOK, TemplateRec, Life
  <2> QED BY <1>2, <2>1 DEF Create, ObjectsTypeOK
<1>3. ASSUME NEW t \in Template, Upgrade(t) \/ UninstallTemplate(t) PROVE ObjectsTypeOK'
  BY <1>3, MarkType DEF Upgrade, UninstallTemplate
<1>4. ASSUME NEW t \in Template, Age(t) PROVE ObjectsTypeOK'
  BY <1>4 DEF Age, ObjectsTypeOK, apiVars
<1>5. CASE Uninstall \/ UninstallCluster \/ ClusterGoes
  BY <1>5 DEF Uninstall, UninstallCluster, ClusterGoes, ObjectsTypeOK, apiVars, ClusterLife, Life
<1>6. CASE DeleteAWSCluster
  <2>1. Deleted(awsCluster.life, awsCluster.finalizers) \in ClusterLife
    BY DeletedType DEF ObjectsTypeOK, AWSClusterRec, ClusterLife
  <2>2. awsCluster' \in AWSClusterRec
    BY <1>6, <2>1 DEF DeleteAWSCluster, ObjectsTypeOK, AWSClusterRec
  <2> QED BY <1>6, <2>2 DEF DeleteAWSCluster, ObjectsTypeOK
<1>7. CASE CAPAIsDone
  <2>1. awsCluster.finalizers \ {"capa"} \in SUBSET Finalizer
    BY DEF ObjectsTypeOK, AWSClusterRec
  <2> QED BY <1>7, <2>1, PatchAWSClusterType DEF CAPAIsDone
<1>8. CASE CAPAReads
  BY <1>8 DEF CAPAReads, ObjectsTypeOK, AWSClusterRec, apiVars
<1>9. CASE CAPAHolds
  <2>1. PICK old \in capaSaw :
           awsCluster' \in {awsCluster, [awsCluster EXCEPT !.finalizers = old \union {"capa"}]}
    BY <1>9 DEF CAPAHolds
  <2>2. old \union {"capa"} \in SUBSET Finalizer
    BY DEF ObjectsTypeOK, Finalizer
  <2>3. awsCluster' \in AWSClusterRec
    BY <2>1, <2>2 DEF ObjectsTypeOK, AWSClusterRec
  <2> QED BY <1>9, <2>3 DEF CAPAHolds, ObjectsTypeOK
<1> QED
  BY <1>1, <1>2, <1>3, <1>4, <1>5, <1>6, <1>7, <1>8, <1>9 DEF Others, Due

\* What a reconciliation keeps from one call to the next.
ReadRec == [template : TemplateRec, clusterDeleting : BOOLEAN,
            finalizers : SUBSET Finalizer, attempt : 1 .. maxPatchAttempts]

LEMMA NothingType == Nothing \in ReadRec
<1>1. 1 \in 1 .. maxPatchAttempts
  BY ControllerAssumption
<1> QED
  BY <1>1 DEF Nothing, ReadRec, TemplateRec, Life

LEMMA GotoType ==
    ASSUME TypeOK, NEW step \in Steps \union {"idle"}, Goto(step)
    PROVE  /\ pc' \in Steps \union {"idle"} /\ at' \in Template
           /\ read' \in ReadRec
BY NothingType DEF TypeOK, Goto, ReadRec

THEOREM TypeCorrect == Spec => []TypeOK
<1>1. Init => TypeOK
  <2> SUFFICES ASSUME Init PROVE TypeOK
    OBVIOUS
  <2>1. ObjectsTypeOK
    <3>1. template \in [Template -> TemplateRec]
      BY DEF Init, ObjectsInit, TemplateRec, Life
    <3>2. awsCluster \in AWSClusterRec /\ cluster \in ClusterLife
      BY TemplateAssumption DEF Init, ObjectsInit, AWSClusterRec, ClusterLife, Life
    <3> QED
      BY <3>1, <3>2 DEF Init, ObjectsInit, ObjectsTypeOK
  <2>2. read \in ReadRec
    BY NothingType DEF Init
  <2>3. faults \in 0 .. MaxFaults
    BY ControllerAssumption DEF Init
  <2>4. irsaRoles \in BOOLEAN /\ valuesHeld \in BOOLEAN
    BY ControllerAssumption, Zenon DEF Init
  <2> QED
    BY <2>1, <2>2, <2>3, <2>4 DEF Init, TypeOK, ReadRec
<1>2. TypeOK /\ [Next]_vars => TypeOK'
  <2> SUFFICES ASSUME TypeOK, [Next]_vars PROVE TypeOK'
    OBVIOUS
  <2> USE DEF ReadRec
  <2>0. /\ ObjectsTypeOK /\ pc \in Steps \union {"idle"} /\ at \in Template
        /\ read \in ReadRec
        /\ mainRole \subseteq Profile /\ irsaRoles \in BOOLEAN /\ valuesHeld \in BOOLEAN
        /\ faults \in 0 .. MaxFaults
        /\ seen.cluster \in ClusterLife /\ seen.awsCluster \in AWSClusterRec
        /\ seen.template \in [Template -> TemplateRec]
        /\ profileOf[at] \in Profile
    BY TemplateAssumption DEF TypeOK, ObjectsTypeOK
  <2>1. ASSUME NEW t \in Template, Begin(t) PROVE TypeOK'
    <3>1. read' \in ReadRec
      BY <2>0, <2>1 DEF Begin
    <3> QED BY <2>0, <2>1, <3>1 DEF Begin, TypeOK, ObjectsTypeOK, objectVars, apiVars, iamState, Steps
  <2>2. CASE GetCluster
    <3>1. pc' \in Steps \union {"idle"} /\ at' \in Template /\ read' \in ReadRec
      BY <2>0, <2>2, GotoType DEF GetCluster, GotoWith, Return, Steps
    <3> QED BY <2>0, <2>2, <3>1 DEF GetCluster, TypeOK, ObjectsTypeOK, objectVars, apiVars, iamState
  <2>3. CASE GetAWSCluster
    <3>1. pc' \in Steps \union {"idle"} /\ at' \in Template /\ read' \in ReadRec
      BY <2>0, <2>3, GotoType DEF GetAWSCluster, GotoWith, Return, Steps, AWSClusterRec
    <3> QED BY <2>0, <2>3, <3>1 DEF GetAWSCluster, TypeOK, ObjectsTypeOK, objectVars, apiVars, iamState
  <2>4. CASE AddTemplateFinalizer
    <3>1. pc' \in Steps \union {"idle"} /\ at' \in Template /\ read' \in ReadRec
      BY <2>4, GotoType DEF AddTemplateFinalizer, Return, Steps
    <3>2. ObjectsTypeOK'
      BY <2>0, <2>4, HoldTemplateType DEF AddTemplateFinalizer, ObjectsTypeOK, objectVars, apiVars
    <3> QED BY <2>0, <2>4, <3>1, <3>2 DEF AddTemplateFinalizer, TypeOK, iamState
  <2>5. CASE AddAWSClusterFinalizer
    <3>1. pc' \in Steps \union {"idle"} /\ at' \in Template /\ read' \in ReadRec
      BY <2>5, GotoType DEF AddAWSClusterFinalizer, Return, Steps
    <3>2. read.finalizers \union {"operator"} \in SUBSET Finalizer
      BY <2>0 DEF Finalizer
    <3>3. ObjectsTypeOK'
      BY <2>0, <2>5, <3>2, PatchAWSClusterType DEF AddAWSClusterFinalizer, ObjectsTypeOK, objectVars, apiVars
    <3> QED BY <2>0, <2>5, <3>1, <3>3 DEF AddAWSClusterFinalizer, TypeOK, iamState
  <2>6. CASE ReconcileRole \/ ReconcileRolesForIRSA \/ IsRoleUsedElsewhere \/ DeleteRole
             \/ DeleteRolesForIRSA \/ RemoveConfigMapFinalizer
    <3>1. pc' \in Steps \union {"idle"} /\ at' \in Template /\ read' \in ReadRec
      BY <2>6, GotoType
         DEF ReconcileRole, ReconcileRolesForIRSA, IsRoleUsedElsewhere, DeleteRole,
             DeleteRolesForIRSA, RemoveConfigMapFinalizer, Step, Steps
    <3>2. mainRole' \subseteq Profile /\ UNCHANGED objectVars /\ UNCHANGED faults
      BY <2>0, <2>6
         DEF ReconcileRole, ReconcileRolesForIRSA, IsRoleUsedElsewhere, DeleteRole,
             DeleteRolesForIRSA, RemoveConfigMapFinalizer, Step, iamState
    <3>3. irsaRoles' \in BOOLEAN /\ valuesHeld' \in BOOLEAN
      <4>1. CASE ReconcileRole \/ IsRoleUsedElsewhere \/ DeleteRole
        BY <2>0, <4>1 DEF ReconcileRole, IsRoleUsedElsewhere, DeleteRole, iamState
      <4>2. CASE ReconcileRolesForIRSA
        BY <2>0, <4>2 DEF ReconcileRolesForIRSA
      <4>3. CASE DeleteRolesForIRSA
        BY <2>0, <4>3 DEF DeleteRolesForIRSA
      <4>4. CASE RemoveConfigMapFinalizer
        BY <2>0, <4>4 DEF RemoveConfigMapFinalizer, iamState
      <4> QED BY <2>6, <4>1, <4>2, <4>3, <4>4
    <3> QED BY <2>0, <3>1, <3>2, <3>3 DEF TypeOK, ObjectsTypeOK, objectVars, apiVars
  <2>7. CASE GetAWSClusterAgain
    <3>1. pc' \in Steps \union {"idle"} /\ at' \in Template /\ read' \in ReadRec
      BY <2>0, <2>7, GotoType DEF GetAWSClusterAgain, GotoWith, Return, Steps, AWSClusterRec
    <3> QED BY <2>0, <2>7, <3>1 DEF GetAWSClusterAgain, TypeOK, ObjectsTypeOK, objectVars, apiVars, iamState
  <2>8. CASE RemoveAWSClusterFinalizer
    <3>1. ASSUME MayRetry, Refetch
          PROVE  pc' \in Steps \union {"idle"} /\ at' \in Template /\ read' \in ReadRec
      <4>1. read.attempt + 1 \in 1 .. maxPatchAttempts
        BY <2>0, <3>1, ControllerAssumption DEF MayRetry
      <4> QED BY <2>0, <3>1, <4>1, GotoType DEF Refetch, GotoWith, Return, Steps, AWSClusterRec
    <3>2. pc' \in Steps \union {"idle"} /\ at' \in Template /\ read' \in ReadRec
      BY <2>8, <3>1, GotoType DEF RemoveAWSClusterFinalizer, Return, Steps
    <3>3. read.finalizers \ {"operator"} \in SUBSET Finalizer
      BY <2>0
    <3>4. ObjectsTypeOK'
      BY <2>0, <2>8, <3>3, PatchAWSClusterType DEF RemoveAWSClusterFinalizer, ObjectsTypeOK, objectVars, apiVars
    <3> QED BY <2>0, <2>8, <3>2, <3>4 DEF RemoveAWSClusterFinalizer, TypeOK, iamState
  <2>9. CASE RemoveTemplateFinalizer
    <3>1. pc' \in Steps \union {"idle"} /\ at' \in Template /\ read' \in ReadRec
      BY <2>9, GotoType DEF RemoveTemplateFinalizer, Return, Steps
    <3>2. ObjectsTypeOK'
      BY <2>0, <2>9, ReleaseTemplateType DEF RemoveTemplateFinalizer, ObjectsTypeOK, objectVars, apiVars
    <3> QED BY <2>0, <2>9, <3>1, <3>2 DEF RemoveTemplateFinalizer, TypeOK, iamState
  <2>10. CASE Fault
    <3>1. pc' \in Steps \union {"idle"} /\ at' \in Template /\ read' \in ReadRec
      BY <2>10, GotoType DEF Fault, Return
    <3>2. faults' \in 0 .. MaxFaults
      BY <2>0, <2>10, ControllerAssumption DEF Fault
    <3>3. ObjectsTypeOK'
      BY <2>0, <2>10 DEF Fault, ObjectsTypeOK, apiVars
    <3> QED BY <2>0, <2>10, <3>1, <3>2, <3>3 DEF Fault, TypeOK, iamState
  <2>11. CASE Elsewhere
    BY <2>0, <2>11, OthersType DEF Elsewhere, Besides, TypeOK, controllerVars, iamState
  <2>12. CASE UNCHANGED vars
    BY <2>0, <2>12 DEF vars, TypeOK, ObjectsTypeOK, objectVars, apiVars, controllerVars, iamState
  <2> QED
    BY <2>1, <2>2, <2>3, <2>4, <2>5, <2>6, <2>7, <2>8, <2>9, <2>10, <2>11, <2>12
       DEF Next, Working
<1> QED
  BY <1>1, <1>2, PTL DEF Spec
-----------------------------------------------------------------------------
(* The cache only ever shows what the objects have been, and the operator  *)
(* holds no template that its cache has never shown.  This is why nobody   *)
(* can begin to use a role between the controller's look at the cache and  *)
(* its deletion of the role: a new template has to be reconciled first.    *)

CacheIsOlder ==
    \A t \in Template :
        /\ seen.template[t].life = "live" => template[t].life # "absent"
        /\ seen.template[t].life = "deleting" => template[t].life \in {"deleting", "gone"}
        /\ seen.template[t].life = "gone" => template[t].life = "gone"

HeldIsSeen == \A t \in Template : template[t].held => seen.template[t].life # "absent"

AtIsSeen == pc # "idle" => seen.template[at].life # "absent"

NoUserIsLive ==
    pc = "DeleteRole" => \A t \in Template :
        profileOf[t] = profileOf[at] /\ template[t].held => template[t].life # "live"

RoleInv == CacheIsOlder /\ HeldIsSeen /\ AtIsSeen /\ NoUserIsLive

\* A template that does not exist is not held.
LEMMA AbsentIsFree ==
    ASSUME TypeOK, CacheIsOlder, HeldIsSeen, NEW t \in Template, template[t].held
    PROVE  template[t].life # "absent"
BY DEF TypeOK, ObjectsTypeOK, TemplateRec, Life, CacheIsOlder, HeldIsSeen

\* The controller's steps that leave templates and cache alone.
LEMMA QuietStep ==
    ASSUME TypeOK, RoleInv, UNCHANGED <<template, seen>>,
           pc' # "idle" => pc # "idle" /\ at' = at,
           pc' # "DeleteRole"
    PROVE  RoleInv'
BY DEF RoleInv, CacheIsOlder, HeldIsSeen, AtIsSeen, NoUserIsLive

LEMMA HelmStep ==
    ASSUME TypeOK, RoleInv, NEW t \in Template, Create(t) \/ Upgrade(t) \/ UninstallTemplate(t),
           UNCHANGED <<pc, at>>
    PROVE  RoleInv'
<1>1. template[t].held => template[t].life # "absent"
  BY AbsentIsFree DEF RoleInv
<1>2. /\ UNCHANGED seen /\ template' = [template EXCEPT ![t] = template'[t]]
      /\ template'[t].held = template[t].held
      /\ \/ template[t].life = "absent" /\ template'[t].life = "live"
         \/ template[t].life = "live" /\ template'[t].life \in {"deleting", "gone"}
  BY DEF Create, Upgrade, UninstallTemplate, Marked, TypeOK, ObjectsTypeOK, TemplateRec
<1>3. \A u \in Template \ {t} : template'[u] = template[u]
  BY <1>2 DEF TypeOK, ObjectsTypeOK
<1>4. CacheIsOlder' /\ HeldIsSeen' /\ AtIsSeen'
  BY <1>2, <1>3 DEF RoleInv, CacheIsOlder, HeldIsSeen, AtIsSeen
<1>5. NoUserIsLive'
  BY <1>1, <1>2, <1>3 DEF RoleInv, NoUserIsLive
<1> QED
  BY <1>4, <1>5 DEF RoleInv

\* The cache catches up, or is filled anew.
LEMMA CacheStep ==
    ASSUME TypeOK, RoleInv, UNCHANGED template,
           seen'.template = template \/ seen'.template = seen.template,
           pc' # "idle" => pc # "idle" /\ UNCHANGED <<pc, at>>
    PROVE  RoleInv'
<1>1. CASE seen'.template = seen.template
  BY <1>1 DEF RoleInv, CacheIsOlder, HeldIsSeen, AtIsSeen, NoUserIsLive
<1>2. CASE seen'.template = template
  <2>1. CacheIsOlder' /\ NoUserIsLive'
    BY <1>2 DEF RoleInv, CacheIsOlder, NoUserIsLive
  <2>2. HeldIsSeen'
    BY <1>2, AbsentIsFree DEF RoleInv, HeldIsSeen
  <2>3. AtIsSeen'
    BY <1>2 DEF RoleInv, CacheIsOlder, AtIsSeen, TypeOK, ObjectsTypeOK, TemplateRec, Life
  <2> QED BY <2>1, <2>2, <2>3 DEF RoleInv
<1> QED
  BY <1>1, <1>2

THEOREM RoleInvHolds == Spec => []RoleInv
<1>1. Init => RoleInv
  <2> SUFFICES ASSUME Init PROVE RoleInv
    OBVIOUS
  <2>1. /\ pc = "idle" /\ seen.template = template
        /\ \A t \in Template : template[t].life \in {"absent", "live"} /\ ~template[t].held
    BY DEF Init, ObjectsInit
  <2> QED
    BY <2>1 DEF RoleInv, CacheIsOlder, HeldIsSeen, AtIsSeen, NoUserIsLive
<1>2. TypeOK /\ RoleInv /\ [Next]_vars => RoleInv'
  <2> SUFFICES ASSUME TypeOK, RoleInv, [Next]_vars PROVE RoleInv'
    OBVIOUS
  <2>1. ASSUME NEW t \in Template, Begin(t) PROVE RoleInv'
    BY <2>1 DEF Begin, There, objectVars, apiVars, RoleInv, CacheIsOlder, HeldIsSeen, AtIsSeen, NoUserIsLive
  <2>2. CASE GetCluster \/ GetAWSCluster \/ GetAWSClusterAgain
    BY <2>2, QuietStep
       DEF GetCluster, GetAWSCluster, GetAWSClusterAgain, GotoWith, Return, Goto, objectVars, apiVars
  <2>3. CASE AddTemplateFinalizer
    <3>1. CASE HoldTemplate(at)
      BY <2>3, <3>1 DEF AddTemplateFinalizer, HoldTemplate, Goto, Return,
         TypeOK, ObjectsTypeOK, TemplateRec, RoleInv, CacheIsOlder, HeldIsSeen, AtIsSeen, NoUserIsLive
    <3>2. CASE UNCHANGED objectVars
      BY <2>3, <3>2, QuietStep DEF AddTemplateFinalizer, Goto, Return, objectVars, apiVars
    <3> QED BY <2>3, <3>1, <3>2 DEF AddTemplateFinalizer
  <2>4. CASE AddAWSClusterFinalizer
    BY <2>4, QuietStep DEF AddAWSClusterFinalizer, PatchAWSCluster, Goto, Return, objectVars, apiVars
  <2>5. CASE ReconcileRole \/ ReconcileRolesForIRSA \/ DeleteRole \/ DeleteRolesForIRSA
             \/ RemoveConfigMapFinalizer
    BY <2>5, QuietStep DEF ReconcileRole, ReconcileRolesForIRSA, DeleteRole, DeleteRolesForIRSA,
       RemoveConfigMapFinalizer, Step, Goto, objectVars, apiVars
  <2>6. CASE IsRoleUsedElsewhere
    <3>1. ASSUME ~UsedElsewhere(profileOf[at]), NEW t \in Template,
                 profileOf[t] = profileOf[at], template[t].held
          PROVE  template[t].life # "live"
      BY <3>1 DEF UsedElsewhere, RoleInv, CacheIsOlder, HeldIsSeen, TypeOK, ObjectsTypeOK, TemplateRec, Life
    <3>2. NoUserIsLive'
      BY <2>6, <3>1 DEF IsRoleUsedElsewhere, Step, Goto, objectVars, apiVars, NoUserIsLive
    <3> QED BY <2>6, <3>2 DEF IsRoleUsedElsewhere, Step, Goto, objectVars, apiVars,
            RoleInv, CacheIsOlder, HeldIsSeen, AtIsSeen
  <2>7. CASE RemoveAWSClusterFinalizer
    BY <2>7, QuietStep DEF RemoveAWSClusterFinalizer, PatchAWSCluster, Refetch, GotoWith,
       Goto, Return, objectVars, apiVars
  <2>8. CASE RemoveTemplateFinalizer
    <3>1. CASE ReleaseTemplate(at)
      <4>1. /\ \A t \in Template \ {at} : template'[t] = template[t]
            /\ ~template'[at].held /\ UNCHANGED <<seen, at>> /\ pc' = "ReleaseConfigMap"
            /\ \/ template'[at].life = template[at].life
               \/ template[at].life = "deleting" /\ template'[at].life = "gone"
        BY <2>8, <3>1 DEF RemoveTemplateFinalizer, ReleaseTemplate, Goto, LifeWith, There,
           TypeOK, ObjectsTypeOK, TemplateRec
      <4> QED BY <2>8, <4>1 DEF RemoveTemplateFinalizer, RoleInv, CacheIsOlder, HeldIsSeen, AtIsSeen, NoUserIsLive
    <3>2. CASE UNCHANGED objectVars
      BY <2>8, <3>2, QuietStep DEF RemoveTemplateFinalizer, Goto, Return, objectVars, apiVars
    <3> QED BY <2>8, <3>1, <3>2 DEF RemoveTemplateFinalizer
  <2>9. CASE Fault
    BY <2>9, CacheStep DEF Fault, Return, Goto, apiVars
  <2>10. CASE Elsewhere
    <3>1. Others /\ UNCHANGED <<pc, at>>
      BY <2>10 DEF Elsewhere, Besides, controllerVars
    <3>2. ASSUME NEW t \in Template, Create(t) \/ Upgrade(t) \/ UninstallTemplate(t) PROVE RoleInv'
      BY <3>1, <3>2, HelmStep
    <3>3. CASE SyncCluster \/ SyncAWSCluster \/ SyncTemplates
      BY <3>1, <3>3, CacheStep DEF SyncCluster, SyncAWSCluster, SyncTemplates, Caught, apiVars,
         TypeOK, ObjectsTypeOK
    <3>4. ASSUME NEW t \in Template,
                 \/ Uninstall \/ UninstallCluster \/ DeleteAWSCluster \/ ClusterGoes
                 \/ CAPAReads \/ CAPAHolds \/ CAPAIsDone \/ Age(t)
          PROVE  RoleInv'
      BY <3>1, <3>4, CacheStep DEF Uninstall, UninstallCluster, DeleteAWSCluster, ClusterGoes,
         CAPAReads, CAPAHolds, CAPAIsDone, PatchAWSCluster, Age, apiVars
    <3>5. at \in Template
      BY DEF TypeOK
    <3> QED BY <3>1, <3>2, <3>3, <3>4, <3>5 DEF Others, Due
  <2>11. CASE UNCHANGED vars
    BY <2>11 DEF vars, objectVars, apiVars, controllerVars, RoleInv, CacheIsOlder, HeldIsSeen, AtIsSeen, NoUserIsLive
  <2> QED
    BY <2>1, <2>2, <2>3, <2>4, <2>5, <2>6, <2>7, <2>8, <2>9, <2>10, <2>11 DEF Next, Working
<1> QED
  BY <1>1, <1>2, TypeCorrect, PTL DEF Spec

\* Before 35, from which on the operator deletes roles on purpose, no step takes
\* the role of a template that stays and has been reconciled.
THEOREM UsersKeepTheirRoles ==
    ASSUME Release < 35
    PROVE  Spec => ReconciledRolesStay
<1>1. TypeOK /\ RoleInv /\ [Next]_vars =>
        \A t \in Template : template[t].life = "live" /\ template[t].held =>
            (profileOf[t] \in mainRole => profileOf[t] \in mainRole')
  <2> SUFFICES ASSUME RoleInv, [Next]_vars, NEW t \in Template,
                      template[t].life = "live", template[t].held, profileOf[t] \in mainRole
               PROVE  profileOf[t] \in mainRole'
    OBVIOUS
  <2>1. CASE DeleteRole
    BY <2>1 DEF DeleteRole, Step, RoleInv, NoUserIsLive
  <2>2. CASE ReconcileRole
    BY <2>2, ControllerAssumption DEF ReconcileRole
  <2>3. ASSUME NEW u \in Template, Begin(u) PROVE UNCHANGED mainRole
    BY <2>3 DEF Begin, iamState
  <2>4. CASE Fault \/ Elsewhere \/ UNCHANGED vars
    BY <2>4 DEF Fault, Elsewhere, Besides, vars, iamState
  <2>5. ASSUME Working, ~DeleteRole, ~ReconcileRole PROVE UNCHANGED mainRole
    BY <2>5 DEF Working, GetCluster, GetAWSCluster, AddTemplateFinalizer, AddAWSClusterFinalizer,
       ReconcileRolesForIRSA, IsRoleUsedElsewhere, DeleteRolesForIRSA, GetAWSClusterAgain,
       RemoveAWSClusterFinalizer, RemoveTemplateFinalizer, RemoveConfigMapFinalizer, iamState
  <2> QED
    BY <2>1, <2>2, <2>3, <2>4, <2>5 DEF Next
<1> QED
  BY <1>1, TypeCorrect, RoleInvHolds, PTL DEF Spec, ReconciledRolesStay
=============================================================================
