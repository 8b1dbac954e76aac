------------------------ MODULE AWSClusterGuardProofs ------------------------
(***************************************************************************)
(* The proof that the finalizer on the AWSCluster does what it is there    *)
(* for (TemplateController's AWSClusterGuardsRoles) in a cluster with one  *)
(* AWSMachineTemplate.  With several it does not: the first one to be      *)
(* deleted takes the finalizer away from the others.  Nor does it if CAPA  *)
(* takes the finalizer away with a patch from an old copy: the property's  *)
(* hypothesis is that CAPA's patches keep it.                              *)
(***************************************************************************)
EXTENDS HeldRolesProofs

\* Nobody else takes the common finalizer off the AWSCluster.
OneTemplateOnly == \A t, u \in Template : t = u

ClusterHeld == "operator" \in awsCluster.finalizers

\* An AWSCluster that is gone has no finalizers left.
GoneIsReleased == awsCluster.life = "gone" => awsCluster.finalizers = {}

\* The roles, and a reconciliation that is about to make them, have the
\* AWSCluster held.
RolesHoldCluster ==
    mainRole # {} \/ irsaRoles \/ pc \in {"ReconcileRole", "ReconcileRolesForIRSA"}
        => ClusterHeld

\* What was read of the operator's finalizer is still so, or it is the
\* template's deletion that has removed it, and the cache knows of that.
ReadIsHeld == pc \in {"HoldTemplate", "HoldAWSCluster"} /\ "operator" \in read.finalizers
                  => ClusterHeld

ReleaseIsSeen ==
    "operator" \in seen.awsCluster.finalizers /\ ~ClusterHeld
        => /\ seen.template[at].life \in {"deleting", "gone"}
           /\ pc # "idle" => read.template.life = "deleting"

GuardInv == GoneIsReleased /\ RolesHoldCluster /\ ReadIsHeld /\ ReleaseIsSeen

LEMMA OneProfile ==
    ASSUME OneTemplateOnly
    PROVE  OneProfileEach
BY DEF OneTemplateOnly, OneProfileEach

\* Nothing is left to guard when the AWSCluster is released: the one template
\* that could still delete the roles is about to be released itself.
LEMMA NothingLeft ==
    ASSUME OneTemplateOnly, TypeOK, HeldInv, pc \in AfterLook
    PROVE  mainRole = {} /\ ~irsaRoles
<1>1. /\ at \in Template /\ \A t \in Template : t = at
      /\ ControlPlane \subseteq Template /\ mainRole \subseteq Profile
  BY TemplateAssumption DEF TypeOK, OneTemplateOnly
<1>2. ~Another(at)
  BY <1>1 DEF Another
<1>3. KeptForAnother /\ EveryRoleIsHeld
  BY DEF HeldInv
<1>4. ASSUME NEW p \in mainRole PROVE FALSE
  <2>1. profileOf[at] = p /\ template[at].held
    BY <1>1, <1>3 DEF EveryRoleIsHeld
  <2>2. at \notin ControlPlane
    BY <1>2, <1>3, <1>4, <2>1 DEF KeptForAnother, CPRole
  <2> QED BY <1>3, <1>4, <2>1, <2>2 DEF KeptForAnother
<1>5. ASSUME irsaRoles PROVE FALSE
  <2>1. at \in ControlPlane /\ template[at].held
    BY <1>1, <1>3, <1>5 DEF EveryRoleIsHeld
  <2> QED BY <1>2, <1>3, <1>5, <2>1 DEF KeptForAnother, CPRole
<1> QED BY <1>4, <1>5

\* Steps that leave the AWSCluster, the cache and the roles alone, and do not
\* come to read or make anything new.
LEMMA GuardStays ==
    ASSUME GuardInv, UNCHANGED <<awsCluster, seen, mainRole, irsaRoles>>,
           \/ pc' = "idle" /\ UNCHANGED at
           \/ /\ pc # "idle" /\ read'.template = read.template /\ UNCHANGED at
              /\ pc' \in Steps \ {"HoldTemplate", "HoldAWSCluster", "ReconcileRole",
                                  "ReconcileRolesForIRSA"}
           \/ UNCHANGED <<pc, at, read>>
    PROVE  GuardInv'
BY DEF GuardInv, GoneIsReleased, RolesHoldCluster, ReadIsHeld, ReleaseIsSeen, ClusterHeld

\* The patches that put the operator's finalizer on the AWSCluster and take it off.
LEMMA HoldClusterStep ==
    ASSUME GuardInv, AddAWSClusterFinalizer
    PROVE  GuardInv'
<1>1. pc = "HoldAWSCluster" /\ UNCHANGED <<seen, mainRole, irsaRoles, at>>
  BY DEF AddAWSClusterFinalizer, PatchAWSCluster, objectVars, iamState, Return, Goto
<1>2. CASE pc' = "idle" /\ UNCHANGED objectVars
  BY <1>1, <1>2, GuardStays DEF objectVars, apiVars
<1>3. CASE "operator" \in read.finalizers /\ Goto("ReconcileRole") /\ UNCHANGED objectVars
  <2>1. ClusterHeld /\ UNCHANGED <<awsCluster, read>> /\ pc' = "ReconcileRole"
    BY <1>1, <1>3 DEF GuardInv, ReadIsHeld, Goto, objectVars, apiVars
  <2> QED
    BY <1>1, <2>1
       DEF GuardInv, GoneIsReleased, RolesHoldCluster, ReadIsHeld, ReleaseIsSeen, ClusterHeld
<1>4. CASE PatchAWSCluster(read.finalizers \union {"operator"}) /\ Goto("ReconcileRole")
  <2>1. ClusterHeld' /\ pc' = "ReconcileRole" /\ awsCluster'.life # "gone"
    BY <1>4 DEF PatchAWSCluster, ClusterHeld, Goto, LifeWith, There
  <2> QED
    BY <2>1 DEF GuardInv, GoneIsReleased, RolesHoldCluster, ReadIsHeld, ReleaseIsSeen
<1> QED
  BY <1>2, <1>3, <1>4 DEF AddAWSClusterFinalizer, Return, Goto

LEMMA ReleaseClusterStep ==
    ASSUME OneTemplateOnly, TypeOK, HeldInv, GuardInv, RemoveAWSClusterFinalizer
    PROVE  GuardInv'
<1>1. /\ pc = "ReleaseAWSCluster" /\ UNCHANGED <<seen, mainRole, irsaRoles, at>>
      /\ pc' \in {"idle", "ReleaseAWSCluster", "ReleaseTemplate"}
  BY DEF RemoveAWSClusterFinalizer, PatchAWSCluster, objectVars, iamState, Return, Goto,
         Refetch, GotoWith
<1>2. pc' = "idle" \/ read'.template = read.template
  BY DEF RemoveAWSClusterFinalizer, Return, Goto, Refetch, GotoWith, TypeOK
<1>3. CASE UNCHANGED objectVars
  BY <1>1, <1>2, <1>3, GuardStays DEF objectVars, apiVars, Steps
<1>4. CASE PatchAWSCluster(read.finalizers \ {"operator"}) /\ Goto("ReleaseTemplate")
  <2>1. mainRole' = {} /\ ~irsaRoles'
    BY <1>1, NothingLeft DEF AfterLook
  <2>2. read.template.life = "deleting" /\ seen.template[at].life \in {"deleting", "gone"}
    BY <1>1 DEF HeldInv, KnowsTemplate, AtIsRead, Deletion, AfterLook
  <2>3. awsCluster'.life = "gone" => awsCluster'.finalizers = {}
    BY <1>4 DEF PatchAWSCluster, LifeWith, There
  <2> QED
    BY <1>1, <1>2, <2>1, <2>2, <2>3
       DEF GuardInv, GoneIsReleased, RolesHoldCluster, ReadIsHeld, ReleaseIsSeen
<1> QED
  BY <1>3, <1>4 DEF RemoveAWSClusterFinalizer

\* What others do: none of them takes the operator's finalizer away, and the
\* cache never forgets that a template is being deleted.
LEMMA OthersGuardStep ==
    ASSUME OneTemplateOnly, TypeOK, RoleInv, GuardInv, CAPAKeepsFinalizer, Others,
           UNCHANGED <<pc, at, read, mainRole, irsaRoles>>
    PROVE  GuardInv'
<1>1. at \in Template
  BY DEF TypeOK
<1>2. CASE SyncCluster
  <2>1. /\ UNCHANGED awsCluster /\ seen'.template = seen.template
        /\ seen'.awsCluster = seen.awsCluster
    BY <1>2 DEF SyncCluster, Caught, apiVars, TypeOK, ObjectsTypeOK
  <2> QED
    BY <2>1 DEF GuardInv, GoneIsReleased, RolesHoldCluster, ReadIsHeld, ReleaseIsSeen, ClusterHeld
<1>3. CASE SyncAWSCluster
  <2>1. UNCHANGED awsCluster /\ seen'.awsCluster = awsCluster
    BY <1>3 DEF SyncAWSCluster, Caught, apiVars, TypeOK, ObjectsTypeOK
  <2> QED
    BY <2>1 DEF GuardInv, GoneIsReleased, RolesHoldCluster, ReadIsHeld, ReleaseIsSeen, ClusterHeld
<1>4. CASE SyncTemplates
  <2>1. /\ UNCHANGED awsCluster /\ seen'.awsCluster = seen.awsCluster
        /\ seen'.template = template
    BY <1>4 DEF SyncTemplates, Caught, apiVars, TypeOK, ObjectsTypeOK
  <2>2. seen.template[at].life \in {"deleting", "gone"} => template[at].life \in {"deleting", "gone"}
    BY <1>1 DEF RoleInv, CacheIsOlder
  <2> QED
    BY <2>1, <2>2
       DEF GuardInv, GoneIsReleased, RolesHoldCluster, ReadIsHeld, ReleaseIsSeen, ClusterHeld
<1>5. CASE DeleteAWSCluster \/ CAPAIsDone
  <2>1. /\ ClusterHeld' = ClusterHeld /\ UNCHANGED seen
        /\ awsCluster'.life = "gone" => awsCluster'.finalizers = {}
    BY <1>5 DEF DeleteAWSCluster, CAPAIsDone, PatchAWSCluster, ClusterHeld, Deleted, LifeWith,
                There, TypeOK, ObjectsTypeOK, AWSClusterRec
  <2> QED
    BY <2>1 DEF GuardInv, GoneIsReleased, RolesHoldCluster, ReadIsHeld, ReleaseIsSeen
<1>6. CASE \/ UninstallCluster \/ ClusterGoes \/ Uninstall \/ CAPAReads
           \/ \E t \in Template : UninstallTemplate(t) \/ Age(t) \/ Create(t) \/ Upgrade(t)
  <2>1. UNCHANGED <<awsCluster, seen>>
    BY <1>6 DEF UninstallCluster, ClusterGoes, Uninstall, UninstallTemplate, Age, Create,
                Upgrade, CAPAReads, apiVars
  <2> QED BY <2>1, GuardStays
<1>7. CASE CAPAHolds
  <2>1. UNCHANGED seen /\ (ClusterHeld => ClusterHeld')
    BY <1>7 DEF CAPAHolds, CAPAKeepsFinalizer, ClusterHeld, TypeOK, ObjectsTypeOK, AWSClusterRec
  <2>2. awsCluster'.life = "gone" => awsCluster' = awsCluster
    BY <1>7 DEF CAPAHolds, There, TypeOK, ObjectsTypeOK, AWSClusterRec
  <2> QED
    BY <2>1, <2>2 DEF GuardInv, GoneIsReleased, RolesHoldCluster, ReadIsHeld, ReleaseIsSeen
<1> QED
  BY <1>2, <1>3, <1>4, <1>5, <1>6, <1>7 DEF Others, Due

\* With one template, the AWSCluster stays as long as there are roles that the
\* operator made, however the cluster is deleted, whatever fails, and however
\* old the cache is, as long as CAPA's patches keep the operator's finalizer.
THEOREM ClusterOutlivesRoles ==
    ASSUME OneTemplateOnly
    PROVE  Spec => AWSClusterGuardsRoles
<1>1. Init => GuardInv
  BY TemplateAssumption
     DEF Init, ObjectsInit, GuardInv, GoneIsReleased, RolesHoldCluster, ReadIsHeld,
         ReleaseIsSeen, ClusterHeld
<1>2. TypeOK /\ RoleInv /\ HeldInv /\ GuardInv /\ CAPAKeepsFinalizer /\ [Next]_vars => GuardInv'
  <2> SUFFICES ASSUME TypeOK, RoleInv, HeldInv, GuardInv, CAPAKeepsFinalizer, [Next]_vars
               PROVE  GuardInv'
    OBVIOUS
  <2>1. ASSUME NEW t \in Template, Begin(t) PROVE GuardInv'
    <3>1. /\ UNCHANGED <<awsCluster, seen, mainRole, irsaRoles, at>>
          /\ pc' = "GetCluster" /\ read'.template = seen.template[at]
          /\ seen.template[at].life \in {"live", "deleting"}
      BY <2>1 DEF Begin, OneTemplateOnly, TypeOK, There, objectVars, apiVars, iamState
    <3> QED
      BY <3>1 DEF GuardInv, GoneIsReleased, RolesHoldCluster, ReadIsHeld, ReleaseIsSeen, ClusterHeld
  <2>2. CASE GetCluster \/ GetAWSClusterAgain
    <3>1. /\ UNCHANGED <<awsCluster, seen, mainRole, irsaRoles, at>> /\ pc # "idle"
          /\ \/ pc' = "idle"
             \/ pc' \in {"GetAWSCluster", "ReleaseAWSCluster"} /\ read'.template = read.template
      BY <2>2 DEF GetCluster, GetAWSClusterAgain, Return, Goto, GotoWith, objectVars, apiVars,
                  iamState, TypeOK
    <3> QED BY <3>1, GuardStays DEF Steps
  <2>3. CASE GetAWSCluster
    <3>1. UNCHANGED <<awsCluster, seen, mainRole, irsaRoles, at>> /\ pc # "idle"
      BY <2>3 DEF GetAWSCluster, Return, Goto, GotoWith, objectVars, apiVars, iamState
    <3>2. CASE pc' = "idle" \/ read.template.life = "deleting"
      BY <2>3, <3>1, <3>2, GuardStays DEF GetAWSCluster, Return, Goto, GotoWith, Steps, TypeOK
    <3>3. CASE /\ read.template.life # "deleting" /\ pc' = "HoldTemplate"
               /\ read'.finalizers = seen.awsCluster.finalizers
      BY <3>1, <3>3
         DEF GuardInv, GoneIsReleased, RolesHoldCluster, ReadIsHeld, ReleaseIsSeen, ClusterHeld
    <3> QED
      BY <2>3, <3>2, <3>3 DEF GetAWSCluster, Return, Goto, GotoWith, TypeOK
  <2>4. CASE AddTemplateFinalizer
    <3>1. /\ UNCHANGED <<awsCluster, seen, mainRole, irsaRoles, at>> /\ pc = "HoldTemplate"
          /\ pc' = "idle" \/ (pc' = "HoldAWSCluster" /\ read' = read)
      BY <2>4 DEF AddTemplateFinalizer, HoldTemplate, Return, Goto, objectVars, apiVars, iamState
    <3> QED
      BY <3>1 DEF GuardInv, GoneIsReleased, RolesHoldCluster, ReadIsHeld, ReleaseIsSeen, ClusterHeld
  <2>5. CASE AddAWSClusterFinalizer
    BY <2>5, HoldClusterStep
  <2>6. CASE ReconcileRole \/ ReconcileRolesForIRSA
    <3>1. /\ UNCHANGED <<awsCluster, seen, at>> /\ ClusterHeld
          /\ pc' = "idle" \/ (pc' = "ReconcileRolesForIRSA" /\ read' = read /\ pc # "idle")
      BY <2>6 DEF ReconcileRole, ReconcileRolesForIRSA, Step, Goto, objectVars, apiVars,
                  GuardInv, RolesHoldCluster
    <3> QED
      BY <3>1 DEF GuardInv, GoneIsReleased, RolesHoldCluster, ReadIsHeld, ReleaseIsSeen, ClusterHeld
  <2>7. CASE IsRoleUsedElsewhere \/ DeleteRole \/ DeleteRolesForIRSA
    <3>1. /\ UNCHANGED <<awsCluster, seen, at>> /\ pc # "idle"
          /\ mainRole' \subseteq mainRole
      BY <2>7 DEF IsRoleUsedElsewhere, DeleteRole, DeleteRolesForIRSA, Step, Goto, objectVars,
                  apiVars, iamState
    <3>2. CASE IsRoleUsedElsewhere
      BY <3>1, <3>2, GuardStays DEF IsRoleUsedElsewhere, Step, Goto, Steps, iamState
    <3>3. CASE DeleteRole
      <4>1. /\ pc' \in {"GetAWSClusterAgain", "DeleteRolesForIRSA"} /\ read' = read
            /\ UNCHANGED irsaRoles
        BY <3>3 DEF DeleteRole, Step, Goto
      <4> QED
        BY <3>1, <4>1
           DEF GuardInv, GoneIsReleased, RolesHoldCluster, ReadIsHeld, ReleaseIsSeen, ClusterHeld
    <3>4. CASE DeleteRolesForIRSA
      <4>1. pc' = "GetAWSClusterAgain" /\ read' = read /\ UNCHANGED mainRole
        BY <3>4 DEF DeleteRolesForIRSA, Step, Goto
      <4>2. irsaRoles' => irsaRoles
        BY <3>4, Zenon DEF DeleteRolesForIRSA
      <4> QED
        BY <3>1, <4>1, <4>2
           DEF GuardInv, GoneIsReleased, RolesHoldCluster, ReadIsHeld, ReleaseIsSeen, ClusterHeld
    <3> QED BY <2>7, <3>2, <3>3, <3>4
  <2>8. CASE RemoveAWSClusterFinalizer
    BY <2>8, ReleaseClusterStep
  <2>9. CASE RemoveTemplateFinalizer \/ RemoveConfigMapFinalizer
    <3>1. /\ UNCHANGED <<awsCluster, seen, mainRole, irsaRoles, at>> /\ pc # "idle"
          /\ pc' = "idle" \/ (pc' = "ReleaseConfigMap" /\ read' = read)
      BY <2>9 DEF RemoveTemplateFinalizer, RemoveConfigMapFinalizer, ReleaseTemplate, Step,
                  Return, Goto, objectVars, apiVars, iamState
    <3> QED BY <3>1, GuardStays DEF Steps
  <2>10. CASE Fault
    <3>1. /\ UNCHANGED <<awsCluster, mainRole, irsaRoles, at>> /\ pc' = "idle"
          /\ seen' = seen \/ seen'.awsCluster = awsCluster
      BY <2>10 DEF Fault, Return, Goto, apiVars, iamState
    <3> QED
      BY <3>1 DEF GuardInv, GoneIsReleased, RolesHoldCluster, ReadIsHeld, ReleaseIsSeen, ClusterHeld
  <2>11. CASE Elsewhere
    BY <2>11, OthersGuardStep DEF Elsewhere, Besides, controllerVars, iamState
  <2>12. CASE UNCHANGED vars
    BY <2>12, GuardStays DEF vars, objectVars, apiVars, controllerVars, iamState
  <2> QED
    BY <2>1, <2>2, <2>3, <2>4, <2>5, <2>6, <2>7, <2>8, <2>9, <2>10, <2>11, <2>12
       DEF Next, Working
<1>3. GuardInv => RolesHaveAWSCluster
  BY DEF GuardInv, GoneIsReleased, RolesHoldCluster, ClusterHeld, RolesHaveAWSCluster
<1>4. Spec => []HeldInv
  BY OneProfile, HeldInvHolds
<1> QED
  BY <1>1, <1>2, <1>3, <1>4, TypeCorrect, RoleInvHolds, PTL DEF Spec, AWSClusterGuardsRoles
=============================================================================
