----------------------- MODULE ManagedControlPlaneProofs -----------------------
(***************************************************************************)
(* Proofs about ManagedControlPlane, for any number of failures, restarts  *)
(* and patch attempts.                                                     *)
(***************************************************************************)
EXTENDS ManagedControlPlane, TLAPS

-----------------------------------------------------------------------------
(* Type correctness.                                                       *)

ReadRec == [clusterDeleting : BOOLEAN, rolesWanted : BOOLEAN, finalizers : SUBSET Finalizer,
            attempt : 1 .. maxPatchAttempts]

\* The two parts of TypeOK: what the others change, and the controller's own.
ObjectsTypeOK ==
    /\ cluster \in ClusterRec
    /\ controlPlane \in ControlPlaneRec
    /\ seen \in [cluster : ClusterRec, controlPlane : ControlPlaneRec]
    /\ eks \in BOOLEAN /\ old \in BOOLEAN /\ overtaken \in BOOLEAN
    /\ queued \in BOOLEAN /\ requeueAfter \in BOOLEAN

ControllerTypeOK == /\ pc \in Steps \union {"idle"}
                    /\ read \in ReadRec
                    /\ irsaRoles \in BOOLEAN
                    /\ faults \in 0 .. MaxFaults

LEMMA TypeParts == TypeOK <=> ObjectsTypeOK /\ ControllerTypeOK
BY DEF TypeOK, ObjectsTypeOK, ControllerTypeOK, ReadRec

LEMMA NothingType == Nothing \in ReadRec
BY ControllerAssumption DEF Nothing, ReadRec

LEMMA PatchType ==
    ASSUME controlPlane \in ControlPlaneRec, NEW new \in SUBSET Finalizer, Patch(new)
    PROVE  controlPlane' \in ControlPlaneRec
BY DEF Patch, Patchable, There, LifeWith, ControlPlaneRec

THEOREM TypeCorrect == Spec => []TypeOK
<1>1. Init => TypeOK
  <2> SUFFICES ASSUME Init PROVE TypeOK
    OBVIOUS
  <2>1. /\ controlPlane \in ControlPlaneRec /\ faults \in 0 .. MaxFaults /\ read \in ReadRec
        /\ cluster \in ClusterRec /\ pc = "idle"
    BY NothingType, ControllerAssumption DEF Init, ClusterRec, ControlPlaneRec, Finalizer
  <2>2. seen \in [cluster : ClusterRec, controlPlane : ControlPlaneRec]
    BY <2>1 DEF Init, UpToDate
  <2>3. {eks, old, overtaken, queued, requeueAfter, irsaRoles} \subseteq BOOLEAN
    BY DEF Init
  <2> QED
    BY <2>1, <2>2, <2>3, TypeParts DEF ObjectsTypeOK, ControllerTypeOK
<1>2. TypeOK /\ [Next]_vars => TypeOK'
  <2> SUFFICES ASSUME TypeOK, [Next]_vars PROVE ObjectsTypeOK' /\ ControllerTypeOK'
    BY TypeParts DEF TypeOK, ObjectsTypeOK, ControllerTypeOK, ReadRec
  <2>0. ObjectsTypeOK /\ ControllerTypeOK
    BY TypeParts
  <2>1. CASE Begin
    <3>1. /\ UNCHANGED <<cluster, controlPlane, eks, seen, old, overtaken, irsaRoles, faults>>
          /\ queued' \in BOOLEAN /\ requeueAfter' \in {requeueAfter, TRUE}
      BY <2>1 DEF Begin, Error, apiVars, history
    <3>2. pc' \in Steps \union {"idle"}
      BY <2>0, <2>1 DEF Begin, Dispatch, Error, Return, Steps, ControllerTypeOK
    <3>4. [clusterDeleting |-> seen.cluster.life = "deleting",
           rolesWanted |-> RolesWanted(seen.cluster.release),
           finalizers |-> seen.controlPlane.finalizers, attempt |-> 1] \in ReadRec
      <4>1. /\ (seen.cluster.life = "deleting") \in BOOLEAN
            /\ RolesWanted(seen.cluster.release) \in BOOLEAN
        BY DEF RolesWanted
      <4>2. seen.controlPlane.finalizers \in SUBSET Finalizer /\ 1 \in 1 .. maxPatchAttempts
        BY <2>0, ControllerAssumption DEF ObjectsTypeOK, ControlPlaneRec
      <4> QED BY <4>1, <4>2, Zenon DEF ReadRec
    <3>5. read' \in ReadRec
      BY <2>0, <2>1, <3>4, NothingType DEF Begin, Error, Return, ControllerTypeOK
    <3>3. ObjectsTypeOK'
      BY <2>0, <3>1 DEF ObjectsTypeOK
    <3> QED BY <2>0, <3>1, <3>2, <3>3, <3>5 DEF ControllerTypeOK
  <2>2. CASE AddFinalizer
    <3>1. read.finalizers \union {"operator"} \in SUBSET Finalizer
      BY <2>0 DEF ControllerTypeOK, ReadRec, Finalizer
    <3>2. controlPlane' \in ControlPlaneRec
      BY <2>0, <2>2, <3>1, PatchType DEF AddFinalizer, apiVars, ObjectsTypeOK
    <3>3. /\ UNCHANGED <<cluster, eks, seen, old, overtaken, irsaRoles, faults, requeueAfter>>
          /\ queued' \in {queued, TRUE}
      BY <2>2 DEF AddFinalizer, Patch, Goto, Error, Return, queueVars, apiVars, history
    <3>4. pc' \in Steps \union {"idle"} /\ read' \in ReadRec
      BY <2>0, <2>2, NothingType
         DEF AddFinalizer, Goto, Error, Return, Steps, ControllerTypeOK
    <3>5. ObjectsTypeOK'
      BY <2>0, <3>2, <3>3 DEF ObjectsTypeOK
    <3> QED BY <2>0, <3>3, <3>4, <3>5 DEF ControllerTypeOK
  <2>3. CASE GetEKS \/ ReconcileRolesForIRSA \/ DeleteRolesForIRSA
    <3>1. /\ UNCHANGED <<cluster, controlPlane, eks, seen, old, overtaken, faults>>
          /\ queued' \in {queued, TRUE} /\ requeueAfter' \in {requeueAfter, TRUE}
      BY <2>3 DEF GetEKS, ReconcileRolesForIRSA, DeleteRolesForIRSA, RequeueAfterSuccess, Requeue,
         Goto, Error, Return, queueVars, apiVars, history
    <3>2. pc' \in Steps \union {"idle"} /\ read' \in ReadRec
      BY <2>0, <2>3, NothingType
         DEF GetEKS, ReconcileRolesForIRSA, DeleteRolesForIRSA, RequeueAfterSuccess, Requeue,
             Goto, Error, Return, Steps, ControllerTypeOK
    <3>5. read.rolesWanted \in BOOLEAN
      BY <2>0 DEF ControllerTypeOK, ReadRec
    <3>3. irsaRoles' \in BOOLEAN
      BY <2>0, <2>3, <3>5, Zenon
         DEF GetEKS, ReconcileRolesForIRSA, DeleteRolesForIRSA, ControllerTypeOK
    <3>4. ObjectsTypeOK'
      BY <2>0, <3>1 DEF ObjectsTypeOK
    <3> QED BY <2>0, <3>1, <3>2, <3>3, <3>4 DEF ControllerTypeOK
  <2>4. CASE RemoveFinalizer
    <3>1. read.finalizers \ {"operator"} \in SUBSET Finalizer
      BY <2>0 DEF ControllerTypeOK, ReadRec
    <3>2. controlPlane' \in ControlPlaneRec
      BY <2>0, <2>4, <3>1, PatchType DEF RemoveFinalizer, apiVars, ObjectsTypeOK
    <3>3. /\ UNCHANGED <<cluster, eks, seen, old, overtaken, irsaRoles, faults>>
          /\ queued' \in {queued, TRUE} /\ requeueAfter' \in {requeueAfter, TRUE}
      BY <2>4 DEF RemoveFinalizer, Patch, RequeueAfterSuccess, Requeue, Error, Return, queueVars, apiVars, history
    <3>4. ASSUME MayRetry,
                 read' = [read EXCEPT !.finalizers = seen.controlPlane.finalizers, !.attempt = @ + 1]
          PROVE  read' \in ReadRec
      <4>1. read.attempt + 1 \in 1 .. maxPatchAttempts
        BY <2>0, <3>4, ControllerAssumption DEF MayRetry, ControllerTypeOK, ReadRec
      <4>2. seen.controlPlane.finalizers \in SUBSET Finalizer
        BY <2>0 DEF ObjectsTypeOK, ControlPlaneRec
      <4> QED BY <2>0, <3>4, <4>1, <4>2 DEF ControllerTypeOK, ReadRec
    <3>5. pc' \in Steps \union {"idle"} /\ read' \in ReadRec
      BY <2>0, <2>4, <3>4, NothingType
         DEF RemoveFinalizer, RequeueAfterSuccess, Requeue, Error, Return, ControllerTypeOK
    <3>6. ObjectsTypeOK'
      BY <2>0, <3>2, <3>3 DEF ObjectsTypeOK
    <3> QED BY <2>0, <3>3, <3>5, <3>6 DEF ControllerTypeOK
  <2>5. CASE Fault
    <3>1. pc' \in Steps \union {"idle"} /\ read' \in ReadRec
      BY <2>5, NothingType DEF Fault, CallFails, Restart, Error, Return
    <3>2. faults' \in 0 .. MaxFaults
      BY <2>0, <2>5, ControllerAssumption DEF Fault, ControllerTypeOK
    <3>8. read.rolesWanted \in BOOLEAN
      BY <2>0 DEF ControllerTypeOK, ReadRec
    <3>3. irsaRoles' \in BOOLEAN
      BY <2>0, <2>5, <3>8, Zenon DEF Fault, CallFails, Restart, ControllerTypeOK
    <3>4. /\ UNCHANGED <<cluster, controlPlane, eks, old, overtaken>>
          /\ seen' \in {seen, UpToDate} /\ requeueAfter' \in {requeueAfter, FALSE}
      BY <2>5 DEF Fault, CallFails, Restart, Error, apiVars, history
    <3>6. queued' \in BOOLEAN
      <4>1. There(controlPlane.life) \in BOOLEAN
        BY DEF There
      <4>2. queued' = TRUE \/ queued' = There(controlPlane.life)
        BY <2>5, Zenon DEF Fault, CallFails, Restart, Error
      <4> QED BY <4>1, <4>2, Zenon
    <3>7. UpToDate \in [cluster : ClusterRec, controlPlane : ControlPlaneRec]
      BY <2>0 DEF ObjectsTypeOK, UpToDate
    <3>5. ObjectsTypeOK'
      BY <2>0, <3>4, <3>6, <3>7 DEF ObjectsTypeOK
    <3> QED BY <3>1, <3>2, <3>3, <3>5 DEF ControllerTypeOK
  <2>6. ASSUME \/ SyncCluster \/ SyncControlPlane \/ NameRole \/ MakeEKS
                      \/ Upgrade \/ DeleteCluster \/ DeleteControlPlane
                      \/ DeleteEKS \/ ClusterGoes
        PROVE  ObjectsTypeOK'
    <3>1. CASE SyncCluster \/ SyncControlPlane
      BY <2>0, <3>1 DEF SyncCluster, SyncControlPlane, apiVars, queueVars, history, ObjectsTypeOK
    <3>2. CASE NameRole \/ DeleteControlPlane
      <4>1. controlPlane' \in ControlPlaneRec
        BY <2>0, <3>2 DEF NameRole, DeleteControlPlane, Deleted, LifeWith, ObjectsTypeOK, ControlPlaneRec
      <4> QED BY <2>0, <3>2, <4>1 DEF NameRole, DeleteControlPlane, queueVars, history, ObjectsTypeOK
    <3>3. CASE MakeEKS \/ DeleteEKS
      BY <2>0, <3>3 DEF MakeEKS, DeleteEKS, queueVars, history, ObjectsTypeOK
    <3>4. CASE Upgrade \/ DeleteCluster \/ ClusterGoes
      <4>1. cluster' \in ClusterRec
        BY <2>0, <3>4 DEF Upgrade, DeleteCluster, ClusterGoes, ObjectsTypeOK, ClusterRec
      <4> QED BY <2>0, <3>4, <4>1 DEF Upgrade, DeleteCluster, ClusterGoes, queueVars, history, ObjectsTypeOK
    <3> QED BY <2>6, <3>1, <3>2, <3>3, <3>4
  <2>7. ASSUME FiveMinutes PROVE ObjectsTypeOK'
    <3>1. (old \/ (DeletionIsSeen /\ pc = "idle")) \in BOOLEAN
      OBVIOUS
    <3>0. old' = (old \/ (DeletionIsSeen /\ pc = "idle"))
      BY <2>7 DEF FiveMinutes
    <3>2. old' \in BOOLEAN
      BY <3>0, <3>1, Zenon
    <3>5. (queued \/ requeueAfter) \in BOOLEAN
      OBVIOUS
    <3>3. queued' \in BOOLEAN /\ requeueAfter' \in BOOLEAN
      BY <2>7, <3>5, Zenon DEF FiveMinutes
    <3>4. UNCHANGED <<cluster, controlPlane, eks, seen, overtaken>>
      BY <2>7 DEF FiveMinutes, apiVars
    <3> QED BY <2>0, <3>2, <3>3, <3>4 DEF ObjectsTypeOK
  <2>8. ASSUME CAPAIsDone PROVE ObjectsTypeOK'
    <3>1. controlPlane.finalizers \ {"capa"} \in SUBSET Finalizer
      BY <2>0 DEF ObjectsTypeOK, ControlPlaneRec
    <3>2. controlPlane' \in ControlPlaneRec
      BY <2>0, <2>8, <3>1, PatchType DEF CAPAIsDone, ObjectsTypeOK
    <3>3. (~(old /\ ~queued /\ pc = "idle")) \in BOOLEAN
      OBVIOUS
    <3>4. overtaken' \in BOOLEAN
      BY <2>8, <3>3, Zenon DEF CAPAIsDone
    <3> QED BY <2>0, <2>8, <3>2, <3>4 DEF CAPAIsDone, Patch, queueVars, ObjectsTypeOK
  <2>9. CASE UNCHANGED vars
    BY <2>0, <2>9 DEF vars, apiVars, queueVars, history, ObjectsTypeOK, ControllerTypeOK
  <2>10. ASSUME UNCHANGED <<pc, read, irsaRoles, faults>> PROVE ControllerTypeOK'
    BY <2>0, <2>10 DEF ControllerTypeOK
  <2> QED
    BY <2>1, <2>2, <2>3, <2>4, <2>5, <2>6, <2>7, <2>8, <2>9, <2>10 DEF Next, Working, Besides
<1> QED
  BY <1>1, <1>2, PTL DEF Spec
-----------------------------------------------------------------------------
(* Why no role is left behind, whatever fails, unless CAPA overtakes the   *)
(* operator.  The list of finalizers tells: as long as CAPA's is in it the *)
(* object stays, and no patch of the operator's takes it out.  The visit   *)
(* that deletes the roles cannot fail to come: every return of Reconcile   *)
(* leaves the control plane in the queue or comes back to it.              *)

\* The cache is behind the objects, and the Cluster goes after the control plane.
CacheIsOlder ==
    /\ seen.cluster.life = "deleting" => cluster.life # "live"
    /\ seen.controlPlane.life = "deleting" => controlPlane.life # "live"
    /\ seen.controlPlane.life = "gone" => controlPlane.life = "gone"
    /\ cluster.life = "gone" => controlPlane.life = "gone"

\* Only CAPA takes its finalizer off, and only when the object is being deleted.
CAPAHolds ==
    /\ "capa" \in controlPlane.finalizers
       => /\ ~overtaken /\ controlPlane.life # "gone"
          /\ "capa" \in seen.controlPlane.finalizers
          /\ pc # "idle" => "capa" \in read.finalizers
    /\ "capa" \notin controlPlane.finalizers => controlPlane.life # "live"

\* Without its role name a control plane has no role.
RolesAreNamed ==
    /\ seen.controlPlane.named => controlPlane.named
    /\ irsaRoles \/ pc # "idle" => seen.controlPlane.named

ComesBack == pc = "idle" /\ There(seen.controlPlane.life) => queued \/ requeueAfter

\* After the five minutes roles that are left have their visit ahead of them,
\* and it finds the Cluster being deleted.
LastVisit ==
    old => /\ seen.controlPlane.life # "live" /\ controlPlane.life # "live"
           /\ pc \notin {"AddFinalizer", "GetEKS", "ReconcileRolesForIRSA"}
           /\ irsaRoles /\ "capa" \in controlPlane.finalizers
              => /\ cluster.life = "deleting" /\ seen.cluster.life = "deleting"
                 /\ seen.controlPlane.life = "deleting"
                 /\ pc = "idle" => queued
                 /\ pc # "idle" => pc = "DeleteRolesForIRSA" /\ read.clusterDeleting

\* When CAPA has let go, and not too early, there is no role and none will be.
LetGo == "capa" \notin controlPlane.finalizers /\ ~overtaken => old /\ ~irsaRoles

RoleInv == CacheIsOlder /\ CAPAHolds /\ RolesAreNamed /\ ComesBack /\ LastVisit /\ LetGo

\* What the invariant reads, with its types.
LEMMA Lives ==
    ASSUME TypeOK
    PROVE  /\ controlPlane.life \in {"live", "deleting", "gone"}
           /\ seen.controlPlane.life \in {"live", "deleting", "gone"}
           /\ cluster.life \in {"live", "deleting", "gone"}
           /\ seen.cluster.life \in {"live", "deleting", "gone"}
           /\ pc \in Steps \union {"idle"}
BY DEF TypeOK, ControlPlaneRec, ClusterRec

\* A patch of a list with CAPA's finalizer neither takes it off nor puts it back.
LEMMA PatchStep ==
    ASSUME TypeOK, RoleInv, NEW new, Patch(new),
           "capa" \in controlPlane.finalizers => "capa" \in new
    PROVE  /\ UNCHANGED <<cluster, eks>> /\ controlPlane'.named = controlPlane.named
           /\ "capa" \in controlPlane'.finalizers <=> "capa" \in controlPlane.finalizers
           /\ controlPlane.life = "live" <=> controlPlane'.life = "live"
           /\ controlPlane.life # "gone"
           /\ controlPlane'.life = "gone" => "capa" \notin controlPlane'.finalizers
<1>1. controlPlane \in ControlPlaneRec
  BY DEF TypeOK
<1> QED
  BY <1>1 DEF Patch, Patchable, There, LifeWith, Accepts, ControlPlaneRec, RoleInv, CAPAHolds

\* What the controller has read, or reads again, has CAPA's finalizer.
LEMMA OperatorsPatch ==
    ASSUME TypeOK, RoleInv, pc # "idle", UNCHANGED <<seen, old, overtaken, irsaRoles>>,
           NEW new \in {read.finalizers \union {"operator"}, read.finalizers \ {"operator"}},
           Patch(new) \/ UNCHANGED apiVars,
           pc' = "idle" => queued' \/ requeueAfter',
           pc' # "idle" => /\ read'.finalizers \in {read.finalizers, seen.controlPlane.finalizers}
                           /\ pc' \notin {"AddFinalizer", "ReconcileRolesForIRSA"}
                           /\ pc' = "GetEKS" => pc = "AddFinalizer",
           old => pc \in {"AddFinalizer", "RemoveFinalizer"}
    PROVE  RoleInv'
<1>1. /\ UNCHANGED <<cluster, eks>> /\ controlPlane'.named = controlPlane.named
      /\ "capa" \in controlPlane'.finalizers <=> "capa" \in controlPlane.finalizers
      /\ controlPlane.life = "live" <=> controlPlane'.life = "live"
      /\ controlPlane.life = "gone" => controlPlane'.life = "gone"
      /\ controlPlane'.life = "gone" => "capa" \notin controlPlane'.finalizers
  <2>1. CASE Patch(new)
    <3>1. "capa" \in controlPlane.finalizers => "capa" \in new
      BY DEF RoleInv, CAPAHolds
    <3> QED BY <2>1, <3>1, PatchStep
  <2>2. CASE UNCHANGED apiVars
    BY <2>2 DEF apiVars, RoleInv, CAPAHolds
  <2> QED BY <2>1, <2>2
<1>2. old => pc = "RemoveFinalizer" /\ (irsaRoles => "capa" \notin controlPlane.finalizers)
  BY DEF RoleInv, LastVisit
<1>3. CacheIsOlder' /\ CAPAHolds'
  BY <1>1 DEF RoleInv, CacheIsOlder, CAPAHolds
<1>4. RolesAreNamed' /\ ComesBack' /\ LetGo'
  BY <1>1 DEF RoleInv, RolesAreNamed, ComesBack, LetGo
<1>5. LastVisit'
  BY <1>1, <1>2 DEF RoleInv, LastVisit
<1> QED BY <1>3, <1>4, <1>5 DEF RoleInv

THEOREM RoleInvHolds == Spec => []RoleInv
<1>1. Init => RoleInv
  BY DEF Init, UpToDate, Nothing, There, RoleInv, CacheIsOlder, CAPAHolds, RolesAreNamed,
     ComesBack, LastVisit, LetGo
<1>2. TypeOK /\ RoleInv /\ [Next]_vars => RoleInv'
  <2> SUFFICES ASSUME TypeOK, RoleInv, [Next]_vars PROVE RoleInv'
    OBVIOUS
  <2>0. CacheIsOlder /\ CAPAHolds /\ RolesAreNamed /\ ComesBack /\ LastVisit /\ LetGo
    BY DEF RoleInv
  <2>1. CASE Begin
    <3>1. /\ UNCHANGED <<cluster, controlPlane, eks, seen, old, overtaken, irsaRoles>>
          /\ pc = "idle" /\ queued
          /\ \/ ~There(seen.controlPlane.life) /\ UNCHANGED <<pc, read>>
             \/ ~There(seen.cluster.life) /\ pc' = "idle" /\ queued'
             \/ ~seen.controlPlane.named /\ requeueAfter' = TRUE /\ UNCHANGED <<pc, read>>
             \/ /\ There(seen.controlPlane.life) /\ seen.controlPlane.named
                /\ pc' = IF seen.controlPlane.life = "deleting" THEN "DeleteRolesForIRSA"
                         ELSE "AddFinalizer"
                /\ read'.clusterDeleting = (seen.cluster.life = "deleting")
                /\ read'.finalizers = seen.controlPlane.finalizers
      BY <2>1 DEF Begin, Dispatch, Error, Return, apiVars, history
    <3>2. CacheIsOlder' /\ CAPAHolds' /\ RolesAreNamed' /\ ComesBack' /\ LetGo'
      BY <2>0, <3>1 DEF CacheIsOlder, CAPAHolds, RolesAreNamed, ComesBack, LetGo
    <3>3. LastVisit'
      BY <2>0, <3>1, Lives DEF LastVisit, RolesAreNamed, There
    <3> QED BY <3>2, <3>3 DEF RoleInv
  <2>2. CASE AddFinalizer
    <3>1. /\ pc = "AddFinalizer" /\ UNCHANGED <<seen, old, overtaken, irsaRoles>>
          /\ Patch(read.finalizers \union {"operator"}) \/ UNCHANGED apiVars
          /\ (pc' = "GetEKS" /\ UNCHANGED read) \/ (pc' = "idle" /\ queued' = TRUE)
      BY <2>2 DEF AddFinalizer, Goto, Error, Return, history
    <3> QED BY <3>1, OperatorsPatch
  <2>3. CASE GetEKS
    <3>1. /\ pc = "GetEKS" /\ UNCHANGED <<cluster, controlPlane, seen, old, overtaken, irsaRoles>>
          /\ (pc' = "ReconcileRolesForIRSA" /\ UNCHANGED read) \/ (pc' = "idle" /\ queued' = TRUE)
      BY <2>3 DEF GetEKS, Goto, Error, Return, apiVars, history
    <3> QED BY <2>0, <3>1 DEF RoleInv, CacheIsOlder, CAPAHolds, RolesAreNamed, ComesBack, LastVisit, LetGo
  <2>4. CASE ReconcileRolesForIRSA
    <3>1. /\ pc = "ReconcileRolesForIRSA" /\ pc' = "idle" /\ requeueAfter' = TRUE
          /\ UNCHANGED <<cluster, controlPlane, seen, old, overtaken>>
      BY <2>4 DEF ReconcileRolesForIRSA, RequeueAfterSuccess, Requeue, Return, apiVars, history
    <3> QED BY <2>0, <3>1 DEF RoleInv, CacheIsOlder, CAPAHolds, RolesAreNamed, ComesBack, LastVisit, LetGo
  <2>5. CASE DeleteRolesForIRSA
    <3>1. irsaRoles' => irsaRoles /\ ~read.clusterDeleting
      BY <2>5 DEF DeleteRolesForIRSA
    <3>2. /\ pc = "DeleteRolesForIRSA" /\ pc' = "RemoveFinalizer"
          /\ UNCHANGED <<cluster, controlPlane, seen, old, overtaken, read>>
      BY <2>5 DEF DeleteRolesForIRSA, Goto, apiVars, history
    <3> QED BY <2>0, <3>1, <3>2
            DEF RoleInv, CacheIsOlder, CAPAHolds, RolesAreNamed, ComesBack, LastVisit, LetGo
  <2>6. CASE RemoveFinalizer
    <3>1. /\ pc = "RemoveFinalizer" /\ UNCHANGED <<seen, old, overtaken, irsaRoles>>
          /\ Patch(read.finalizers \ {"operator"}) \/ UNCHANGED apiVars
      BY <2>6 DEF RemoveFinalizer, history
    <3>2. \/ pc' = "idle" /\ (queued' \/ requeueAfter')
          \/ pc' = "RemoveFinalizer" /\ read'.finalizers = seen.controlPlane.finalizers
      BY <2>6 DEF RemoveFinalizer, RequeueAfterSuccess, Requeue, Error, Return, TypeOK
    <3> QED BY <3>1, <3>2, OperatorsPatch
  <2>7. CASE Fault
    <3>1. /\ pc' = "idle" /\ UNCHANGED <<cluster, controlPlane, eks, old, overtaken>>
          /\ \/ queued' /\ UNCHANGED seen
             \/ seen' = UpToDate /\ queued' = There(controlPlane.life)
      BY <2>7 DEF Fault, CallFails, Restart, Error, Return, apiVars, history
    <3>2. irsaRoles' => irsaRoles \/ pc = "ReconcileRolesForIRSA"
      BY <2>7 DEF Fault, CallFails, Restart
    <3>3. seen'.controlPlane \in {seen.controlPlane, controlPlane}
          /\ seen'.cluster \in {seen.cluster, cluster}
      BY <3>1 DEF UpToDate
    <3>4. CacheIsOlder' /\ CAPAHolds' /\ RolesAreNamed'
      BY <2>0, <3>1, <3>2, <3>3 DEF CacheIsOlder, CAPAHolds, RolesAreNamed
    <3>5. ComesBack'
      BY <3>1 DEF ComesBack, UpToDate
    <3>6. LastVisit'
      BY <2>0, <3>1, <3>2, <3>3, Lives DEF LastVisit, CAPAHolds, UpToDate, There
    <3>7. LetGo'
      BY <2>0, <3>1, <3>2 DEF LetGo, LastVisit
    <3> QED BY <3>4, <3>5, <3>6, <3>7 DEF RoleInv
  <2>8. CASE UNCHANGED <<pc, read, irsaRoles, faults>>
             /\ (SyncCluster \/ SyncControlPlane \/ NameRole \/ MakeEKS \/ Upgrade \/ DeleteCluster
                 \/ DeleteControlPlane \/ DeleteEKS \/ ClusterGoes \/ FiveMinutes \/ CAPAIsDone)
    <3> USE <2>0 DEF RoleInv, CacheIsOlder, CAPAHolds, RolesAreNamed, LetGo
    <3>1. CASE SyncCluster
      BY <2>8, <3>1, Lives DEF SyncCluster, apiVars, queueVars, history, ComesBack, LastVisit, TypeOK
    <3>2. CASE SyncControlPlane
      <4>1. /\ UNCHANGED <<cluster, controlPlane, old, overtaken>> /\ queued' = TRUE
            /\ seen'.controlPlane = controlPlane /\ seen'.cluster = seen.cluster
        BY <3>2 DEF SyncControlPlane, apiVars, history, TypeOK
      <4> QED BY <2>8, <4>1, Lives DEF ComesBack, LastVisit
    <3>3. CASE NameRole \/ MakeEKS
      <4>1. /\ UNCHANGED <<cluster, seen, old, overtaken, queued, requeueAfter>>
            /\ controlPlane'.life = controlPlane.life
            /\ controlPlane'.finalizers = controlPlane.finalizers
            /\ controlPlane.named => controlPlane'.named
        BY <3>3 DEF NameRole, MakeEKS, queueVars, history, TypeOK, ControlPlaneRec
      <4> QED BY <2>8, <4>1 DEF ComesBack, LastVisit
    <3>4. CASE Upgrade \/ DeleteCluster \/ ClusterGoes
      <4>1. /\ UNCHANGED <<controlPlane, seen, old, overtaken, queued, requeueAfter>>
            /\ cluster'.life = "live" => cluster.life = "live"
            /\ cluster'.life = "gone" => controlPlane.life = "gone"
            /\ cluster.life = "deleting" /\ controlPlane.life # "gone" => cluster'.life = "deleting"
        BY <3>4, Lives DEF Upgrade, DeleteCluster, ClusterGoes, queueVars, history, TypeOK, ClusterRec
      <4> QED BY <2>8, <4>1 DEF ComesBack, LastVisit
    <3>5. CASE DeleteControlPlane
      <4>1. controlPlane.life = "live" /\ "capa" \in controlPlane.finalizers
        BY <3>5 DEF DeleteControlPlane
      <4>2. /\ controlPlane'.life = "deleting" /\ controlPlane'.named = controlPlane.named
            /\ controlPlane'.finalizers = controlPlane.finalizers
        BY <3>5, <4>1 DEF DeleteControlPlane, Deleted, LifeWith, TypeOK, ControlPlaneRec
      <4> QED BY <2>8, <3>5, <4>1, <4>2 DEF DeleteControlPlane, queueVars, history, ComesBack, LastVisit
    <3>6. CASE DeleteEKS
      BY <2>8, <3>6 DEF DeleteEKS, queueVars, history, ComesBack, LastVisit
    <3>7. CASE FiveMinutes
      <4>1. /\ UNCHANGED <<cluster, controlPlane, eks, seen, overtaken>>
            /\ queued' = (queued \/ requeueAfter)
            /\ old' => old \/ (DeletionIsSeen /\ pc = "idle")
            /\ old => old'
        BY <3>7 DEF FiveMinutes, apiVars
      <4>2. CacheIsOlder' /\ CAPAHolds' /\ RolesAreNamed' /\ LetGo'
        BY <2>8, <4>1
      <4>3. ComesBack'
        BY <2>8, <4>1 DEF ComesBack
      <4>4. LastVisit'
        BY <2>8, <4>1, Lives DEF LastVisit, ComesBack, DeletionIsSeen, There
      <4> QED BY <4>2, <4>3, <4>4
    <3>8. CASE CAPAIsDone
      <4>1. /\ controlPlane.life = "deleting" /\ Patch(controlPlane.finalizers \ {"capa"})
            /\ overtaken' = ~(old /\ ~queued /\ pc = "idle") /\ "capa" \in controlPlane.finalizers
            /\ UNCHANGED <<seen, old, queued, requeueAfter>>
        BY <3>8 DEF CAPAIsDone, queueVars
      <4>2. /\ cluster' = cluster /\ controlPlane'.named = controlPlane.named
            /\ controlPlane'.life # "live" /\ "capa" \notin controlPlane'.finalizers
        BY <4>1 DEF Patch, LifeWith, TypeOK, ControlPlaneRec
      <4>3. ~overtaken' => old /\ ~irsaRoles
        BY <4>1 DEF LastVisit
      <4> QED BY <2>8, <4>1, <4>2, <4>3 DEF ComesBack, LastVisit
    <3> QED BY <2>8, <3>1, <3>2, <3>3, <3>4, <3>5, <3>6, <3>7, <3>8
  <2>9. CASE UNCHANGED vars
    BY <2>0, <2>9 DEF vars, apiVars, queueVars, history, RoleInv, CacheIsOlder, CAPAHolds,
       RolesAreNamed, ComesBack, LastVisit, LetGo
  <2> QED
    BY <2>1, <2>2, <2>3, <2>6, <2>7, <2>8, <2>9, <2>4, <2>5 DEF Next, Working, Besides
<1> QED
  BY <1>1, <1>2, TypeCorrect, PTL DEF Spec

\* No IRSA role outlives a control plane that CAPA lets go no sooner than the
\* operator has done, five minutes after the cache showed both deletions, what
\* waited for it, however old the cache was before and whatever failed.
THEOREM NoRoleOutlives == Spec => []RolesGoWithControlPlane
<1>1. RoleInv => RolesGoWithControlPlane
  BY DEF RoleInv, CAPAHolds, LetGo, RolesGoWithControlPlane
<1> QED
  BY <1>1, RoleInvHolds, PTL
=============================================================================
