---------------------- MODULE MachinePoolControllerProofs ----------------------
(***************************************************************************)
(* Proofs about MachinePoolController, for any pools, providers, profiles, *)
(* release, number of failures and restarts, and patch attempts.           *)
(***************************************************************************)
EXTENDS MachinePoolController, TLAPS

-----------------------------------------------------------------------------
(* Type correctness.                                                       *)

LEMMA LifeWithType ==
    ASSUME NEW life \in Life, NEW finalizers
    PROVE  LifeWith(life, finalizers) \in Life
BY DEF LifeWith, Life

LEMMA DeletedType ==
    ASSUME NEW life \in Life, NEW finalizers
    PROVE  Deleted(life, finalizers) \in Life
BY DEF Deleted, LifeWith, Life

\* The operator's patches keep the objects' types.
LEMMA PatchInfraType ==
    ASSUME ObjectsTypeOK, NEW p \in Pool, NEW new \in SUBSET Finalizer, PatchInfra(p, new)
    PROVE  ObjectsTypeOK'
<1>1. LifeWith(infra[p].life, new) \in Life
  BY LifeWithType DEF ObjectsTypeOK, InfraRec
<1>2. infra' \in [Pool -> InfraRec]
  BY <1>1 DEF PatchInfra, ObjectsTypeOK, InfraRec
<1> QED
  BY <1>2 DEF PatchInfra, ObjectsTypeOK

\* So do Helm, CAPI, the provider and the cache.
LEMMA OthersType ==
    ASSUME ObjectsTypeOK,
           \/ AWSClusterGoes \/ ClusterGoes
           \/ \E p \in Pool : Create(p) \/ Delete(p) \/ Synchronise(p) \/ Due(p)
    PROVE  ObjectsTypeOK'
<1>1. CASE AWSClusterGoes \/ ClusterGoes
  BY <1>1 DEF AWSClusterGoes, ClusterGoes, ObjectsTypeOK, apiVars
<1>2. ASSUME NEW p \in Pool PROVE InfraDeleted(p) \in [Pool -> InfraRec]
  <2>1. Deleted(infra[p].life, infra[p].finalizers) \in Life
    BY DeletedType DEF ObjectsTypeOK, InfraRec
  <2> QED BY <2>1 DEF InfraDeleted, ObjectsTypeOK, InfraRec
<1>3. ASSUME NEW p \in Pool, Create(p) PROVE ObjectsTypeOK'
  <2>1. infra' \in [Pool -> InfraRec]
    BY <1>3 DEF Create, ObjectsTypeOK, InfraRec, Life
  <2>2. machinePool' \in [Pool -> Life]
    BY <1>3 DEF Create, ObjectsTypeOK, Life
  <2> QED BY <1>3, <2>1, <2>2 DEF Create, ObjectsTypeOK
<1>4. ASSUME NEW p \in Pool, Delete(p) \/ DeleteInfra(p) \/ PoolGoes(p) PROVE ObjectsTypeOK'
  <2>1. infra' \in [Pool -> InfraRec]
    BY <1>2, <1>4 DEF Delete, DeleteInfra, PoolGoes, ObjectsTypeOK
  <2>2. machinePool' \in [Pool -> Life]
    BY <1>4 DEF Delete, DeleteInfra, PoolGoes, ObjectsTypeOK, Life
  <2>3. UNCHANGED <<providerSaw, seen>>
    BY <1>4 DEF Delete, DeleteInfra, PoolGoes
  <2> QED BY <2>1, <2>2, <2>3 DEF ObjectsTypeOK
<1>5. ASSUME NEW p \in Pool, Synchronise(p) PROVE ObjectsTypeOK'
  <2>1. CASE SyncPool(p)
    BY <2>1 DEF SyncPool, ObjectsTypeOK, apiVars
  <2>2. CASE SyncInfra(p)
    <3>1. infra[p].life \in Life
      BY DEF ObjectsTypeOK, InfraRec
    <3> QED BY <2>2, <3>1 DEF SyncInfra, ObjectsTypeOK, apiVars
  <2> QED BY <1>5, <2>1, <2>2 DEF Synchronise
<1>6. ASSUME NEW p \in Pool, ProviderReads(p) PROVE ObjectsTypeOK'
  <2>1. {infra[p].finalizers} \in SUBSET SUBSET Finalizer
    BY DEF ObjectsTypeOK, InfraRec
  <2>2. providerSaw' \in [Pool -> SUBSET SUBSET Finalizer]
    BY <1>6, <2>1 DEF ProviderReads, ObjectsTypeOK
  <2> QED BY <1>6, <2>2 DEF ProviderReads, ObjectsTypeOK, apiVars
<1>7. ASSUME NEW p \in Pool, ProviderHolds(p) PROVE ObjectsTypeOK'
  <2>1. PICK old \in providerSaw[p] :
          LET new == old \union {"provider"} IN
          /\ infra' = IF Patchable(p, new) THEN [infra EXCEPT ![p].finalizers = new] ELSE infra
          /\ providerSaw' = [providerSaw EXCEPT ![p] = {}]
          /\ UNCHANGED <<machinePool, seen>>
    BY <1>7 DEF ProviderHolds
  <2>2. old \union {"provider"} \in SUBSET Finalizer
    BY DEF ObjectsTypeOK, Finalizer
  <2>3. infra' \in [Pool -> InfraRec]
    BY <2>1, <2>2 DEF ObjectsTypeOK, InfraRec
  <2>4. providerSaw' \in [Pool -> SUBSET SUBSET Finalizer]
    BY <2>1 DEF ObjectsTypeOK
  <2> QED BY <2>1, <2>3, <2>4 DEF ObjectsTypeOK
<1>8. ASSUME NEW p \in Pool, ProviderIsDone(p) PROVE ObjectsTypeOK'
  <2>1. infra[p].finalizers \ {"provider"} \in SUBSET Finalizer
    BY DEF ObjectsTypeOK, InfraRec
  <2> QED BY <1>8, <2>1, PatchInfraType DEF ProviderIsDone
<1> QED
  BY <1>1, <1>3, <1>4, <1>5, <1>6, <1>7, <1>8 DEF Due

\* What a reconciliation keeps from one call to the next.
ReadRec == [deleting : BOOLEAN, paused : BOOLEAN,
            finalizers : SUBSET Finalizer, attempt : 1 .. maxPatchAttempts]

\* The controller's part of TypeOK.
ControllerTypeOK ==
    /\ pc \in Steps \union {"idle"}
    /\ at \in Pool \union {NoPool} /\ (pc # "idle" => at \in Pool)
    /\ (pc \in Normal => ~read.deleting) /\ (pc \in Deletion => read.deleting)
    /\ read \in ReadRec

LEMMA ReturnType ==
    ASSUME Return
    PROVE  ControllerTypeOK'
<1>1. Nothing \in ReadRec
  BY ControllerAssumption DEF Nothing, ReadRec
<1> QED
  BY <1>1 DEF Return, ControllerTypeOK, Steps, Normal, Deletion

LEMMA NormalType ==
    ASSUME ControllerTypeOK, pc \in Normal, NEW step \in Normal, Goto(step)
    PROVE  ControllerTypeOK'
BY DEF ControllerTypeOK, Goto, Steps, Normal, Deletion

LEMMA DeletionType ==
    ASSUME ControllerTypeOK, pc \in Deletion, NEW step \in Deletion, Goto(step)
    PROVE  ControllerTypeOK'
BY DEF ControllerTypeOK, Goto, Steps, Normal, Deletion

THEOREM TypeCorrect == Spec => []TypeOK
<1>1. Init => TypeOK
  <2> SUFFICES ASSUME Init PROVE TypeOK
    OBVIOUS
  <2>1. ObjectsTypeOK
    <3>1. machinePool \in [Pool -> Life] /\ infra \in [Pool -> InfraRec]
      BY DEF Init, ObjectsInit, InfraRec, Life
    <3>2. [p \in AWSMachinePool |-> machinePool[p]] \in [AWSMachinePool -> Life]
      BY <3>1 DEF AWSMachinePool
    <3> QED
      BY <3>1, <3>2 DEF Init, ObjectsInit, ObjectsTypeOK
  <2>2. Nothing \in ReadRec
    BY ControllerAssumption DEF Nothing, ReadRec
  <2> QED
    BY <2>1, <2>2, ControllerAssumption DEF Init, TypeOK, ReadRec, Steps, Normal, Deletion
<1>2. TypeOK /\ [Next]_vars => TypeOK'
  <2> SUFFICES ASSUME TypeOK, [Next]_vars PROVE TypeOK'
    OBVIOUS
  <2>0. /\ ObjectsTypeOK /\ ControllerTypeOK
        /\ role \subseteq Profile /\ faults \in 0 .. MaxFaults
        /\ pc # "idle" => profileOf[at] \in Profile
        /\ seen.machinePool \in [Pool -> Life]
        /\ \A p \in Pool : infra[p].finalizers \in SUBSET Finalizer
    BY PoolAssumption DEF TypeOK, ControllerTypeOK, ReadRec, ObjectsTypeOK, InfraRec
  <2> SUFFICES ObjectsTypeOK' /\ ControllerTypeOK' /\ role' \subseteq Profile /\ faults' \in 0 .. MaxFaults
    BY DEF TypeOK, ControllerTypeOK, ReadRec
  <2>1. ASSUME NEW p \in Pool, Begin(p)
        PROVE  ObjectsTypeOK' /\ ControllerTypeOK' /\ role' \subseteq Profile /\ faults' \in 0 .. MaxFaults
    <3>1. read' \in ReadRec
      BY <2>0, <2>1 DEF Begin, ControllerTypeOK, ReadRec
    <3>2. ControllerTypeOK'
      BY <2>1, <3>1 DEF Begin, ControllerTypeOK, Steps, Normal, Deletion
    <3> QED BY <2>0, <2>1, <3>2 DEF Begin, ObjectsTypeOK, poolVars, apiVars
  <2>2. CASE GetCluster \/ GetInfra
    <3>1. ASSUME ~Return
          PROVE  /\ pc' \in {"GetInfra", "GetAWSCluster"} /\ at' = at /\ at \in Pool
                 /\ read' \in ReadRec
      <4>1. at \in Pool
        BY <2>0, <2>2 DEF GetCluster, GetInfra, ControllerTypeOK
      <4> QED BY <2>0, <2>2, <3>1, <4>1 DEF GetCluster, GetInfra, GotoWith, ControllerTypeOK, ReadRec
    <3>2. ControllerTypeOK'
      BY <2>2, <3>1, ReturnType DEF ControllerTypeOK, Steps, Normal, Deletion
    <3> QED BY <2>0, <2>2, <3>2 DEF GetCluster, GetInfra, ObjectsTypeOK, poolVars, apiVars
  <2>12. CASE GetAWSCluster
    <3>1. ControllerTypeOK'
      <4>1. CASE Goto(Dispatch)
        BY <2>0, <2>12, <4>1 DEF GetAWSCluster, Goto, Dispatch, ControllerTypeOK, Steps, Normal, Deletion
      <4> QED BY <2>12, <4>1, ReturnType DEF GetAWSCluster
    <3> QED BY <2>0, <2>12, <3>1 DEF GetAWSCluster, ObjectsTypeOK, poolVars, apiVars
  <2>3. CASE AddFinalizer
    <3>1. pc \in Normal /\ at \in Pool /\ "ReconcileRole" \in Normal
      BY <2>0, <2>3 DEF AddFinalizer, Normal, ControllerTypeOK
    <3>2. ControllerTypeOK'
      BY <2>0, <2>3, <3>1, NormalType, ReturnType DEF AddFinalizer
    <3>3. read.finalizers \union {"operator"} \in SUBSET Finalizer
      BY <2>0 DEF ControllerTypeOK, ReadRec, Finalizer
    <3>4. ObjectsTypeOK'
      BY <2>0, <2>3, <3>1, <3>3, PatchInfraType DEF AddFinalizer, ObjectsTypeOK, poolVars, apiVars
    <3> QED BY <2>0, <2>3, <3>2, <3>4 DEF AddFinalizer
  <2>4. CASE ReconcileRole
    <3>1. profileOf[at] \in Profile
      BY <2>0, <2>4 DEF ReconcileRole
    <3> QED BY <2>0, <2>4, <3>1, ReturnType DEF ReconcileRole, ObjectsTypeOK, poolVars, apiVars
  <2>5. CASE IsRoleUsedElsewhere \/ DeleteRole
    <3>1. pc \in Deletion /\ {"DeleteRole", "RemoveFinalizer"} \subseteq Deletion
      BY <2>5 DEF IsRoleUsedElsewhere, DeleteRole, Deletion
    <3>2. ControllerTypeOK'
      BY <2>0, <2>5, <3>1, DeletionType DEF IsRoleUsedElsewhere, DeleteRole
    <3> QED BY <2>0, <2>5, <3>2 DEF IsRoleUsedElsewhere, DeleteRole, ObjectsTypeOK, poolVars, apiVars
  <2>6. CASE RemoveFinalizer
    <3>1. pc = "RemoveFinalizer" /\ at \in Pool /\ infra[at].finalizers \in SUBSET Finalizer
      BY <2>0, <2>6 DEF RemoveFinalizer, ControllerTypeOK
    <3>2. ASSUME MayRetry,
                 GotoWith("RemoveFinalizer", [read EXCEPT !.finalizers = infra[at].finalizers,
                                                          !.attempt = @ + 1])
          PROVE  ControllerTypeOK'
      <4>1. read.attempt + 1 \in 1 .. maxPatchAttempts
        BY <2>0, <3>2, ControllerAssumption DEF MayRetry, ControllerTypeOK, ReadRec
      <4>2. read' \in ReadRec /\ read'.deleting = read.deleting
        BY <2>0, <3>1, <3>2, <4>1 DEF GotoWith, ControllerTypeOK, ReadRec
      <4> QED BY <2>0, <3>1, <3>2, <4>2 DEF GotoWith, ControllerTypeOK, Steps, Normal, Deletion
    <3>3. ControllerTypeOK'
      BY <2>6, <3>2, ReturnType DEF RemoveFinalizer
    <3>4. read.finalizers \ {"operator"} \in SUBSET Finalizer
      BY <2>0 DEF ControllerTypeOK, ReadRec
    <3>5. ObjectsTypeOK'
      BY <2>0, <2>6, <3>1, <3>4, PatchInfraType DEF RemoveFinalizer, ObjectsTypeOK, poolVars, apiVars
    <3> QED BY <2>0, <2>6, <3>3, <3>5 DEF RemoveFinalizer
  <2>7. CASE Fault
    <3>1. ControllerTypeOK'
      BY <2>7, ReturnType DEF Fault, CallFails, Restart
    <3>2. faults' \in 0 .. MaxFaults
      BY <2>0, <2>7, ControllerAssumption DEF Fault
    <3>3. \A p \in Pool : infra[p].life \in Life
      BY <2>0 DEF ObjectsTypeOK, InfraRec
    <3>4. UpToDate \in [machinePool : [Pool -> Life], infra : [AWSMachinePool -> Life],
                        cluster : BOOLEAN, awsCluster : BOOLEAN]
      BY <2>0, <3>3 DEF UpToDate, ObjectsTypeOK, AWSMachinePool
    <3>5. ObjectsTypeOK'
      BY <2>0, <2>7, <3>4 DEF Fault, CallFails, Restart, ObjectsTypeOK, poolVars, apiVars
    <3> QED BY <2>0, <2>7, <3>1, <3>2, <3>5 DEF Fault
  <2>8. CASE Elsewhere
    <3>1. ObjectsTypeOK'
      BY <2>0, <2>8, OthersType DEF Elsewhere, Besides
    <3>2. UNCHANGED <<pc, at, read, role, faults>>
      BY <2>8 DEF Elsewhere, Besides, controllerVars
    <3> QED BY <2>0, <3>1, <3>2 DEF ControllerTypeOK
  <2>9. CASE UNCHANGED vars
    BY <2>0, <2>9 DEF vars, ObjectsTypeOK, ControllerTypeOK, poolVars, apiVars, controllerVars
  <2> QED
    BY <2>1, <2>2, <2>3, <2>4, <2>5, <2>6, <2>7, <2>8, <2>9, <2>12 DEF Next, Working
<1> QED
  BY <1>1, <1>2, PTL DEF Spec
-----------------------------------------------------------------------------
(* The cache only ever shows what the objects have been, and the operator  *)
(* has put its finalizer, which the provider may bring back later, on no   *)
(* AWSMachinePool that the cache has never shown.  This is why no pool can *)
(* begin to use a role between the look at the cache and the deletion.     *)

Past(old, life) == /\ old = "live" => life # "absent"
                   /\ old = "deleting" => life \in {"deleting", "gone"}
                   /\ old = "gone" => life = "gone"

CacheIsOlder == /\ \A p \in Pool : Past(seen.machinePool[p], machinePool[p])
                /\ \A p \in AWSMachinePool : Past(seen.infra[p], infra[p].life)

\* A MachinePool and its infrastructure object come into being together, for
\* the API and for the cache.
Together ==
    /\ \A p \in Pool : machinePool[p] = "absent" <=> infra[p].life = "absent"
    /\ \A p \in AWSMachinePool : seen.machinePool[p] # "absent" => seen.infra[p] # "absent"

AtIsSeen ==
    pc # "idle" => /\ seen.machinePool[at] # "absent"
                   /\ read.deleting => machinePool[at] \in {"deleting", "gone"}

\* The operator's finalizer is on the object or in the provider's hands.
Touched(p) == \/ "operator" \in infra[p].finalizers
              \/ \E old \in providerSaw[p] : "operator" \in old

TouchedIsSeen == \A p \in AWSMachinePool : Touched(p) => seen.infra[p] # "absent"

NoUserIsLive ==
    pc = "DeleteRole" => \A p \in AWSMachinePool :
        profileOf[p] = profileOf[at] /\ Touched(p) => infra[p].life # "live"

RoleInv == CacheIsOlder /\ Together /\ AtIsSeen /\ TouchedIsSeen /\ NoUserIsLive

\* What the invariants read, and the lives an object can be in.
LEMMA Lives ==
    ASSUME TypeOK
    PROVE  /\ \A p \in Pool : machinePool[p] \in Life /\ infra[p].life \in Life
                              /\ seen.machinePool[p] \in Life
           /\ \A p \in AWSMachinePool : seen.infra[p] \in Life /\ p \in Pool
BY DEF TypeOK, ObjectsTypeOK, InfraRec, AWSMachinePool

\* A step that touches no object, of which the controller returns or goes on.
LEMMA QuietStep ==
    ASSUME RoleInv, UNCHANGED <<machinePool, infra, providerSaw, seen>>,
           pc' # "idle" => pc # "idle" /\ at' = at /\ read'.deleting = read.deleting,
           pc' # "DeleteRole"
    PROVE  RoleInv'
BY DEF RoleInv, CacheIsOlder, Together, AtIsSeen, TouchedIsSeen, NoUserIsLive, Touched

\* One pool's objects move on in life, and nobody takes the operator's finalizer
\* onto it: what Helm, CAPI and the provider do.
LEMMA PoolStep ==
    ASSUME TypeOK, RoleInv, NEW p \in Pool,
           UNCHANGED <<pc, at, read, seen>>,
           \A q \in Pool \ {p} : /\ machinePool'[q] = machinePool[q] /\ infra'[q] = infra[q]
                                 /\ providerSaw'[q] = providerSaw[q],
           Touched(p)' => Touched(p),
           Past(machinePool[p], machinePool'[p]), Past(infra[p].life, infra'[p].life),
           machinePool'[p] = "absent" <=> infra'[p].life = "absent",
           infra'[p].life = "live" => infra[p].life \in {"absent", "live"}
    PROVE  RoleInv'
<1>0. \A q \in Pool : Touched(q)' => Touched(q)
  BY DEF Touched
<1>1. CacheIsOlder'
  BY Lives DEF RoleInv, CacheIsOlder, Past, Life
<1>2. Together'
  BY Lives DEF RoleInv, Together
<1>3. AtIsSeen'
  BY DEF RoleInv, AtIsSeen, TypeOK, Past
<1>4. TouchedIsSeen'
  BY <1>0, Lives DEF RoleInv, TouchedIsSeen
<1>5. NoUserIsLive'
  BY <1>0, Lives DEF RoleInv, NoUserIsLive, TouchedIsSeen, CacheIsOlder, Past, Life
<1> QED
  BY <1>1, <1>2, <1>3, <1>4, <1>5 DEF RoleInv

\* A patch by the controller, which has seen the pool, or by the provider.
LEMMA PatchStep ==
    ASSUME TypeOK, RoleInv, NEW p \in Pool, NEW new, PatchInfra(p, new)
    PROVE  /\ UNCHANGED <<machinePool, providerSaw, seen>>
           /\ \A q \in Pool \ {p} : infra'[q] = infra[q]
           /\ infra'[p].finalizers = new
           /\ Past(infra[p].life, infra'[p].life)
           /\ infra'[p].life = "live" <=> infra[p].life = "live"
           /\ infra'[p].life # "absent" /\ infra[p].life # "absent"
BY Lives DEF PatchInfra, Patchable, There, LifeWith, Past, Life, TypeOK, ObjectsTypeOK, InfraRec

\* The cache shows a pool's present, or is filled anew.
LEMMA CacheStep ==
    ASSUME TypeOK, RoleInv, UNCHANGED <<machinePool, infra, providerSaw>>,
           \A p \in Pool : seen'.machinePool[p] \in {seen.machinePool[p], machinePool[p]},
           \A p \in AWSMachinePool :
               /\ seen'.infra[p] \in {seen.infra[p], infra[p].life}
               /\ \/ seen'.machinePool[p] = seen.machinePool[p]
                  \/ seen.infra[p] # "absent"
                  \/ seen'.infra[p] = infra[p].life,
           pc' # "idle" => UNCHANGED <<pc, at, read>>
    PROVE  RoleInv'
<1>1. CacheIsOlder'
  BY DEF RoleInv, CacheIsOlder, Past
<1>2. \A p \in AWSMachinePool : seen.infra[p] # "absent" => seen'.infra[p] # "absent"
  BY Lives DEF RoleInv, CacheIsOlder, Past, Life
<1>3. \A p \in Pool : seen.machinePool[p] # "absent" => seen'.machinePool[p] # "absent"
  BY Lives DEF RoleInv, CacheIsOlder, Past, Life
<1>4. Together'
  BY <1>2, Lives DEF RoleInv, Together
<1>5. AtIsSeen'
  BY <1>3 DEF RoleInv, AtIsSeen, TypeOK
<1>6. TouchedIsSeen'
  BY <1>2 DEF RoleInv, TouchedIsSeen, Touched
<1>7. NoUserIsLive'
  BY DEF RoleInv, NoUserIsLive, Touched
<1> QED
  BY <1>1, <1>4, <1>5, <1>6, <1>7 DEF RoleInv

LEMMA HelmAndCAPIStep ==
    ASSUME TypeOK, RoleInv, NEW p \in Pool, UNCHANGED <<pc, at, read>>,
           Create(p) \/ Delete(p) \/ DeleteInfra(p) \/ PoolGoes(p)
    PROVE  RoleInv'
<1>1. UNCHANGED <<seen, providerSaw>>
  BY DEF Create, Delete, DeleteInfra, PoolGoes
<1>2. \A q \in Pool \ {p} : machinePool'[q] = machinePool[q] /\ infra'[q] = infra[q]
  BY DEF Create, Delete, DeleteInfra, PoolGoes, InfraDeleted, TypeOK, ObjectsTypeOK
<1>3. infra'[p].finalizers = infra[p].finalizers
  BY DEF Create, Delete, DeleteInfra, PoolGoes, InfraDeleted, TypeOK, ObjectsTypeOK, InfraRec
<1>4. Touched(p)' => Touched(p)
  BY <1>1, <1>3 DEF Touched
<1>5. CASE Create(p)
  <2>1. machinePool[p] = "absent" /\ infra[p].life = "absent"
    BY <1>5 DEF Create, RoleInv, Together
  <2>2. machinePool'[p] = "live" /\ infra'[p].life = "live"
    BY <1>5 DEF Create, TypeOK, ObjectsTypeOK, InfraRec
  <2> QED BY <1>1, <1>2, <1>4, <2>1, <2>2, PoolStep DEF Past
<1>6. CASE Delete(p) \/ DeleteInfra(p) \/ PoolGoes(p)
  <2>1. machinePool[p] # "absent" /\ infra[p].life # "absent"
    BY <1>6 DEF Delete, DeleteInfra, PoolGoes, RoleInv, Together
  <2>2. machinePool'[p] # "absent" /\ Past(machinePool[p], machinePool'[p])
    BY <1>6, Lives DEF Delete, DeleteInfra, PoolGoes, Past, Life, TypeOK, ObjectsTypeOK
  <2>3. \/ infra'[p] = infra[p]
        \/ infra[p].life = "live" /\ infra'[p].life \in {"deleting", "gone"}
    BY <1>6 DEF Delete, DeleteInfra, PoolGoes, InfraDeleted, Deleted, LifeWith, TypeOK, ObjectsTypeOK, InfraRec
  <2> QED BY <1>1, <1>2, <1>4, <2>1, <2>2, <2>3, Lives, PoolStep DEF Past, Life
<1> QED
  BY <1>5, <1>6

LEMMA ProviderStep ==
    ASSUME TypeOK, RoleInv, NEW p \in Pool, UNCHANGED <<pc, at, read>>,
           ProviderReads(p) \/ ProviderHolds(p) \/ ProviderIsDone(p)
    PROVE  RoleInv'
<1>1. CASE ProviderReads(p)
  <2>1. UNCHANGED <<machinePool, infra, seen>> /\ providerSaw'[p] = {infra[p].finalizers}
        /\ \A q \in Pool \ {p} : providerSaw'[q] = providerSaw[q]
    BY <1>1 DEF ProviderReads, apiVars, TypeOK, ObjectsTypeOK
  <2>2. Touched(p)' => Touched(p)
    BY <2>1 DEF Touched
  <2> QED BY <2>1, <2>2, PoolStep, Lives DEF RoleInv, Together, Past, Life
<1>2. CASE ProviderHolds(p)
  <2>1. PICK old \in providerSaw[p] :
          LET new == old \union {"provider"} IN
          /\ infra' = IF Patchable(p, new) THEN [infra EXCEPT ![p].finalizers = new] ELSE infra
          /\ providerSaw' = [providerSaw EXCEPT ![p] = {}]
          /\ UNCHANGED <<machinePool, seen>>
    BY <1>2 DEF ProviderHolds
  <2>2. infra'[p].life = infra[p].life
        /\ (infra'[p].finalizers = infra[p].finalizers
            \/ infra'[p].finalizers = old \union {"provider"})
    BY <2>1 DEF TypeOK, ObjectsTypeOK, InfraRec
  <2>3. \A q \in Pool \ {p} : infra'[q] = infra[q] /\ providerSaw'[q] = providerSaw[q]
    BY <2>1 DEF TypeOK, ObjectsTypeOK
  <2>4. providerSaw'[p] = {}
    BY <2>1 DEF TypeOK, ObjectsTypeOK
  <2>5. Touched(p)' => Touched(p)
    BY <2>2, <2>4 DEF Touched
  <2> QED BY <2>1, <2>2, <2>3, <2>5, PoolStep, Lives DEF RoleInv, Together, Past, Life
<1>3. CASE ProviderIsDone(p)
  <2>1. PatchInfra(p, infra[p].finalizers \ {"provider"})
    BY <1>3 DEF ProviderIsDone
  <2> DEFINE new == infra[p].finalizers \ {"provider"}
  <2>2. Touched(p)' => Touched(p)
    BY <2>1, PatchStep DEF Touched
  <2> QED BY <2>1, <2>2, PatchStep, PoolStep, Lives DEF RoleInv, Together, Past, Life
<1> QED
  BY <1>1, <1>2, <1>3

THEOREM RoleInvHolds == Spec => []RoleInv
<1>1. Init => RoleInv
  <2> SUFFICES ASSUME Init PROVE RoleInv
    OBVIOUS
  <2>1. /\ pc = "idle"
        /\ \A p \in Pool : /\ machinePool[p] \in {"absent", "live"}
                           /\ seen.machinePool[p] = machinePool[p]
                           /\ infra[p].life = machinePool[p] /\ ~Touched(p)
        /\ \A p \in AWSMachinePool : seen.infra[p] = machinePool[p] /\ p \in Pool
    BY DEF Init, ObjectsInit, Touched, AWSMachinePool
  <2> QED
    BY <2>1 DEF RoleInv, CacheIsOlder, Past, Together, AtIsSeen, TouchedIsSeen, NoUserIsLive
<1>2. TypeOK /\ RoleInv /\ [Next]_vars => RoleInv'
  <2> SUFFICES ASSUME TypeOK, RoleInv, [Next]_vars PROVE RoleInv'
    OBVIOUS
  <2>1. ASSUME NEW p \in Pool, Begin(p) PROVE RoleInv'
    <3>1. AtIsSeen'
      BY <2>1 DEF Begin, There, poolVars, apiVars, RoleInv, AtIsSeen, CacheIsOlder, Past, TypeOK, ReadRec
    <3>2. CacheIsOlder' /\ Together' /\ TouchedIsSeen' /\ NoUserIsLive'
      BY <2>1 DEF Begin, poolVars, apiVars, RoleInv, CacheIsOlder, Together, TouchedIsSeen, Touched, NoUserIsLive
    <3> QED BY <3>1, <3>2 DEF RoleInv
  <2>2. CASE GetCluster \/ GetInfra
    BY <2>2, QuietStep DEF GetCluster, GetInfra, GotoWith, Return, poolVars, apiVars, TypeOK
  <2>12. CASE GetAWSCluster
    BY <2>12, QuietStep DEF GetAWSCluster, Goto, Dispatch, Return, poolVars, apiVars
  <2>3. CASE AddFinalizer
    <3>1. CASE PatchInfra(at, read.finalizers \union {"operator"}) /\ Goto("ReconcileRole")
      <4>1. at \in Pool
        BY <2>3 DEF AddFinalizer, TypeOK
      <4>2. at \in AWSMachinePool => seen.infra[at] # "absent"
        BY <2>3 DEF AddFinalizer, RoleInv, AtIsSeen, Together
      <4>3. /\ UNCHANGED <<machinePool, providerSaw, seen>>
            /\ \A q \in Pool \ {at} : infra'[q] = infra[q]
            /\ Past(infra[at].life, infra'[at].life)
            /\ infra'[at].life # "absent" /\ infra[at].life # "absent"
        BY <3>1, <4>1, PatchStep
      <4>4. CacheIsOlder'
        BY <4>1, <4>3, Lives DEF RoleInv, CacheIsOlder, Past, Life
      <4>5. Together'
        BY <4>1, <4>3, Lives DEF RoleInv, Together
      <4>6. TouchedIsSeen'
        BY <4>1, <4>2, <4>3, Lives DEF RoleInv, TouchedIsSeen, Touched
      <4>7. AtIsSeen' /\ NoUserIsLive'
        BY <2>3, <3>1, <4>3 DEF AddFinalizer, Goto, RoleInv, AtIsSeen, NoUserIsLive
      <4> QED BY <4>4, <4>5, <4>6, <4>7 DEF RoleInv
    <3>2. CASE UNCHANGED poolVars
      BY <2>3, <3>2, QuietStep DEF AddFinalizer, Goto, Return, poolVars, apiVars
    <3> QED BY <2>3, <3>1, <3>2 DEF AddFinalizer
  <2>4. CASE ReconcileRole \/ DeleteRole
    BY <2>4, QuietStep DEF ReconcileRole, DeleteRole, Goto, Return, poolVars, apiVars
  <2>5. CASE IsRoleUsedElsewhere
    <3>1. ASSUME ~UsedElsewhere(profileOf[at]), NEW p \in AWSMachinePool,
                 profileOf[p] = profileOf[at], Touched(p)
          PROVE  infra[p].life # "live"
      BY <3>1, Lives DEF UsedElsewhere, RoleInv, CacheIsOlder, Past, TouchedIsSeen, Life
    <3>2. UNCHANGED <<machinePool, infra, providerSaw, seen, at, read>>
      BY <2>5 DEF IsRoleUsedElsewhere, Goto, poolVars, apiVars
    <3>3. NoUserIsLive'
      BY <2>5, <3>1, <3>2 DEF IsRoleUsedElsewhere, Goto, NoUserIsLive, Touched
    <3>4. AtIsSeen'
      BY <2>5, <3>2 DEF IsRoleUsedElsewhere, RoleInv, AtIsSeen
    <3> QED BY <3>2, <3>3, <3>4 DEF RoleInv, CacheIsOlder, Together, TouchedIsSeen, Touched
  <2>6. CASE RemoveFinalizer
    <3>1. CASE PatchInfra(at, read.finalizers \ {"operator"}) /\ Return
      <4>1. at \in Pool
        BY <2>6 DEF RemoveFinalizer, TypeOK
      <4>2. /\ UNCHANGED <<machinePool, providerSaw, seen>>
            /\ \A q \in Pool \ {at} : infra'[q] = infra[q]
            /\ infra'[at].finalizers = read.finalizers \ {"operator"}
            /\ Past(infra[at].life, infra'[at].life)
            /\ infra'[at].life # "absent" /\ infra[at].life # "absent"
        BY <3>1, <4>1, PatchStep
      <4>3. CacheIsOlder'
        BY <4>1, <4>2, Lives DEF RoleInv, CacheIsOlder, Past, Life
      <4>4. Together'
        BY <4>1, <4>2, Lives DEF RoleInv, Together
      <4>5. TouchedIsSeen'
        BY <4>1, <4>2, Lives DEF RoleInv, TouchedIsSeen, Touched
      <4>6. AtIsSeen' /\ NoUserIsLive'
        BY <3>1 DEF Return, AtIsSeen, NoUserIsLive
      <4> QED BY <4>3, <4>4, <4>5, <4>6 DEF RoleInv
    <3>2. CASE UNCHANGED poolVars
      BY <2>6, <3>2, QuietStep DEF RemoveFinalizer, GotoWith, Return, poolVars, apiVars, TypeOK
    <3> QED BY <2>6, <3>1, <3>2 DEF RemoveFinalizer
  <2>7. CASE Fault
    <3>1. CASE CallFails
      BY <3>1, QuietStep DEF CallFails, Return, poolVars, apiVars
    <3>2. CASE Restart
      BY <3>2, CacheStep, Lives DEF Restart, Return, UpToDate, apiVars
    <3> QED BY <2>7, <3>1, <3>2 DEF Fault
  <2>8. CASE Elsewhere
    <3>1. UNCHANGED <<pc, at, read>>
      BY <2>8 DEF Elsewhere, Besides, controllerVars
    <3>2. CASE AWSClusterGoes \/ ClusterGoes
      BY <3>1, <3>2, CacheStep DEF AWSClusterGoes, ClusterGoes, apiVars, TypeOK, ObjectsTypeOK
    <3>3. ASSUME NEW p \in Pool, Synchronise(p) PROVE RoleInv'
      <4>1. UNCHANGED <<machinePool, infra, providerSaw>>
        BY <3>3 DEF Synchronise, SyncPool, SyncInfra, apiVars
      <4>2. CASE SyncPool(p)
        BY <3>1, <4>1, <4>2, CacheStep DEF SyncPool, TypeOK, ObjectsTypeOK
      <4>3. CASE SyncInfra(p)
        BY <3>1, <4>1, <4>3, CacheStep DEF SyncInfra, TypeOK, ObjectsTypeOK
      <4> QED BY <3>3, <4>2, <4>3 DEF Synchronise
    <3>4. ASSUME NEW p \in Pool, Create(p) \/ Delete(p) \/ Due(p) PROVE RoleInv'
      BY <3>1, <3>4, HelmAndCAPIStep, ProviderStep DEF Due
    <3> QED BY <2>8, <3>2, <3>3, <3>4 DEF Elsewhere, Besides
  <2>9. CASE UNCHANGED vars
    BY <2>9 DEF vars, poolVars, apiVars, controllerVars, RoleInv, CacheIsOlder, Together,
       AtIsSeen, TouchedIsSeen, NoUserIsLive, Touched
  <2> QED
    BY <2>1, <2>2, <2>3, <2>4, <2>5, <2>6, <2>7, <2>8, <2>9, <2>12 DEF Next, Working
<1> QED
  BY <1>1, <1>2, TypeCorrect, PTL DEF Spec

\* Where no KarpenterMachinePool shares its profile with another pool, which
\* isRoleUsedElsewhere would not find, no step takes the role of a pool that
\* stays and has been reconciled.
THEOREM UsersKeepTheirRoles ==
    ASSUME \A p \in Karpenter, q \in Pool : profileOf[p] = profileOf[q] => p = q
    PROVE  Spec => UsedRolesStay
<1>1. TypeOK /\ RoleInv /\ [Next]_vars =>
        \A p \in Pool : /\ machinePool[p] = "live" /\ infra[p].life = "live"
                        /\ "operator" \in infra[p].finalizers
                        /\ profileOf[p] \in role
                        => profileOf[p] \in role'
  <2> SUFFICES ASSUME TypeOK, RoleInv, [Next]_vars, NEW p \in Pool,
                      machinePool[p] = "live", infra[p].life = "live",
                      "operator" \in infra[p].finalizers, profileOf[p] \in role
               PROVE  profileOf[p] \in role'
    OBVIOUS
  <2>1. CASE DeleteRole
    <3>1. at \in Pool /\ machinePool[at] # "live"
      BY <2>1 DEF DeleteRole, TypeOK, Deletion, RoleInv, AtIsSeen
    <3>2. ASSUME p \in AWSMachinePool PROVE profileOf[p] # profileOf[at]
      BY <2>1, <3>2 DEF DeleteRole, RoleInv, NoUserIsLive, Touched
    <3>3. ASSUME p \in Karpenter PROVE profileOf[p] # profileOf[at]
      BY <3>1, <3>3
    <3> QED BY <2>1, <3>2, <3>3 DEF DeleteRole, AWSMachinePool
  <2>2. CASE ReconcileRole
    BY <2>2 DEF ReconcileRole
  <2>3. ASSUME NEW q \in Pool, Begin(q) PROVE UNCHANGED role
    BY <2>3 DEF Begin
  <2>4. CASE Fault \/ Elsewhere \/ UNCHANGED vars
    BY <2>4 DEF Fault, Elsewhere, Besides, vars
  <2>5. ASSUME Working, ~DeleteRole, ~ReconcileRole PROVE UNCHANGED role
    BY <2>5 DEF Working, GetCluster, GetInfra, GetAWSCluster, AddFinalizer, IsRoleUsedElsewhere, RemoveFinalizer
  <2> QED
    BY <2>1, <2>2, <2>3, <2>4, <2>5 DEF Next
<1> QED
  BY <1>1, TypeCorrect, RoleInvHolds, PTL DEF Spec, UsedRolesStay

-----------------------------------------------------------------------------
(* When a role goes with the last pool that uses it.  RoleGoesWithItsPools *)
(* is false in general: isRoleUsedElsewhere may count the pool itself, and *)
(* the provider's patch may drop the operator's finalizer.  These are the  *)
(* only two ways to leave a role behind, for profiles of one pool each.    *)

\* No AWSMachinePool shares its profile with another pool.
OwnProfiles == \A p \in AWSMachinePool, q \in Pool : profileOf[p] = profileOf[q] => p = q

\* The cache does not show the deletion of a MachinePool before that of its
\* AWSMachinePool.
DeletionIsSeenTogether == \A p \in AWSMachinePool :
    seen.machinePool[p] \in {"deleting", "gone"} => seen.infra[p] # "live"

\* The provider does not patch from a copy older than the operator's finalizer.
ProviderKeepsFinalizer == \A p \in Pool : \A old \in providerSaw[p] :
    "operator" \in infra[p].finalizers => "operator" \in old

GoneIsReleased == \A p \in Pool : /\ infra[p].life = "gone" => infra[p].finalizers = {}
                                  /\ machinePool[p] = "gone" => infra[p].life = "gone"

\* A pool whose role exists has the operator's finalizer.
RolesAreHeld == \A r \in role : \E p \in Pool :
    profileOf[p] = r /\ "operator" \in infra[p].finalizers

\* A reconciliation that makes its pool's role, or will because it need not add
\* the finalizer, has it; one that is about to give it back has no role.
AtIsHeld ==
    /\ pc = "ReconcileRole" => "operator" \in infra[at].finalizers
    /\ pc \in {"GetAWSCluster", "AddFinalizer"} /\ "operator" \in read.finalizers
         => "operator" \in infra[at].finalizers
    /\ pc = "RemoveFinalizer" => profileOf[at] \notin role
    /\ pc # "idle" /\ read.deleting => seen.machinePool[at] \in {"deleting", "gone"}
    /\ LeftToCrossplane => role = {}

HeldInv == GoneIsReleased /\ RolesAreHeld /\ AtIsHeld

\* A role stays held when no pool loses the operator's finalizer.
LEMMA StillHeld ==
    ASSUME RolesAreHeld, role' \subseteq role,
           \A p \in Pool : "operator" \in infra[p].finalizers => "operator" \in infra'[p].finalizers
    PROVE  RolesAreHeld'
BY DEF RolesAreHeld

\* A step of the controller that touches no object and makes no role.
LEMMA QuietHeldStep ==
    ASSUME TypeOK, HeldInv, UNCHANGED <<machinePool, infra, seen>>, role' \subseteq role, AtIsHeld'
    PROVE  HeldInv'
<1>1. RolesAreHeld'
  BY StillHeld DEF HeldInv
<1>2. GoneIsReleased'
  BY DEF HeldInv, GoneIsReleased
<1> QED BY <1>1, <1>2 DEF HeldInv

\* What others do takes no finalizer of the operator's from a pool.
LEMMA OthersHeldStep ==
    ASSUME TypeOK, RoleInv, ProviderKeepsFinalizer, HeldInv, UNCHANGED <<pc, at, read, role>>,
           \/ AWSClusterGoes \/ ClusterGoes
           \/ \E p \in Pool : Create(p) \/ Delete(p) \/ Synchronise(p) \/ Due(p)
    PROVE  HeldInv'
<1> DEFINE Keeps(p) == /\ "operator" \in infra[p].finalizers => "operator" \in infra'[p].finalizers
                       /\ infra'[p].life = "gone" => infra'[p].finalizers = {}
                       /\ machinePool'[p] = "gone" => infra'[p].life = "gone"
<1>1. /\ machinePool \in [Pool -> Life] /\ infra \in [Pool -> InfraRec]
      /\ seen.machinePool \in [Pool -> Life]
  BY DEF TypeOK, ObjectsTypeOK
<1>2. ASSUME NEW p \in Pool, machinePool'[p] = machinePool[p], infra'[p] = infra[p]
      PROVE  Keeps(p)
  BY <1>2 DEF HeldInv, GoneIsReleased
<1>3. ASSUME NEW p \in Pool, Create(p) PROVE Keeps(p)
  BY <1>1, <1>3 DEF Create, HeldInv, GoneIsReleased, InfraRec
<1>4. ASSUME NEW p \in Pool, Delete(p) \/ DeleteInfra(p) \/ PoolGoes(p) PROVE Keeps(p)
  <2>1. /\ infra'[p].finalizers = infra[p].finalizers
        /\ \/ infra'[p].life = infra[p].life
           \/ /\ infra'[p].life \in {"deleting", "gone"}
              /\ infra'[p].life = "gone" => infra[p].finalizers = {}
    BY <1>1, <1>4
       DEF Delete, DeleteInfra, PoolGoes, InfraDeleted, Deleted, LifeWith, InfraRec
  <2>2. machinePool'[p] = "gone" => infra'[p].life = "gone"
    BY <1>1, <1>4 DEF Delete, DeleteInfra, PoolGoes
  <2> QED BY <2>1, <2>2 DEF HeldInv, GoneIsReleased
<1>5. ASSUME NEW p \in Pool, ProviderReads(p) PROVE UNCHANGED <<machinePool, infra>>
  BY <1>5 DEF ProviderReads, apiVars
<1>6. ASSUME NEW p \in Pool, ProviderHolds(p) PROVE Keeps(p) /\ UNCHANGED machinePool
  <2>1. PICK old \in providerSaw[p] :
          LET new == old \union {"provider"} IN
          /\ infra' = IF Patchable(p, new) THEN [infra EXCEPT ![p].finalizers = new] ELSE infra
          /\ UNCHANGED machinePool
    BY <1>6 DEF ProviderHolds
  <2>2. infra'[p] = infra[p]
        \/ /\ infra'[p].life = infra[p].life /\ There(infra[p].life)
           /\ infra'[p].finalizers = old \union {"provider"}
    BY <1>1, <2>1 DEF Patchable, InfraRec
  <2>3. "operator" \in infra[p].finalizers => "operator" \in old
    BY DEF ProviderKeepsFinalizer
  <2> QED BY <1>2, <2>1, <2>2, <2>3 DEF HeldInv, GoneIsReleased, There
<1>7. ASSUME NEW p \in Pool, ProviderIsDone(p) PROVE Keeps(p) /\ UNCHANGED machinePool
  <2>1. /\ infra'[p].finalizers = infra[p].finalizers \ {"provider"}
        /\ infra'[p].life = LifeWith(infra[p].life, infra[p].finalizers \ {"provider"})
        /\ UNCHANGED machinePool /\ There(infra[p].life)
    BY <1>1, <1>7 DEF ProviderIsDone, PatchInfra, Patchable
  <2> QED BY <2>1 DEF LifeWith, There, HeldInv, GoneIsReleased
<1>8. \A p \in Pool : Keeps(p)
  <2>1. CASE AWSClusterGoes \/ ClusterGoes
    BY <1>2, <2>1 DEF AWSClusterGoes, ClusterGoes, apiVars
  <2>2. ASSUME NEW p \in Pool, Create(p) \/ Delete(p) \/ Synchronise(p) \/ Due(p),
               NEW q \in Pool
        PROVE  Keeps(q)
    <3>1. CASE q = p
      <4>1. Synchronise(p) => UNCHANGED <<machinePool, infra>>
        BY DEF Synchronise, SyncPool, SyncInfra, apiVars
      <4> HIDE DEF Keeps
      <4> QED BY <1>2, <1>3, <1>4, <1>5, <1>6, <1>7, <2>2, <3>1, <4>1 DEF Due
    <3>2. CASE q # p
      <4>1. ASSUME Create(p) \/ Delete(p) \/ Synchronise(p) \/ DeleteInfra(p) \/ PoolGoes(p)
            PROVE  machinePool'[q] = machinePool[q] /\ infra'[q] = infra[q]
        BY <1>1, <3>2, <4>1
           DEF Create, Delete, Synchronise, SyncPool, SyncInfra, DeleteInfra, PoolGoes,
               InfraDeleted, apiVars
      <4>2. ASSUME ProviderReads(p) \/ ProviderHolds(p) \/ ProviderIsDone(p)
            PROVE  machinePool'[q] = machinePool[q] /\ infra'[q] = infra[q]
        BY <1>1, <3>2, <4>2
           DEF ProviderReads, ProviderHolds, ProviderIsDone, PatchInfra, apiVars
      <4> QED BY <1>2, <2>2, <4>1, <4>2 DEF Due
    <3> QED BY <3>1, <3>2
  <2> QED BY <2>1, <2>2
<1>9. GoneIsReleased' /\ RolesAreHeld'
  BY <1>8, StillHeld DEF GoneIsReleased, HeldInv
<1>10. \A p \in Pool : seen.machinePool[p] \in {"deleting", "gone"}
                      => seen'.machinePool[p] \in {"deleting", "gone"}
  <2>1. ASSUME NEW p \in Pool, Synchronise(p), NEW q \in Pool
        PROVE  seen'.machinePool[q] \in {seen.machinePool[q], machinePool[q]}
    BY <2>1 DEF Synchronise, SyncPool, SyncInfra, TypeOK, ObjectsTypeOK
  <2>2. ASSUME NEW p \in Pool, Create(p) \/ Delete(p) \/ Due(p) PROVE seen' = seen
    BY <2>2
       DEF Create, Delete, Due, DeleteInfra, PoolGoes, ProviderReads, ProviderHolds,
           ProviderIsDone, PatchInfra, apiVars
  <2>3. \A q \in Pool : seen'.machinePool[q] \in {seen.machinePool[q], machinePool[q]}
    BY <2>1, <2>2 DEF AWSClusterGoes, ClusterGoes, TypeOK, ObjectsTypeOK
  <2> QED BY <2>3 DEF RoleInv, CacheIsOlder, Past
<1>11. pc # "idle" => at \in Pool
  BY DEF TypeOK
<1>12. AtIsHeld'
  BY <1>8, <1>10, <1>11 DEF HeldInv, AtIsHeld, LeftToCrossplane
<1> QED BY <1>9, <1>12 DEF HeldInv

\* No pool is found to use the role of the one under deletion.
LEMMA NobodyElse ==
    ASSUME OwnProfiles, TypeOK, DeletionIsSeenTogether, AtIsHeld, pc \in Deletion
    PROVE  ~UsedElsewhere(profileOf[at])
<1>1. at \in Pool /\ read.deleting /\ pc # "idle"
  BY DEF TypeOK, Deletion
<1>2. seen.machinePool[at] \in {"deleting", "gone"}
  BY <1>1 DEF AtIsHeld
<1> QED BY <1>1, <1>2 DEF UsedElsewhere, DeletionIsSeenTogether, OwnProfiles

LEMMA HeldStep ==
    ASSUME OwnProfiles, TypeOK, RoleInv, DeletionIsSeenTogether, ProviderKeepsFinalizer,
           HeldInv, [Next]_vars
    PROVE  HeldInv'
<1>1. /\ infra \in [Pool -> InfraRec] /\ (pc # "idle" => at \in Pool)
      /\ read \in ReadRec /\ (pc \in Deletion => read.deleting) /\ (pc \in Normal => ~read.deleting)
  BY DEF TypeOK, ObjectsTypeOK, ReadRec
<1>2. AtIsHeld
  BY DEF HeldInv
<1>3. Return /\ role' \subseteq role => AtIsHeld'
  BY <1>2 DEF Return, AtIsHeld, LeftToCrossplane
<1>4. ASSUME NEW p \in Pool, Begin(p) PROVE HeldInv'
  <2>1. AtIsHeld'
    BY <1>1, <1>2, <1>4 DEF Begin, AtIsHeld, ReadRec, LeftToCrossplane, poolVars
  <2> QED BY <1>4, <2>1, QuietHeldStep DEF Begin, poolVars, apiVars
<1>5. CASE GetCluster \/ GetInfra
  <2>1. /\ UNCHANGED <<machinePool, infra, seen, role>> /\ pc # "idle"
        /\ \/ Return
           \/ /\ pc' \in {"GetInfra", "GetAWSCluster"} /\ at' = at
              /\ read'.deleting = read.deleting
              /\ pc' = "GetAWSCluster" => read'.finalizers = infra[at].finalizers
    BY <1>1, <1>5 DEF GetCluster, GetInfra, GotoWith, ReadRec, poolVars, apiVars
  <2>2. AtIsHeld'
    BY <1>2, <1>3, <2>1 DEF AtIsHeld, LeftToCrossplane
  <2> QED BY <2>1, <2>2, QuietHeldStep
<1>14. CASE GetAWSCluster
  <2>1. /\ UNCHANGED <<machinePool, infra, seen, role>>
        /\ pc = "GetAWSCluster"
        /\ \/ Return
           \/ /\ pc' \in {"IsRoleUsedElsewhere", "AddFinalizer"} /\ at' = at /\ read' = read
    BY <1>14 DEF GetAWSCluster, Goto, Dispatch, poolVars, apiVars
  <2>2. AtIsHeld'
    BY <1>2, <1>3, <2>1 DEF AtIsHeld, LeftToCrossplane
  <2> QED BY <2>1, <2>2, QuietHeldStep
<1>6. CASE AddFinalizer
  <2>1. CASE "operator" \in read.finalizers /\ Goto("ReconcileRole") /\ UNCHANGED poolVars
    <3>1. AtIsHeld'
      BY <1>1, <1>2, <1>6, <2>1
         DEF AddFinalizer, Goto, AtIsHeld, LeftToCrossplane, poolVars, apiVars, Normal
    <3> QED BY <1>6, <2>1, <3>1, QuietHeldStep DEF AddFinalizer, poolVars, apiVars
  <2>2. CASE PatchInfra(at, read.finalizers \union {"operator"}) /\ Goto("ReconcileRole")
    <3>1. at \in Pool /\ pc \in Normal /\ role' = role
      BY <1>1, <1>6 DEF AddFinalizer, Normal
    <3>2. /\ UNCHANGED <<machinePool, seen>>
          /\ \A q \in Pool \ {at} : infra'[q] = infra[q]
          /\ infra'[at].finalizers = read.finalizers \union {"operator"}
      BY <2>2, <3>1, PatchStep
    <3>3. infra'[at].life # "gone" /\ infra[at].life # "gone"
      BY <1>1, <2>2, <3>1 DEF PatchInfra, Patchable, There, LifeWith
    <3>4. GoneIsReleased'
      BY <3>2, <3>3 DEF HeldInv, GoneIsReleased
    <3>5. RolesAreHeld'
      BY <3>1, <3>2, StillHeld DEF HeldInv
    <3>6. AtIsHeld'
      BY <1>1, <1>2, <2>2, <3>1, <3>2 DEF Goto, AtIsHeld, LeftToCrossplane
    <3> QED BY <3>4, <3>5, <3>6 DEF HeldInv
  <2>3. CASE Return /\ UNCHANGED poolVars
    BY <1>3, <1>6, <2>3, QuietHeldStep DEF AddFinalizer, poolVars, apiVars
  <2> QED BY <1>6, <2>1, <2>2, <2>3 DEF AddFinalizer
<1>7. CASE ReconcileRole
  <2>1. at \in Pool /\ "operator" \in infra[at].finalizers
    BY <1>1, <1>2, <1>7 DEF ReconcileRole, AtIsHeld
  <2>2. UNCHANGED <<machinePool, infra>>
    BY <1>7 DEF ReconcileRole, poolVars, apiVars
  <2>3. RolesAreHeld'
    BY <1>7, <2>1, <2>2 DEF ReconcileRole, HeldInv, RolesAreHeld
  <2>4. AtIsHeld'
    BY <1>2, <1>7 DEF ReconcileRole, Return, AtIsHeld, LeftToCrossplane
  <2>5. GoneIsReleased'
    BY <2>2 DEF HeldInv, GoneIsReleased
  <2> QED BY <2>3, <2>4, <2>5 DEF HeldInv
<1>8. CASE IsRoleUsedElsewhere
  <2>1. pc' = "DeleteRole" /\ UNCHANGED <<at, read, role, seen, infra>>
    BY <1>2, <1>8, NobodyElse DEF IsRoleUsedElsewhere, Goto, Deletion, poolVars, apiVars
  <2>2. AtIsHeld'
    BY <1>2, <1>8, <2>1 DEF IsRoleUsedElsewhere, AtIsHeld, LeftToCrossplane
  <2> QED BY <1>8, <2>2, QuietHeldStep DEF IsRoleUsedElsewhere, poolVars, apiVars
<1>9. CASE DeleteRole
  <2>1. /\ pc' = "RemoveFinalizer" /\ UNCHANGED <<at, read, seen, infra>>
        /\ role' \subseteq role /\ profileOf[at] \notin role'
    BY <1>2, <1>9 DEF DeleteRole, Goto, AtIsHeld, poolVars, apiVars
  <2>2. AtIsHeld'
    BY <1>2, <1>9, <2>1 DEF DeleteRole, AtIsHeld, LeftToCrossplane
  <2> QED BY <1>9, <2>1, <2>2, QuietHeldStep DEF DeleteRole, poolVars, apiVars
<1>10. CASE RemoveFinalizer
  <2>1. CASE Return /\ UNCHANGED poolVars
    BY <1>3, <1>10, <2>1, QuietHeldStep DEF RemoveFinalizer, poolVars, apiVars
  <2>2. CASE PatchInfra(at, read.finalizers \ {"operator"}) /\ Return
    <3>1. at \in Pool /\ role' = role /\ profileOf[at] \notin role
      BY <1>1, <1>2, <1>10 DEF RemoveFinalizer, AtIsHeld
    <3>2. /\ UNCHANGED <<machinePool, seen>>
          /\ \A q \in Pool \ {at} : infra'[q] = infra[q]
          /\ infra'[at].finalizers = read.finalizers \ {"operator"}
      BY <2>2, <3>1, PatchStep
    <3>3. /\ infra[at].life # "gone"
          /\ infra'[at].life = "gone" => infra'[at].finalizers = {}
      BY <1>1, <2>2, <3>1, <3>2 DEF PatchInfra, Patchable, There, LifeWith
    <3>4. GoneIsReleased'
      BY <3>2, <3>3 DEF HeldInv, GoneIsReleased
    <3>5. RolesAreHeld'
      BY <3>1, <3>2 DEF HeldInv, RolesAreHeld
    <3>6. AtIsHeld'
      BY <1>3, <2>2, <3>1
    <3> QED BY <3>4, <3>5, <3>6 DEF HeldInv
  <2>3. CASE /\ GotoWith("RemoveFinalizer", [read EXCEPT !.finalizers = infra[at].finalizers,
                                                         !.attempt = @ + 1])
             /\ UNCHANGED poolVars
    <3>1. /\ pc' = "RemoveFinalizer" /\ at' = at /\ read'.deleting = read.deleting
          /\ UNCHANGED <<machinePool, infra, seen, role>>
      BY <1>1, <1>10, <2>3 DEF RemoveFinalizer, GotoWith, ReadRec, poolVars, apiVars
    <3>2. AtIsHeld'
      BY <1>2, <1>10, <3>1 DEF RemoveFinalizer, AtIsHeld, LeftToCrossplane
    <3> QED BY <3>1, <3>2, QuietHeldStep
  <2> QED BY <1>10, <2>1, <2>2, <2>3 DEF RemoveFinalizer
<1>11. CASE Fault
  <2>1. Return /\ UNCHANGED <<machinePool, infra, role>>
    BY <1>11 DEF Fault, CallFails, Restart, poolVars, apiVars
  <2>2. AtIsHeld'
    BY <1>3, <2>1
  <2>3. GoneIsReleased' /\ RolesAreHeld'
    BY <2>1, StillHeld DEF HeldInv, GoneIsReleased
  <2> QED BY <2>2, <2>3 DEF HeldInv
<1>12. CASE Elsewhere
  BY <1>12, OthersHeldStep DEF Elsewhere, Besides, controllerVars
<1>13. CASE UNCHANGED vars
  <2>1. UNCHANGED <<machinePool, infra, seen, role, pc, at, read>>
    BY <1>13 DEF vars, poolVars, apiVars, controllerVars
  <2> QED BY <1>2, <2>1, QuietHeldStep DEF AtIsHeld, LeftToCrossplane
<1> QED
  BY <1>4, <1>5, <1>6, <1>7, <1>8, <1>9, <1>10, <1>11, <1>12, <1>13, <1>14
     DEF Next, Working

\* Where no AWSMachinePool shares its profile, a role goes with the last pool
\* that uses it ("Check for other resources using the same IAM instance profile
\* ...", CHANGELOG.md, 0.4.3), as long as the cache shows the deletion of both
\* its objects together and the provider does not drop the operator's finalizer.
THEOREM RolesGoWithPools ==
    ASSUME OwnProfiles
    PROVE  Spec /\ []DeletionIsSeenTogether /\ []ProviderKeepsFinalizer
               => []RoleGoesWithItsPools
<1>1. Init => HeldInv
  BY DEF Init, ObjectsInit, HeldInv, GoneIsReleased, RolesAreHeld, AtIsHeld
<1>2. /\ TypeOK /\ RoleInv /\ DeletionIsSeenTogether /\ ProviderKeepsFinalizer /\ HeldInv
      /\ [Next]_vars
      => HeldInv'
  BY HeldStep
<1>3. HeldInv => RoleGoesWithItsPools
  BY DEF HeldInv, RolesAreHeld, GoneIsReleased, RoleGoesWithItsPools
<1> QED
  BY <1>1, <1>2, <1>3, TypeCorrect, RoleInvHolds, PTL DEF Spec
=============================================================================
