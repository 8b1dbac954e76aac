----------------------------- MODULE PoolObjects -----------------------------
(***************************************************************************)
(* The node pools of a cluster: for each a MachinePool of Cluster API's    *)
(* and the infrastructure object it refers to, an AWSMachinePool or a      *)
(* KarpenterMachinePool, as the API server has them and as the operator's  *)
(* informer cache shows them, and what Helm, Cluster API (CAPI) and the    *)
(* infrastructure's own controller (the provider) do to them.  Of the      *)
(* Cluster and the AWSCluster, which this part of the operator only reads, *)
(* there are the cache's copies alone.  All of it is outside the           *)
(* repository.                                                             *)
(***************************************************************************)
EXTENDS Naturals, KubernetesObject

CONSTANTS
    Pool,       \* node pools
    Karpenter,  \* those whose infrastructure is a KarpenterMachinePool
    Provided,   \* those whose provider holds the infrastructure object too
    Old,        \* those that are there when the operator comes
    Profile,    \* names of instance profiles, and so of roles
    profileOf   \* [Pool -> Profile]: the infrastructure's instance profile

ASSUME PoolAssumption == /\ Karpenter \subseteq Pool
                         /\ Provided \subseteq Pool /\ Old \subseteq Pool
                         /\ profileOf \in [Pool -> Profile]

AWSMachinePool == Pool \ Karpenter

Finalizer == {"operator", "provider"}

VARIABLES
    machinePool,  \* [Pool -> Life]
    infra,        \* the infrastructure objects
    providerSaw,  \* the finalizers the provider has read and will add its own to
    seen          \* the cache: older copies; of the infrastructure objects the
                  \* AWSMachinePools only, the others are read from the API; and
                  \* whether the Cluster and the AWSCluster are there

apiVars == <<machinePool, infra>>
poolVars == <<apiVars, providerSaw, seen>>

InfraRec == [life : Life, finalizers : SUBSET Finalizer]

ObjectsTypeOK ==
    /\ machinePool \in [Pool -> Life]
    /\ infra \in [Pool -> InfraRec]
    /\ providerSaw \in [Pool -> SUBSET SUBSET Finalizer]
    /\ seen \in [machinePool : [Pool -> Life], infra : [AWSMachinePool -> Life],
                 cluster : BOOLEAN, awsCluster : BOOLEAN]

\* The cache is up to date, and the operator's finalizer is on no object.
ObjectsInit ==
    /\ machinePool = [p \in Pool |-> IF p \in Old THEN "live" ELSE "absent"]
    /\ infra = [p \in Pool |-> [life |-> machinePool[p], finalizers |-> {}]]
    /\ providerSaw = [p \in Pool |-> {}]
    /\ seen = [machinePool |-> machinePool, infra |-> [p \in AWSMachinePool |-> machinePool[p]],
               cluster |-> TRUE, awsCluster |-> TRUE]

-----------------------------------------------------------------------------
(* A merge patch of an infrastructure object's finalizers.  It replaces    *)
(* the whole list and carries no resource version, so that a patch made    *)
(* from an old copy undoes what others have done since.                    *)

Patchable(p, new) == /\ There(infra[p].life)
                     /\ Accepts(infra[p].life, infra[p].finalizers, new)

PatchInfra(p, new) ==
    /\ Patchable(p, new)
    /\ infra' = [infra EXCEPT
           ![p] = [life |-> LifeWith(@.life, new), finalizers |-> new]]
    /\ UNCHANGED <<machinePool, providerSaw, seen>>

-----------------------------------------------------------------------------
(* The informer cache.  Helm makes an infrastructure object before the     *)
(* MachinePool that refers to it, and the watches keep step so far that    *)
(* the cache has the one when it gets the other.                           *)

SyncPool(p) ==
    /\ seen.machinePool[p] # machinePool[p]
    /\ p \in AWSMachinePool => seen.infra[p] # "absent"
    /\ seen' = [seen EXCEPT !.machinePool[p] = machinePool[p]]
    /\ UNCHANGED <<apiVars, providerSaw>>

SyncInfra(p) ==
    /\ p \in AWSMachinePool /\ seen.infra[p] # infra[p].life
    /\ seen' = [seen EXCEPT !.infra[p] = infra[p].life]
    /\ UNCHANGED <<apiVars, providerSaw>>

UpToDate == [seen EXCEPT !.machinePool = machinePool,
                         !.infra = [p \in AWSMachinePool |-> infra[p].life]]

Synchronise(p) == SyncPool(p) \/ SyncInfra(p)

(* The Cluster and the AWSCluster go, in the cache.  Helm deletes a        *)
(* cluster's pools and its AWSCluster at the same time: no pool is live    *)
(* any more when the AWSCluster goes, which does not say that the pools    *)
(* have gone.  CAPI keeps the Cluster till all of them have.               *)

AWSClusterGoes ==
    /\ seen.awsCluster
    /\ \A p \in Pool : machinePool[p] # "live"
    /\ seen' = [seen EXCEPT !.awsCluster = FALSE]
    /\ UNCHANGED <<apiVars, providerSaw>>

ClusterGoes ==
    /\ seen.cluster /\ ~seen.awsCluster
    /\ \A p \in Pool : machinePool[p] \in {"absent", "gone"}
    /\ seen' = [seen EXCEPT !.cluster = FALSE]
    /\ UNCHANGED <<apiVars, providerSaw>>

(* Helm.                                                                   *)

Create(p) ==
    /\ seen.awsCluster /\ machinePool[p] = "absent"
    /\ machinePool' = [machinePool EXCEPT ![p] = "live"]
    /\ infra' = [infra EXCEPT ![p].life = "live"]
    /\ UNCHANGED <<providerSaw, seen>>

InfraDeleted(p) == [infra EXCEPT ![p].life = Deleted(@, infra[p].finalizers)]

\* Helm deletes both objects of a pool; what it leaves, CAPI deletes.
Delete(p) ==
    /\ machinePool[p] = "live"
    /\ machinePool' = [machinePool EXCEPT ![p] = "deleting"]
    /\ infra' \in {infra, InfraDeleted(p)}
    /\ UNCHANGED <<providerSaw, seen>>

(* CAPI and the provider.  They let a paused cluster alone, too, but go by *)
(* their own caches, so that they may act at any time.                     *)

DeleteInfra(p) ==
    /\ machinePool[p] = "deleting" /\ infra[p].life = "live"
    /\ infra' = InfraDeleted(p)
    /\ UNCHANGED <<machinePool, providerSaw, seen>>

PoolGoes(p) ==
    /\ machinePool[p] = "deleting" /\ infra[p].life = "gone"
    /\ machinePool' = [machinePool EXCEPT ![p] = "gone"]
    /\ UNCHANGED <<infra, providerSaw, seen>>

ProviderReads(p) ==
    /\ p \in Provided
    /\ infra[p].life = "live" /\ "provider" \notin infra[p].finalizers
    /\ providerSaw[p] = {}
    /\ providerSaw' = [providerSaw EXCEPT ![p] = {infra[p].finalizers}]
    /\ UNCHANGED <<apiVars, seen>>

ProviderHolds(p) == \E old \in providerSaw[p] :
    LET new == old \union {"provider"} IN
    /\ infra' = IF Patchable(p, new) THEN [infra EXCEPT ![p].finalizers = new] ELSE infra
    /\ providerSaw' = [providerSaw EXCEPT ![p] = {}]
    /\ UNCHANGED <<machinePool, seen>>

\* The machines of the pool are terminated.  A patch that removes a finalizer
\* undoes nothing, even if it is from an old copy: that copy showed the deletion
\* already, and the API server does not let an old finalizer come back.
ProviderIsDone(p) ==
    /\ infra[p].life = "deleting" /\ "provider" \in infra[p].finalizers
    /\ PatchInfra(p, infra[p].finalizers \ {"provider"})

\* What nobody can leave undone for ever, unless the Cluster stays paused.
Due(p) == \/ DeleteInfra(p) \/ PoolGoes(p)
          \/ ProviderReads(p) \/ ProviderHolds(p) \/ ProviderIsDone(p)
=============================================================================
