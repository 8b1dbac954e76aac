------------------------ MODULE MachinePoolController ------------------------
(***************************************************************************)
(* controllers/machinepool_controller.go: the one goroutine that takes     *)
(* MachinePools from its work queue and reconciles them, call by call.  It *)
(* watches MachinePools only; the infrastructure object, on which it puts  *)
(* its finalizer, it reads from the API and not from the cache.  A call of *)
(* pkg/iam, which IAMService refines, is one step here.                    *)
(***************************************************************************)
EXTENDS PoolObjects

CONSTANTS
    NoPool,            \* between two reconciliations
    Release,           \* the cluster's release, by its major version
    maxPatchAttempts,
    MaxFaults          \* how often a call fails or the operator restarts

ASSUME ControllerAssumption == /\ Release \in Nat
                               /\ maxPatchAttempts \in Nat \ {0}
                               /\ MaxFaults \in Nat

VARIABLES
    pc,    \* the controller's next step, "idle" between two reconciliations
    at,    \* the pool it reconciles
    read,  \* what it has read: whether the MachinePool has a deletion timestamp
           \* and its Cluster is paused, the infrastructure object's finalizers
           \* and the patch attempt
    role,  \* the profiles whose IAM role exists
    faults

controllerVars == <<pc, at, read>>
vars == <<poolVars, controllerVars, role, faults>>

Normal == {"AddFinalizer", "ReconcileRole"}
Deletion == {"IsRoleUsedElsewhere", "DeleteRole", "RemoveFinalizer"}
Steps == {"GetCluster", "GetInfra", "GetAWSCluster"} \union Normal \union Deletion

\* A pool is reconciled normally or deleted by its MachinePool's life alone.
TypeOK == /\ ObjectsTypeOK
          /\ pc \in Steps \union {"idle"}
          /\ at \in Pool \union {NoPool} /\ (pc # "idle" => at \in Pool)
          /\ (pc \in Normal => ~read.deleting) /\ (pc \in Deletion => read.deleting)
          /\ read \in [deleting : BOOLEAN, paused : BOOLEAN,
                       finalizers : SUBSET Finalizer, attempt : 1 .. maxPatchAttempts]
          /\ role \subseteq Profile
          /\ faults \in 0 .. MaxFaults

\* What a reconciliation has read, it forgets when it returns.
Nothing == [deleting |-> FALSE, paused |-> FALSE, finalizers |-> {}, attempt |-> 1]

Init == /\ ObjectsInit
        /\ pc = "idle"
        /\ at = NoPool
        /\ read = Nothing
        /\ role = {}
        /\ faults = 0

-----------------------------------------------------------------------------
Goto(step) == pc' = step /\ UNCHANGED <<at, read>>

GotoWith(step, known) == pc' = step /\ read' = known /\ UNCHANGED at

\* Reconcile returns.  With an error it is queued again, with nil it waits for
\* the pool's next event or for the cache's periodic resynchronisation: it has
\* not seen its last reconciliation as long as the cache has its MachinePool.
Return == pc' = "idle" /\ at' = NoPool /\ read' = Nothing

\* The MachinePool, as the cache has it.
Begin(p) ==
    /\ pc = "idle" /\ There(seen.machinePool[p])
    /\ pc' = "GetCluster" /\ at' = p
    /\ read' = [read EXCEPT !.deleting = (seen.machinePool[p] = "deleting")]
    /\ UNCHANGED <<poolVars, role, faults>>

\* GetClusterByName, from the cache, too.  Somebody may pause and unpause the
\* Cluster at any time: whether it is paused matters only here.
GetCluster ==
    /\ pc = "GetCluster"
    /\ \/ /\ seen.cluster
          /\ \E paused \in BOOLEAN : GotoWith("GetInfra", [read EXCEPT !.paused = paused])
       \/ ~seen.cluster /\ Return
    /\ UNCHANGED <<poolVars, role, faults>>

\* external.Get
GetInfra ==
    /\ pc = "GetInfra"
    /\ \/ /\ There(infra[at].life)
          /\ GotoWith("GetAWSCluster", [read EXCEPT !.finalizers = infra[at].finalizers])
       \/ ~There(infra[at].life) /\ Return
    /\ UNCHANGED <<poolVars, role, faults>>

\* Mutant: the deletion that counts is the infrastructure object's.
DispatchOnInfra ==
    IF infra[at].life = "deleting" THEN "IsRoleUsedElsewhere" ELSE "AddFinalizer"

Dispatch == IF read.deleting THEN "IsRoleUsedElsewhere" ELSE "AddFinalizer"

\* GetAWSClusterByName, which names the AWS account.  Without it there is an
\* error, for good once the AWSCluster has gone.  A paused Cluster's pool is
\* left alone, also when it is being deleted.  Then the choice of what to do.
GetAWSCluster ==
    /\ pc = "GetAWSCluster"
    /\ \/ seen.awsCluster /\ ~read.paused /\ Goto(Dispatch)
       \/ ~seen.awsCluster /\ Return
       \/ seen.awsCluster /\ read.paused /\ Return
    /\ UNCHANGED <<poolVars, role, faults>>

(* reconcileNormal *)

AddFinalizer ==
    LET new == read.finalizers \union {"operator"} IN
    /\ pc = "AddFinalizer"
    /\ \/ "operator" \in read.finalizers /\ Goto("ReconcileRole") /\ UNCHANGED poolVars
       \/ "operator" \notin read.finalizers /\ PatchInfra(at, new) /\ Goto("ReconcileRole")
       \/ /\ "operator" \notin read.finalizers /\ ~Patchable(at, new)
          /\ Return /\ UNCHANGED poolVars
    /\ UNCHANGED <<role, faults>>

\* From 34 on the roles of nodes are Crossplane's.
LeftToCrossplane == Release >= 34

\* Mutant: the role is made only when the finalizer is new.
ReconcileRoleOnce ==
    /\ pc = "ReconcileRole" /\ Return
    /\ role' = IF LeftToCrossplane \/ "operator" \in read.finalizers THEN role
               ELSE role \union {profileOf[at]}
    /\ UNCHANGED <<poolVars, faults>>

ReconcileRole ==
    /\ pc = "ReconcileRole" /\ Return
    /\ role' = IF LeftToCrossplane THEN role ELSE role \union {profileOf[at]}
    /\ UNCHANGED <<poolVars, faults>>

(* reconcileDelete *)

\* Mutant: no other pool is looked for.
NeverUsedElsewhere(r) == FALSE

\* The lists of the cache: a pool counts itself too, as long as it has not seen
\* its AWSMachinePool's deletion, and KarpenterMachinePools do not count.
UsedElsewhere(r) == \E p \in AWSMachinePool : seen.infra[p] = "live" /\ profileOf[p] = r

\* Mutant: a pool whose role is used elsewhere keeps its finalizer.
WaitWhileUsedElsewhere ==
    /\ pc = "IsRoleUsedElsewhere"
    /\ IF UsedElsewhere(profileOf[at]) THEN Return ELSE Goto("DeleteRole")
    /\ UNCHANGED <<poolVars, role, faults>>

IsRoleUsedElsewhere ==
    /\ pc = "IsRoleUsedElsewhere"
    /\ Goto(IF UsedElsewhere(profileOf[at]) THEN "RemoveFinalizer" ELSE "DeleteRole")
    /\ UNCHANGED <<poolVars, role, faults>>

DeleteRole ==
    /\ pc = "DeleteRole" /\ Goto("RemoveFinalizer")
    /\ role' = IF LeftToCrossplane THEN role ELSE role \ {profileOf[at]}
    /\ UNCHANGED <<poolVars, faults>>

\* removeFinalizer.  When the API server refuses the patch, the object is read
\* again, this time from the API, and the patch repeated.
MayRetry == read.attempt < maxPatchAttempts

RemoveFinalizer ==
    LET new == read.finalizers \ {"operator"} IN
    /\ pc = "RemoveFinalizer"
    /\ \/ "operator" \notin read.finalizers /\ Return /\ UNCHANGED poolVars
       \/ "operator" \in read.finalizers /\ PatchInfra(at, new) /\ Return
       \/ /\ "operator" \in read.finalizers /\ ~Patchable(at, new)
          /\ IF There(infra[at].life) /\ MayRetry
             THEN GotoWith("RemoveFinalizer", [read EXCEPT !.finalizers = infra[at].finalizers,
                                                           !.attempt = @ + 1])
             ELSE Return
          /\ UNCHANGED poolVars
    /\ UNCHANGED <<role, faults>>

(* Failures and restarts *)

CallFails == pc # "idle" /\ Return /\ UNCHANGED poolVars

\* The new process lists all objects.
Restart == Return /\ seen' = UpToDate /\ UNCHANGED <<apiVars, providerSaw>>

Fault == /\ faults < MaxFaults /\ faults' = faults + 1
         /\ CallFails \/ Restart
         /\ UNCHANGED role

Working == \/ GetCluster \/ GetInfra \/ GetAWSCluster \/ AddFinalizer \/ ReconcileRole
           \/ IsRoleUsedElsewhere \/ DeleteRole \/ RemoveFinalizer

\* What others do besides the controller.
Besides(A) == A /\ UNCHANGED <<controllerVars, role, faults>>
Elsewhere == \/ Besides(AWSClusterGoes \/ ClusterGoes)
             \/ \E p \in Pool : Besides(\/ Create(p) \/ Delete(p) \/ Synchronise(p)
                                        \/ Due(p))

Next == Working \/ Fault \/ Elsewhere \/ \E p \in Pool : Begin(p)

Spec == Init /\ [][Next]_vars

(* The controller's queue gives every pool its turn, a goroutine does not  *)
(* stop in the middle of a request, every watch brings its events, the     *)
(* cache is resynchronised, CAPI and the provider do what is due.  Nobody  *)
(* has to create or delete anything, or to unpause the Cluster.            *)
FairSpec == /\ Spec
            /\ WF_vars(Working)
            /\ \A p \in Pool : /\ SF_vars(Begin(p))
                               /\ WF_vars(Besides(Synchronise(p)))
                               /\ WF_vars(Besides(Due(p)))

-----------------------------------------------------------------------------
\* No step of the controller deletes the role of a pool that stays and has been
\* reconciled: it is either the deleted pool's alone, or isRoleUsedElsewhere
\* finds the other in a cache that is older than the objects (capa_utils.go).
UsedRolesStay ==
    [][\A p \in Pool : /\ machinePool[p] = "live" /\ infra[p].life = "live"
                       /\ "operator" \in infra[p].finalizers
                       /\ profileOf[p] \in role
                       => profileOf[p] \in role']_vars

\* A pool that is being deleted goes, so that in the end none is, however often
\* the Cluster was paused in between: a reconciliation that finds it paused
\* returns nil and is forgotten, and the operator's finalizer, which the
\* provider's patches may bring back, is still removed.  The exception is the
\* code's: when the AWSCluster, which no pool's finalizer keeps, goes before a
\* pool, every visit ends with an error and the pool stays for ever.
PoolDeletionCompletes == <>[]~read.paused =>
    <>[]\A p \in Pool : machinePool[p] = "deleting" => ~seen.awsCluster

\* A pool that stays ends with its role and with the operator's finalizer,
\* although the provider's first patch may drop the finalizer and the deletion
\* of another pool may take the role before this one is reconciled.
LivePoolsAreServed == <>[]~read.paused =>
    <>[]\A p \in Pool : machinePool[p] = "live" =>
        /\ profileOf[p] \in role
        /\ "operator" \in infra[p].finalizers

\* A role goes with the last pool that uses it: only *other* resources keep it
\* ("Check for other resources using the same IAM instance profile as the
\* resource being deleted and skip deleting the IAM role if others found",
\* CHANGELOG.md, 0.4.3).
RoleGoesWithItsPools == \A r \in role : \E p \in Pool :
    profileOf[p] = r /\ machinePool[p] # "gone"
=============================================================================
