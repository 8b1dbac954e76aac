# capa-iam-operator in TLA+

capa-iam-operator creates and deletes the AWS IAM roles of Cluster API
clusters on AWS (CAPA): the roles of the nodes and the roles that workloads
assume through IRSA. It has little code and many partners: three controllers
that run at once, AWS IAM, Kubernetes' finalizers and caches, CAPI, CAPA, Helm
and Crossplane, which takes the roles over from release 34 on. These modules
state what the operator promises between them, check it with TLC and prove the
most important part with TLAPS.

To run: `tlc -config <run>.cfg <module>` with the pairs of the table of runs
below, `tlapm <module>.tla` for the eight modules of proofs.

## 1. The system

### Components

| component | source | state | operations | modelled in |
|---|---|---|---|---|
| IAM service | `pkg/iam/iam.go` | none of its own; roles, policies and instance profiles in IAM | `ReconcileRole`, `ReconcileRolesForIRSA`, `DeleteRole`, `DeleteRolesForIRSA` | `AWSIAM`, `IAMService`, `IAMServiceRetry`, `RoleOwnership` |
| policy and trust templates | `pkg/iam/*template.go` | none | choice and rendering of a role's documents | `RoleDocuments` (choice and parameters) |
| AWSMachineTemplate controller | `controllers/awsmachinetemplate_controller.go` | finalizers on AWSMachineTemplate and AWSCluster (and, historically, a ConfigMap) | `Reconcile`, `reconcileNormal`, `reconcileDelete` | `ClusterObjects`, `TemplateController` |
| MachinePool controller | `controllers/machinepool_controller.go` | finalizer on the infrastructure object of the pool | `Reconcile`, `reconcileNormal`, `reconcileDelete` | `PoolObjects`, `MachinePoolController` |
| AWSManagedControlPlane controller | `controllers/awsmanagedcontrolplane_controller.go` | finalizer on AWSManagedControlPlane | `Reconcile` | `ManagedControlPlane` |
| finalizers, shared roles | `controllers/capa_utils.go` | none | `removeFinalizer`, `isRoleUsedElsewhere` | in each controller's module |
| lookups and labels | `pkg/key/key.go` | none | `GetAWSClusterByName`, `GetIRSATrustDomains` and others | as guards of `TemplateController`; `RoleDocuments` |
| AWS client, manager, packaging, mocks | `pkg/awsclient`, `main.go`, `helm`, `config`, `pkg/test` | none | | no: plumbing, I/O and test doubles |

### How they interact

`main.go` starts three controllers in one process with leader election. Each is
one goroutine (controller-runtime's default of one concurrent reconciliation)
that takes one object at a time from its queue. A controller reads objects from
an informer cache that lags behind the API server (ConfigMaps, Secrets and the
unstructured infrastructure objects of pools are read directly), patches
finalizers, and builds an `IAMService` for the object on which it calls one or
two operations. An operation is a sequence of AWS calls that returns at the
first error; the controller returns the error and the object goes back in the
queue. Nothing is persisted by the operator itself: after a restart it lists all
objects and begins again.

The controllers share state in two ways. Roles of the same name may be used by
several AWSMachineTemplates and AWSMachinePools: `isRoleUsedElsewhere` decides
whether a deletion spares the role. And every template of a cluster uses the
same finalizer on the one AWSCluster, which holds the region and the identity
without which the operator cannot call AWS at all.

### What is hard

The list with places in the source is under `hazards` in `PROJECT.json`. In
short:

* *Half-done sequences.* A creation is up to seven AWS calls and a deletion at
  least six. Each can fail, succeed with its answer lost, or be the last one
  before a restart, and the retry begins from the first.
* *Others in the account.* Crossplane adopts roles, or creates them first.
  Deletion must spare a role that is Crossplane's or of unknown owner, but the
  check of the tags and the deletion are separate calls.
* *Upgrades.* Helm replaces machine templates; from 34 and 35 on Crossplane
  has the roles. The operator must not take a role from running machines.
* *Order of deletion.* Helm deletes the Cluster and the other objects in any
  order; CAPA removes its finalizers at any time; the cache is old. Templates
  wait ten seconds, control planes come back after five minutes, pools neither.
* *Finalizers without resource versions.* Every patch replaces the list it has
  read, so that two controllers can undo one another's changes.
* *Events that do not come.* The OIDC issuer of an EKS cluster, the end of a
  pause: nothing tells the controller, which has to come back by itself.

## 2. The modules

**`AWSIAM`** is the part of IAM that the operator uses (external): roles with
tags, trust policy, inline and attached policies, and the instance profile that
carries the role's name. A call is its effect when IAM accepts it;
`Deletable` is IAM's rule that a role in use cannot be deleted. Only the tags
`deleteRole` looks at, and only equality of documents, are kept.

**`IAMService`** is `iam.go`. A *worker* is a controller's goroutine; a *job* is
an `IAMServiceConfig` with the operation called on it. `pc[w]` is the AWS call
the worker makes next, `todo[w]` the roles of the loop in
`ReconcileRolesForIRSA`/`DeleteRolesForIRSA` still to treat, `listed[w]` the
policies that `cleanRolePolicies` listed. Each AWS call is an action with the
name of the call; the code between two calls (gates by release, role type and
`clusterIsBeingDeleted`, in `ReconcileEntry`, `DeleteRoleEntry` and
`DeleteRolesForIRSAEntry`, and errors that are tolerated) is part of the action
before it. `Writes(w, lost)` with `lost` is a call that takes effect but whose
answer is an error; `CallFails` has no effect; `Crash` forgets all workers.
`Adopt`, `CreateElsewhere`, `AttachElsewhere` and `RemoveByHand` are Crossplane
and people, switched on by `Environment`; they act between any two calls. AWS lists
a role's tags in any order (`Listings`), and the loop over them (`Ownership`) takes
them in that order. In the initial states IAM contains anything it can, and a resting
worker may have had any of its jobs.

**`RoleOwnership`** is the abstract specification: what the operator promises to the
other tenants of the account, without workers or the order of calls, over the whole
state of `AWSIAM` and one variable of its own. A deletion *condemns* a role, and only
while the role carries the operator's tag and not Crossplane's; only a condemned role is
destroyed, which means deleted, taken out of its profile, or deprived of policies. On
every other role the operator rewrites at most the inline policies of its own names and
the trust policies of the roles for service accounts. That much it does on roles of
anybody's: `attachInlinePolicy` deletes and puts a policy of its name, and
`applyAssumePolicyRole` overwrites a trust policy, whoever made the role. And it does
not promise that a condemned role is still the operator's when it is destroyed: the
tags are read once, and Crossplane may take the role over during the six calls that
follow. `IAMService` implements it (`OthersRolesAreSafe`) with a mapping of three lines:
who is condemned (`Condemned`), which policies the jobs write (`WrittenPolicies`), which
roles' trust policies they keep (`TrustedRoles`).

**`IAMServiceRetry`** is `IAMService` with a bound on how often something goes
wrong and with weak fairness, for what retries lead to in the end.

**`RoleDocuments`** has the pure functions behind a job's documents: the switches
over the role type (`getInlinePolicyTemplate`, `getTrustPolicyTemplate`,
`getServiceAccount`, `roleName`, the list `getIRSARoles`), what parameters each
template asks for and each operation has, and `GetIRSATrustDomains`. A template
is the name of its Go constant. An annotation is the sequence of texts that
`strings.Split` makes of it, each a domain or nothing, with spaces around it or without;
`TrimSpace` takes the spaces off, and `addDomain` compares whole texts, as the loop does.

**`KubernetesObject`** is the life of one object in the API (external): absent,
live, under deletion and kept by finalizers, gone; and the API server's rule that
an object under deletion takes no new finalizer.

**`ClusterObjects`** has the Kubernetes objects of one cluster as the API server
has them (`cluster`, `awsCluster`, `template`) and as the cache shows them
(`seen`), and what Helm, CAPI and CAPA do to them (external). Watches of
different kinds are independent; within a kind the cache jumps to the present
state. A merge patch of finalizers replaces the whole list. The AWSCluster begins with
the finalizers `Before`: as Helm has made it, or as CAPA has left it since. CAPA adds its
finalizer from a copy that it has read before (`capaSaw`), which drops the operator's if
that has come meanwhile.

**`TemplateController`** is the controller of AWSMachineTemplates, one action per
read of the cache, patch or call of `pkg/iam`. `read` is what it has read and
goes on using: the template, the deletion timestamp of the Cluster, the
finalizers of the AWSCluster and the number of the patch attempt. A call of
`pkg/iam` is one step here; how it fails in the middle is `IAMService`'s matter,
and here it is a `Fault` after the step. `Return` stands for every return, with
or without error, as the controller may begin again at any time.

**`PoolObjects`** has the MachinePools of a cluster and their infrastructure
objects, AWSMachinePools or KarpenterMachinePools, in the same two copies, and
what Helm, CAPI and the infrastructure's own controller, the *provider*, do to
them (external). The provider adds its finalizer from a copy of the list it has
read before (`providerSaw`), so that it can drop the operator's finalizer, or
bring it back.

**`MachinePoolController`** is the controller of MachinePools, in the manner of
`TemplateController`. It watches MachinePools only; the infrastructure object it
reads from the API, and the AWSMachinePools that `isRoleUsedElsewhere` lists from
the cache. What becomes of a pool is decided by the MachinePool's deletion
timestamp alone (`Dispatch`). Its queue is not modelled: a reconciliation that
returns an error is repeated, one that returns nil is followed by another when the
pool changes or the cache is resynchronised (every ten hours), so that a pool
in the cache always has another reconciliation ahead of it. Whether the Cluster is
paused is decided by whoever pauses it, each time the controller looks (`GetCluster`);
there is no state behind it. The Cluster and the AWSCluster may go from the cache
(`ClusterGoes`, `AWSClusterGoes`), after which every reconciliation ends with the
lookups' not-found errors.

**`ManagedControlPlane`** is the controller of AWSManagedControlPlanes with its one
object, Cluster, CAPA and EKS. Here the queue matters: `queued` and
`requeueAfter` tell whether anybody will come back, since the role name's
successors, the EKS cluster and its OIDC issuer, come without an event, and so does an
upgrade of the Cluster's release, from 35 on of which the roles are deleted
(`RolesWanted`). `FiveMinutes` is the passing of time. Two variables record what
happened, and no action depends on them except `FiveMinutes`, which lets time pass once
more after the cache shows both deletions: `old`, five minutes have passed since then,
and `overtaken`, CAPA has let the control plane go earlier than that, or before the
visits that were due by then were done.

`MCIAMService`, `MCJobs`, `MCIAMServiceRetry`, `MCTemplateController` and
`MCMachinePoolController` give the constants values for TLC. Definitions whose
comment begins with "Mutant" are wrong on purpose; no specification uses them.
They are there to be put in place of the right definition, to see that a property
notices.

## 3. The runs

| run | module | asks | states |
|---|---|---|---|
| `ownership` | MCIAMService | `TypeOK`, `OthersRolesAreSafe` (refinement), with two workers, Crossplane and people | 266,393 |
| `jobs` | MCJobs | `OkMeansDone`, `NoProfileIsOrphaned`, `RolesOutliveUpgrades`, `SteadyStateIsKept`, `DocumentsAreComplete`, `TrustDomainsAreCentral`, with every kind of job | 706,956 |
| `converges` | MCIAMServiceRetry | `ReconciliationConverges`, `DeletionConverges` | 226,643 |
| `template_deletion` | MCTemplateController | `TypeOK`, `EveryRoleIsHeld`, `AWSClusterGuardsRoles`, `TemplateReleased`, with one template | 111,240 |
| `template_upgrade` | MCTemplateController | `EveryRoleIsHeld`, `ReconciledRolesStay`, with two templates of a control plane and a bastion's | 1,289,641 |
| `machine_pools` | MCMachinePoolController | `TypeOK`, `UsedRolesStay`, `PoolDeletionCompletes`, `LivePoolsAreServed`, with two pools | 319,133 |
| `managed_control_plane` | ManagedControlPlane | `TypeOK`, `RolesGoWithControlPlane`, `ControlPlaneIsServed`, `ControlPlaneDeletionCompletes` | 29,442 |
| `foreign_policy` | MCIAMService | violated: `OnlyOwnedRolesGetPolicies` | |
| `instance_profile` | MCIAMServiceRetry | violated: `InstanceProfileConverges` | |
| `template_stuck` | MCTemplateController | violated: `TemplateDeletionCompletes` | |
| `awscluster_guard` | MCTemplateController | violated: `RolesHaveAWSCluster`, with a control plane's and a bastion's template | |
| `pool_role_left` | MCMachinePoolController | violated: `RoleGoesWithItsPools` | |

With two workers `machine_pools` takes two minutes, `template_upgrade`, `jobs`, `ownership`,
`converges` and `template_deletion` about one each, the others seconds.

### Bounds, and why they are enough

* *Workers.* Two in `ownership`: all interference between controllers is of two
  of them on one role; they are symmetric. One where the question is what a job alone achieves:
  with two jobs of opposite intent on one role neither can promise a result.
* *Roles.* One, when jobs treat one role; two for the loop over IRSA roles (the
  code has six), which is enough for a first, a last and an error between.
* *Jobs.* `jobs` has every operation on either side of what decides it, on roles that
  may have a managed policy and the inline policy of one role type. The main role that
  35 deletes, a pool's role and roles with several inline policies are in `ownership`;
  the proofs are for any jobs and policies.
* *Releases.* 33, 34 and 35, on either side of both gates, and 0 for a label
  that cannot be parsed. The code compares releases and nothing else.
* *Documents.* Two, "as wanted" and "otherwise", so that a policy of the operator's
  name with another text is deleted and put again. One managed policy; none in `converges`,
  whose deletions have inline policies to remove (with one it passes too, in three times
  as long).
* *Inline policies.* In `ownership` two, of which the jobs write one: the other stands
  for somebody else's.
* *Annotations* (`TrustDomainsAreCentral`): two domains and three parts, each padded or
  not, so that a domain can be the primary one, come twice with different padding, and
  come before or after an empty part. The function depends on no state; it is evaluated in the states in which
  the cluster has no role yet.
* *Initial states.* IAM is in any state that satisfies IAM's own rules, so that
  no property of `IAMService` depends on how a history began. That is why failures
  need no bound in its safety runs.
* *`MaxFaults`* (part of the model, not of the code): one or two in the runs
  of `IAMServiceRetry`, since with failures for ever nothing can be promised;
  one in `template_deletion` and `machine_pools` and two in `managed_control_plane`,
  where the initial states are those of new objects. `template_upgrade`
  has none and looks at interleavings. The safety of all three controllers is proved for any number.
* *`Before`.* Empty in `template_deletion`, so that CAPA's first patch can be from a
  copy older than the operator's; CAPA's own in the runs about several templates, which
  must not depend on it.
* *Templates.* A control plane's, the one that replaces it, and a bastion's with
  a role of its own: whatever is true of "another template" needs a second, with
  the same role and with another. The control plane's two are symmetric where
  no liveness is checked.
* *Pools.* Two with one role; one has a provider that holds its object too, the
  other is deleted as soon as the operator lets it go. One is there when the operator
  comes (`Old`), the other is made later. A third pool or a second
  provider adds no other user to the role and makes the instance too large.
* *Releases of a control plane.* 34 and 35 (`Releases`), on either side of the only gate
  for IRSA roles; an upgrade leads from one to the other at any time.
* *`maxPatchAttempts`* is 2 instead of 5: others' finalizers are few, so a patch
  can be refused again only while the copy is old, and with 2 both the
  retry and its exhaustion happen.
* `CHECK_DEADLOCK FALSE` in the controllers' runs: the system does stop, when all
  its objects are gone.

### Assumptions about others

* *Ten seconds* are enough for Helm to delete the Cluster too and for the cache
  to learn of it (`Age`): what the wait at line 96 of the template controller
  relies on.
* Nothing is assumed of what Crossplane and people do in IAM in `ownership`, nor of when.
* CAPA's patch of the AWSCluster's finalizers does not drop the operator's
  (`CAPAKeepsFinalizer`): the hypothesis of `AWSClusterGuardsRoles`, which the code relies
  on without making sure of it. With CAPA's first patch from an old copy the AWSCluster
  can go before the roles even of one template; TLC finds this when the hypothesis is
  dropped.
* CAPA names a control plane's role only after it has put its finalizer on the object, so
  that no list the operator patches from lacks it (`Init` of `ManagedControlPlane`). An
  uninstallation deletes both the Cluster and the control plane.
* CAPA waits for nothing when it deletes an EKS cluster and lets the control plane go.
  `RolesGoWithControlPlane` excepts the runs in which it does so too early (`overtaken`):
  within the first five minutes after the cache shows both deletions, or while the visit
  that is due then is not done, perhaps because its calls fail again and again. The code
  relies on CAPA's needing longer, and an overtaken control plane can leave its roles
  behind: TLC finds this when the exception is dropped.
* Helm deletes the pools and the AWSCluster of a cluster at the same time, so that the
  AWSCluster may go while pools are still under deletion (`AWSClusterGoes`); CAPI keeps the
  Cluster until they have gone (`ClusterGoes`).
* Helm makes the new template before it deletes the one it replaces, and the
  operator has reconciled the new one by then (`Upgrade`); nobody uninstalls a
  release before the operator's finalizer is on its templates (`Uninstall`).
* Helm makes a pool's infrastructure object before its MachinePool, and the cache
  does not get the MachinePool first (`SyncPool`); after that the two
  watches are independent.

### Fairness

`RetrySpec`: weak fairness of starting jobs and of making calls. The controllers
return errors, and controller-runtime puts the object back in the queue; an
AWS call returns, with an error if need be. `FairSpec` of the controllers: weak
fairness of the controller's steps for the same reason, strong fairness of
beginning with an object where there are several (or a pause), as one goroutine
serves them in turn and a queue starves nobody; weak fairness of each watch and of
what CAPI, CAPA, the provider, Helm (once uninstalling) and the clock are due to
do. Creating, upgrading, deleting, pausing or resuming is never required, nor that the
AWSCluster goes. Liveness of pools is claimed for a cluster that is resumed in the end
(`<>[]~read.paused`), and the deletion of pools for as long as their AWSCluster is there:
without it each visit of a deleted pool ends with the error of `GetAWSClusterByName`, for
good, and no finalizer of a pool's keeps the AWSCluster.
The watches need fairness of their own: with the operator adding the AWSCluster's
finalizer for one template and removing it for another, the AWSCluster's events
alone can keep a common fairness condition satisfied.

### What the violated runs show

* `foreign_policy`: `attachInlinePolicy` writes to a role that the operator did not
  create, against the comment above its call.
* `instance_profile`: `createRole` stops at an existing role, so a failure before
  the instance profile is complete is never repaired; a skipped test says it
  should be.
* `template_stuck`: with a restart between the removal of the AWSCluster's finalizer
  and the template's, and the AWSCluster gone by then, no retry gets as far as
  removing the template's finalizer.
* `awscluster_guard`: the first template to go takes the common finalizer off the
  AWSCluster, whether or not other templates have roles. With one template this cannot
  happen (`AWSClusterGuardsRoles` in `template_deletion`, as long as CAPA's patches keep
  the finalizer).
* `pool_role_left`: a MachinePool is deleted before its AWSMachinePool is; the latter
  then counts as *another* user of the role in `isRoleUsedElsewhere`, the role is
  kept, and the finalizer is removed, so that nobody comes back for it. The changelog
  says that only other resources keep a role. Where profiles are not shared, the only
  other way to leave a role behind is the provider's patch, when it drops the
  operator's finalizer (`RolesGoWithPools`, below).

## 4. The proofs

The proofs hold for all values of the constants that satisfy the modules' named
assumptions (`IAMAssumption`, `ServiceAssumption`, `TemplateAssumption`,
`PoolAssumption`, `ControllerAssumption`): any number of workers, roles, templates,
pools, failures, restarts and patch attempts.

**`IAMServiceProofs`**, for any jobs and any environment within the assumption:

* `TypeCorrect`: `Spec => []TypeOK`. The conjunct that matters says that a worker
  inside an operation has a role to work on; every `Head(todo[w])` rests on it.
* `UpgradesSpareRoles`: `Spec => RolesOutliveUpgrades`, if nobody removes roles by
  hand. `RolesOutliveUpgrades` is an action property about the moment of
  deletion, but the decision falls when the job starts. The strengthening
  `Licensed` carries it there: a worker in `deleteRole` has a job that may
  delete, from `Start` (or the loop's next role) to the last call.
* `PromiseKept`: `Spec => OthersRolesAreSafe`, with no assumption on the environment.
  Each step is one of `RoleOwnership`'s or leaves it unchanged. A worker comes to the
  destroying calls only through `DeleteGetRole`, at a moment when the role is the
  operator's own whatever the order in which its tags are listed (`OwnershipOf`), and what
  it destroys from then on is the role it has condemned (`CallCondemns`). That it writes no
  other policies than the jobs' rests on `Licensed`, and that a trust policy is that of a
  job's own role on `AtOwnRoles`.

The lemmas go by call: `CallType`, `CallKeepsTags`, `CallRemoves`, `CallLicense` and
`CallIsPromised` treat each action once, lost answer included.

**`LoneWorkerProofs`** is about workers whose jobs have no role in common (`Apart`), as
far as what a job achieves depends on that. It is so for the three controllers wherever
their objects do not share a profile; where a machine pool and a template share a role,
neither can promise a result for as long as the other has an opposite job. There may be
any number of workers and their calls interleave freely, every call may fail or lose its
answer, the operator may restart at any point, and IAM may begin in any state. What
others may do in the account is restricted only where the property would be false, and
each theorem says where. `Apart` stands in the theorems as `[]Apart`, since a worker may
take up any job; for one worker it is always true (`AloneIsApart`), which gives the
corollaries `LoneWorkerDone`, `LoneWorkerIsSteady` and `ProfilesGoWithRoles`.

That workers are apart must be used at every call: the role it is about is one of the
worker's own job's. `AtOwnRoles` (in `IAMServiceProofs`) is the invariant that says so, with lemmas on sequences
(a call leaves `todo` as it is, takes its head off or empties it), and `CallSparesOthers`
concludes that a call changes no role of another worker.

* `ApartWorkersDone`: `Spec /\ []Apart => []OkMeansDone`, if nobody else creates or
  removes roles; they may adopt them and attach policies. When a job returns nil, every
  role has been treated; but nothing looks at all of them at the end, each was left when
  its turn was over. The inductive invariant `LoneInv` says: the calls a worker makes are
  those that its job enters by (`OnTrack`); what the last answers told it of the current
  role is still so, e.g. that there is no role before `CreateRole`, that the role, if it
  is there, has the job's trust policy after `UpdateAssumeRolePolicy`, and that it has no
  inline policy of the job's name before `PutRolePolicy` (`Remembers`); and every role
  of the job that is no longer in `todo` is done (`SoFar`). The lemmas on sequences
  relate the head and the tail of `todo` to the job's list of roles, which may name a
  role twice.
* `ApartWorkersAreSteady`: `Spec /\ []Apart => SteadyStateIsKept`, if nobody else changes
  the roles either. The property compares the roles with the jobs; the calls that would
  change something are ruled out by what `Remembers` says of how the worker came to them:
  a worker whose roles are as wanted never comes to `CreateRole`, nor to replacing the
  policy. `UpdateAssumeRolePolicy` writes what is there already.
* `ApartWorkersOrphanNothing`: `Spec /\ []Apart => NoProfileIsOrphaned`, if nobody removes
  roles by hand (a worker may be about to make the profile); Crossplane may create, adopt
  and attach. Its invariant `ProfileInv` is about the two moments at which a profile could
  lose its role: at `CreateInstanceProfile` the role exists, and at `DeleteRole` there is
  no empty profile (while it still holds the role, IAM refuses).
* `RetriesAreJobs`: `RetrySpec => Spec`. The system whose convergence TLC checks is
  `IAMService`'s, so that all of the above holds on its way to the wanted state. A worker
  that retries keeps its object, so that workers that begin apart stay apart
  (`RetriesStayApart`): `RetriedWorkersDone` needs `Apart` of the initial state only.
* `SatisfiedForGood` and `SparedForGood` are the halves of `ReconciliationConverges` and
  `DeletionConverges` that need no fairness. "Eventually always" is "eventually" and
  "then for ever": that retries get there is TLC's part; that the wanted state, once
  reached, survives every further retry, failure, restart and the other workers' jobs is
  proved, from `LoneInv`.

**`RoleDocumentsProofs`** is about the two properties of the documents.

* `NoRoleWithoutDocuments` proves `DocumentsAreComplete` for any jobs: every template the
  switches of `template.go` choose for a role type exists, asks only for parameters its
  operation has, and the six IRSA roles have six names. It assumes that a service of role
  type "irsa-role" is asked for IRSA roles only (`IRSAServicesServeIRSA`):
  `ReconcileRole` would look for its trust domains in parameters that do not have them.
  The AWSManagedControlPlane controller, which is the only one to build such a service,
  keeps to it (lines 96, 109 and 156).
* `DomainsAreCentral` proves `TrustDomainsAreCentral` for annotations of any length over
  any domains. `GetIRSATrustDomains` is written as a function of the number of rounds its
  loop has made, and `LoopInv` is the loop's invariant: the primary domain is first, every
  other one comes from a value already read and is not the primary one, every value read
  is in the result or empty, and the order is that of first occurrences. `RoundKeepsLoopInv`
  is one round. All this is about texts; that the texts are trimmed, so that two of them
  are the same domain exactly if they are equal, is `PlainTexts`, with which `LoopResult` and
  `LoopIsCentral` turn the invariant into the property about domains. The induction over rounds cannot cite the library's theorems, which
  quantify over a predicate; `SetInduction` states it of a set instead, from the fact that
  every non-empty set of naturals has a least element (`LeastNatural`). The same two
  lemmas show that the function exists (`RoundsExist`) and that a domain that occurs has a
  first place (`FirstOccurrence`).

**`TemplateControllerProofs`** and **`MachinePoolControllerProofs`** prove that no step
takes the role of an object that stays and has been reconciled
(`UsersKeepTheirRoles` in each, for `ReconciledRolesStay` and `UsedRolesStay`). The
decision is made from a cache of any age, some steps before the role is deleted,
and the property is about the deletion. The inductive invariant `RoleInv` has what
is needed in between: the cache shows only what the objects have been
(`CacheIsOlder`); an object that has the operator's finalizer has been in the cache,
as it cannot be reconciled before (`HeldIsSeen`, `TouchedIsSeen`); hence, when the
look at the cache finds no live user, every object with the finalizer is already
being deleted, and none can get the finalizer while the one goroutine is in its
deletion (`NoUserIsLive`). For templates this needs `Release < 35`, as from 35 on the
operator deletes roles on purpose. For pools the finalizer can come back
by the provider's patch, so that `Touched` counts the copies in the provider's hands too,
and no KarpenterMachinePool may share its profile with another pool, as
`isRoleUsedElsewhere` does not list these.

`MachinePoolControllerProofs` also draws the line around the finding `pool_role_left`:
`RolesGoWithPools` proves `RoleGoesWithItsPools` under three hypotheses, which say what
the code relies on without making sure of it. No AWSMachinePool shares its profile
(`OwnProfiles`; else a pool may leave the role to another one that goes without ever
having been reconciled, while the cache still shows it); the cache does not show the
deletion of a MachinePool before its AWSMachinePool's (`DeletionIsSeenTogether`, which
the finding violates); and the provider does not patch the finalizers from a copy older
than the operator's (`ProviderKeepsFinalizer`). TLC finds the property violated when any
of the three is dropped, and with all of them pools do come to be deleted and their roles
with them.
The inductive invariant `HeldInv` says that an object is gone only without finalizers
(`GoneIsReleased`), that a pool whose role exists has the operator's (`RolesAreHeld`),
and what a reconciliation knows of the pool it is at (`AtIsHeld`): it has the finalizer
when its role is made, and no role when the finalizer goes.

**`ManagedControlPlaneProofs`** proves that no IRSA role outlives a control plane
that CAPA did not let go too early (`NoRoleOutlives`). `RolesGoWithControlPlane` alone is
not inductive. Its `RoleInv` adds that CAPA's finalizer is in every copy of the list until
CAPA takes it off, so that no patch of the operator's lets the object go (`CAPAHolds`);
that a control plane without a role name has no roles (`RolesAreNamed`); that every return
leaves the control plane queued or to be queued (`ComesBack`); that after the five minutes
roles which are left have a visit ahead of them that finds the Cluster under deletion
(`LastVisit`), whatever fails in it and however often it is repeated; and that there is no
role when CAPA has let go in time, nor will be (`LetGo`).

**`HeldRolesProofs`** builds on `TemplateControllerProofs` and proves that no role
outlives the last template that could delete it (`RolesAreHeld`, for
`EveryRoleIsHeld`), if the control plane's templates have one profile and each
bastion one of its own (`OneProfileEach`, as in the instances that TLC checks). When a
template is released while its role stays, some other template must hold the role;
yet both decisions, that the role is used elsewhere and that the Cluster stays, were
made on what the cache showed, perhaps long ago. The inductive invariant `HeldInv` has
four parts: what a reconciliation knows of its template (`KnowsTemplate`: one under
deletion is aged, one that looks live and held is held); what Helm's order and the ten
seconds promise (`HelmsRules`: before an uninstallation a live template of the control
plane stays; afterwards, as long as the Cluster looks live, a held one is still
waiting, and a cache that shows a released template live does not yet show the last
one's deletion); the result of the decision until the release (`KeptForAnother`); and
which roles the operator does not make (`NotMade`). One lemma treats each step that
decides something, and `OthersHeldStep` what Helm, CAPI and CAPA do.

**`AWSClusterGuardProofs`** builds on both and proves that the AWSCluster outlives the
roles (`ClusterOutlivesRoles`, for `AWSClusterGuardsRoles`), if the cluster has one
template (`OneTemplateOnly`) and CAPA's patches keep the operator's finalizer, which is
the property's own hypothesis; how old CAPA's copies are otherwise, or which finalizers
the AWSCluster begins with, does not matter. Both are needed: with two templates the
AWSCluster can go first, which is what `awscluster_guard` finds, and with a patch of
CAPA's from a copy without the finalizer as well. The inductive invariant `GuardInv`
says that an AWSCluster is gone only without finalizers (`GoneIsReleased`); that the
operator's is on it while there are roles and while the controller is about to make them
(`RolesHoldCluster`); that a reconciliation which has read the operator's finalizer on
the AWSCluster, and will therefore not add it, is not mistaken (`ReadIsHeld`); and that
a cache which still shows the finalizer when it has been removed knows of the template's
deletion, as does the reconciliation at work (`ReleaseIsSeen`): that is why no old copy
leads to `ReadIsHeld` being false. The last step uses `HeldInv`: when the finalizer
goes, no role is left, because the one template that could have kept a role as "used
elsewhere" is the one being deleted.

`TypeCorrect` is proved for each of the four components, and every invariant and every
safety property of steps that a passing run checks is a theorem, under the hypotheses
named above. Only model-checked is what needs fairness: `ReconciliationConverges` and
`DeletionConverges` (as far as reaching the state goes), `TemplateReleased`,
`PoolDeletionCompletes`, `LivePoolsAreServed`, `ControlPlaneIsServed` and
`ControlPlaneDeletionCompletes`. Their proofs would have to say when the fair steps are
`ENABLED`, which is out of the prover's reach.

## 5. What is not modelled

* The text of policies, trust policies and tags other than the two that decide
  ownership; the partition and service domains. Documents are compared for
  equality only.
* `GetRoleARN`, `SetPrincipalRoleARN` and the identities' and base domain's
  lookup: reads whose failure is a failed step. `GetIRSAOpenIDForEKS` is the guard of
  `GetEKS`.
* AWS's pages of listings: `cleanRolePolicies` reads one page, and no role of the
  model has more.
* Objects without watch label, role label or instance profile, and pools of
  other kinds: `Reconcile` returns without having changed anything.
* Templates and pools in one instance: that the two controllers look for other users
  of one role at the same time is listed as a hazard without a property. At the level
  of AWS calls their interference is `ownership`'s subject.
* Other writers of the AWSCluster's finalizers than CAPA, and of a control plane's than
  CAPA and the operator; a control plane whose role is named by its manifest rather than
  by CAPA.
* What becomes of a role whose deletion fails for good because nobody knows whose it is
  (`deleteRole` returns an error when neither tag is there): `DeletionConverges` excepts
  it, and the controllers take a call of `pkg/iam` as done or failed.
* Templates of one cluster that disagree on trust domains when the AWSCluster has no
  annotation: `TrustDomainsAreCentral` is about one template's list, and says that all
  templates agree only where the AWSCluster's annotation decides.
* New templates that the operator has not reconciled when an upgrade deletes the old
  ones (see the assumptions on Helm).
* The AWS client's configuration and the manager: they keep no state of the
  operator's; that each controller is one goroutine, and which objects bypass the
  cache, is what the models take from them. Tests, mocks and packaging.

## 6. Plan

Done, in the order of what matters most:

1. `AWSIAM`, `IAMService`: every call of every operation, two workers, failures.
2. `RoleOwnership` and the refinement; `IAMServiceRetry` for convergence.
3. `IAMServiceProofs`: types, upgrades, refinement.
4. `ClusterObjects`, `TemplateController`: deletion, upgrade, finalizers.
5. `PoolObjects`, `MachinePoolController`: the provider's patches, pauses, and
   `isRoleUsedElsewhere` over machine pools.
6. `ManagedControlPlane`: the EKS controller, its visits and its finalizer.
7. `RoleDocuments`: the choice of documents and the trust domains.
8. Proofs for the three controllers, and of `EveryRoleIsHeld` with the rules of
   upgrades it rests on.
9. `LoneWorkerProofs`, `AWSClusterGuardProofs`, `RoleDocumentsProofs`: the remaining
   safety properties.
10. `LoneWorkerProofs` from one worker to any number of workers apart, with the halves of
    convergence that need no fairness; the loop of `GetIRSATrustDomains`; what a machine
    pool's role depends on (`RolesGoWithPools`).

Left:

11. Two controllers composed over one set of roles: `isRoleUsedElsewhere` of one
    between the check and the deletion of the other.
