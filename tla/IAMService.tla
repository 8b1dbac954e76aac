----------------------------- MODULE IAMService -----------------------------
(***************************************************************************)
(* pkg/iam: the IAMService a reconciler builds for one object, and the     *)
(* sequence of AWS calls each of its four operations makes.  A worker is   *)
(* a reconciler's goroutine (one per controller); a job is a service with  *)
(* the operation called on it.  Every AWS call is one action, named after  *)
(* the call, so that anything may happen between two of them: another      *)
(* worker's calls, Crossplane, a user of the AWS account, a call that      *)
(* fails, a call whose answer is lost, a restart of the operator.          *)
(***************************************************************************)
EXTENDS AWSIAM

CONSTANTS
    Worker,       \* the reconcilers' goroutines
    Jobs,         \* the jobs they run, a subset of Job
    IRSARoles,    \* the sequence of the cluster's IRSA role names
    Environment   \* what others do in the AWS account, a subset of Doings

\* s.roleType, one of the four New accepts.
ServiceRoleType == {"control-plane", "nodes", "bastion", "irsa-role"}

Operation == {"ReconcileRole", "ReconcileRolesForIRSA",
              "DeleteRole", "DeleteRolesForIRSA"}

\* A release is its major version; 0 is one semver.NewVersion cannot parse.
Unparsable == 0
GiantSwarmReleaseCrossplaneNodesIAMRoles == 34
GiantSwarmReleaseDeleteCAPAIAMOperatorRoles == 35

Job == [op : Operation,
        roleType : ServiceRoleType,
        release : Nat,
        clusterIsBeingDeleted : BOOLEAN,
        mainRole : Role,
        doc : Doc,                 \* what the templates give for this service
        trustDomains : BOOLEAN]    \* irsaTrustDomains is neither empty nor has an empty one

Doings == {"adopt", "create", "attach", "remove"}

ASSUME ServiceAssumption == /\ Jobs # {} /\ Jobs \subseteq Job
                            /\ \A j \in Jobs : j.roleType \in Policy
                            /\ IRSARoles \in Seq(Role) /\ IRSARoles # <<>>
                            /\ Environment \subseteq Doings

VARIABLES
    pc,      \* the call the worker makes next, or how its last job ended
    job,     \* the worker's job, the last one when it rests
    todo,    \* the roles its job has still to treat, the current one first
    listed   \* the policies it listed and has not yet removed

workerVars == <<pc, job, todo, listed>>
vars == <<iamVars, workerVars>>

Resting == {"idle", "ok", "error"}

Reconciling == {"create.GetRole", "CreateRole", "CreateInstanceProfile",
                "AddRoleToInstanceProfile", "assume.GetRole",
                "UpdateAssumeRolePolicy", "GetRolePolicy",
                "attach.DeleteRolePolicy", "PutRolePolicy"}

\* The calls of deleteRole that follow its check of the role's tags.
DestroyingCalls == {"ListAttachedRolePolicies", "DetachRolePolicy",
                    "ListRolePolicies", "clean.DeleteRolePolicy",
                    "RemoveRoleFromInstanceProfile", "DeleteInstanceProfile",
                    "DeleteRole"}

Deleting == {"delete.GetRole"} \union DestroyingCalls

Busy(w) == pc[w] \notin Resting

Current(w) == Head(todo[w])

Destroying(w, r) == pc[w] \in DestroyingCalls /\ r = Current(w)

WorkersTypeOK ==
    /\ pc \in [Worker -> Resting \union Reconciling \union Deleting]
    /\ job \in [Worker -> Jobs]
    /\ todo \in [Worker -> Seq(Role)]
    /\ \A w \in Worker : Busy(w) => todo[w] # <<>>
    /\ listed \in [Worker -> SUBSET (Managed \union Policy)]

TypeOK == IAMTypeOK /\ WorkersTypeOK

-----------------------------------------------------------------------------
(* What a job does before and between its AWS calls.                       *)

ForIRSA(j) == j.op \in {"ReconcileRolesForIRSA", "DeleteRolesForIRSA"}

JobRoles(j) == IF ForIRSA(j) THEN IRSARoles ELSE <<j.mainRole>>

\* The role is one of the node roles that Crossplane manages from 34.0.0 on.
NodeRole(j) == ~ForIRSA(j) /\ j.roleType \in {"control-plane", "nodes"}

LeftToCrossplane(j) ==
    NodeRole(j) /\ j.release >= GiantSwarmReleaseCrossplaneNodesIAMRoles

ReconcileEntry(j) ==
    IF j.release = Unparsable \/ (ForIRSA(j) /\ ~j.trustDomains) THEN "error"
    ELSE IF LeftToCrossplane(j) THEN "ok"
    ELSE IF j.release >= GiantSwarmReleaseDeleteCAPAIAMOperatorRoles
         THEN "delete.GetRole"
         ELSE "create.GetRole"

\* Mutant: the deletion of a control plane's role in an upgrade is not skipped.
DeleteRoleEntryInUpgrade(j) ==
    IF NodeRole(j) /\ j.release = Unparsable THEN "error"
    ELSE IF LeftToCrossplane(j) THEN "ok" ELSE "delete.GetRole"

DeleteRoleEntry(j) ==
    IF NodeRole(j) /\ j.release = Unparsable THEN "error"
    ELSE IF \/ LeftToCrossplane(j)
            \/ ~j.clusterIsBeingDeleted /\ j.roleType = "control-plane"
         THEN "ok"
         ELSE "delete.GetRole"

\* Mutant: IRSA roles are deleted although the cluster is not.
DeleteRolesForIRSAEntryAlways(j) == "delete.GetRole"

DeleteRolesForIRSAEntry(j) ==
    IF j.clusterIsBeingDeleted THEN "delete.GetRole" ELSE "ok"

Entry(j) == CASE j.op \in {"ReconcileRole", "ReconcileRolesForIRSA"} -> ReconcileEntry(j)
              [] j.op = "DeleteRole" -> DeleteRoleEntry(j)
              [] j.op = "DeleteRolesForIRSA" -> DeleteRolesForIRSAEntry(j)

\* The trust policy of an existing role is kept up to date only for these.
AppliesAssumePolicy(j) == ForIRSA(j) \/ j.roleType = "irsa-role"

\* Mutant: the trust policy is written only when the role is created.
AfterCreateRoleNoTrust(j) == "GetRolePolicy"

AfterCreateRole(j) ==
    IF AppliesAssumePolicy(j) THEN "assume.GetRole" ELSE "GetRolePolicy"

\* The orders in which AWS may list the tags of a role.
Listings(tags) == {l \in [1 .. Cardinality(tags) -> tags] :
                       \A t \in tags : \E i \in DOMAIN l : l[i] = t}

\* Mutant: the first of the two tags to be listed counts.
OwnershipFirst(listing) ==
    IF listing = <<>> THEN "unknown"
    ELSE IF listing[1] = "crossplane" THEN "crossplane" ELSE "operator"

\* The loop over the tags: Crossplane's ends it, the operator's is remembered.
Ownership(listing) ==
    IF \E i \in DOMAIN listing : listing[i] = "crossplane" THEN "crossplane"
    ELSE IF \E i \in DOMAIN listing : listing[i] = "owned" THEN "operator"
    ELSE "unknown"

Start(w, j) ==
    /\ ~Busy(w)
    /\ job' = [job EXCEPT ![w] = j]
    /\ pc' = [pc EXCEPT ![w] = Entry(j)]
    /\ todo' = [todo EXCEPT ![w] = IF Entry(j) \in Resting THEN <<>> ELSE JobRoles(j)]
    /\ UNCHANGED <<iamVars, listed>>

Goto(w, call) == /\ pc' = [pc EXCEPT ![w] = call]
                 /\ UNCHANGED <<job, todo, listed>>

\* The operation returns an error, which ends the reconciliation.
Fail(w) == /\ pc' = [pc EXCEPT ![w] = "error"]
           /\ todo' = [todo EXCEPT ![w] = <<>>]
           /\ listed' = [listed EXCEPT ![w] = {}]
           /\ UNCHANGED job

\* Mutant: the loop over the roles goes one too far.
RoleDoneTooLate(w) ==
    /\ todo' = [todo EXCEPT ![w] = Tail(@)]
    /\ pc' = [pc EXCEPT ![w] = IF Len(todo[w]) = 0 THEN "ok" ELSE Entry(job[w])]
    /\ UNCHANGED <<job, listed>>

\* reconcileRole or deleteRole returns nil: on to the next role, if any.
RoleDone(w) ==
    /\ todo' = [todo EXCEPT ![w] = Tail(@)]
    /\ pc' = [pc EXCEPT ![w] = IF Len(todo[w]) = 1 THEN "ok" ELSE Entry(job[w])]
    /\ UNCHANGED <<job, listed>>

\* A loop over the listed policies: over when nothing is left.
Loop(w, left, call, after) ==
    /\ listed' = [listed EXCEPT ![w] = left]
    /\ pc' = [pc EXCEPT ![w] = IF left = {} THEN after ELSE call]
    /\ UNCHANGED <<job, todo>>

-----------------------------------------------------------------------------
(* createRole.  A call with lost = TRUE took effect, but the operator gets *)
(* an error for an answer.                                                 *)

CreateGetRole(w) ==
    /\ pc[w] = "create.GetRole"
    /\ Goto(w, IF Exists(Current(w)) THEN AfterCreateRole(job[w]) ELSE "CreateRole")
    /\ UNCHANGED iamVars

CreateRole(w, lost) ==
    /\ pc[w] = "CreateRole"
    /\ \/ /\ IAMCreateRole(Current(w), {"owned"}, job[w].doc)
          /\ IF lost THEN Fail(w) ELSE Goto(w, "CreateInstanceProfile")
       \/ /\ Exists(Current(w))
          /\ Fail(w) /\ UNCHANGED iamVars

CreateInstanceProfile(w, lost) ==
    /\ pc[w] = "CreateInstanceProfile"
    /\ \/ /\ IAMCreateInstanceProfile(Current(w))
          /\ IF lost THEN Fail(w) ELSE Goto(w, "AddRoleToInstanceProfile")
       \/ /\ profile[Current(w)] # "none"
          /\ Goto(w, "AddRoleToInstanceProfile") /\ UNCHANGED iamVars

AddRoleToInstanceProfile(w, lost) ==
    /\ pc[w] = "AddRoleToInstanceProfile"
    /\ \/ /\ IAMAddRoleToInstanceProfile(Current(w))
          /\ IF lost THEN Fail(w) ELSE Goto(w, AfterCreateRole(job[w]))
       \/ /\ profile[Current(w)] = "holds"
          /\ Goto(w, AfterCreateRole(job[w])) /\ UNCHANGED iamVars
       \/ /\ ~Exists(Current(w)) \/ profile[Current(w)] = "none"
          /\ Fail(w) /\ UNCHANGED iamVars

(* applyAssumePolicyRole *)

AssumeGetRole(w) ==
    /\ pc[w] = "assume.GetRole"
    /\ Goto(w, IF Exists(Current(w)) THEN "UpdateAssumeRolePolicy" ELSE "GetRolePolicy")
    /\ UNCHANGED iamVars

UpdateAssumeRolePolicy(w, lost) ==
    /\ pc[w] = "UpdateAssumeRolePolicy"
    /\ \/ /\ IAMUpdateAssumeRolePolicy(Current(w), job[w].doc)
          /\ IF lost THEN Fail(w) ELSE Goto(w, "GetRolePolicy")
       \/ /\ ~Exists(Current(w))
          /\ Fail(w) /\ UNCHANGED iamVars

(* attachInlinePolicy: the policy has the name of the service's role type, *)
(* whatever the type of the role.                                          *)

PolicyName(j) == j.roleType

\* Mutants: an inline policy of that name is never, or always, the right one.
UpToDateNever(r, j) == FALSE
UpToDateByName(r, j) == HasInlinePolicy(r, PolicyName(j))

UpToDate(r, j) == /\ HasInlinePolicy(r, PolicyName(j))
                  /\ role[r].inline[PolicyName(j)] = j.doc

GetRolePolicy(w) ==
    /\ pc[w] = "GetRolePolicy"
    /\ IF UpToDate(Current(w), job[w]) THEN RoleDone(w)
       ELSE Goto(w, IF HasInlinePolicy(Current(w), PolicyName(job[w]))
                    THEN "attach.DeleteRolePolicy" ELSE "PutRolePolicy")
    /\ UNCHANGED iamVars

AttachDeleteRolePolicy(w, lost) ==
    /\ pc[w] = "attach.DeleteRolePolicy"
    /\ \/ /\ IAMDeleteRolePolicy(Current(w), PolicyName(job[w]))
          /\ IF lost THEN Fail(w) ELSE Goto(w, "PutRolePolicy")
       \/ /\ ~HasInlinePolicy(Current(w), PolicyName(job[w]))
          /\ Fail(w) /\ UNCHANGED iamVars

PutRolePolicy(w, lost) ==
    /\ pc[w] = "PutRolePolicy"
    /\ \/ /\ IAMPutRolePolicy(Current(w), PolicyName(job[w]), job[w].doc)
          /\ IF lost THEN Fail(w) ELSE RoleDone(w)
       \/ /\ ~Exists(Current(w))
          /\ Fail(w) /\ UNCHANGED iamVars

-----------------------------------------------------------------------------
(* deleteRole *)

\* Mutant: only Crossplane's tag is looked at.
DeleteGetRoleAnyOwner(w) ==
    /\ pc[w] = "delete.GetRole"
    /\ IF ~Exists(Current(w)) \/ OfCrossplane(Current(w)) THEN RoleDone(w)
       ELSE Goto(w, "ListAttachedRolePolicies")
    /\ UNCHANGED iamVars

DeleteGetRole(w) ==
    /\ pc[w] = "delete.GetRole"
    /\ \/ ~Exists(Current(w)) /\ RoleDone(w)
       \/ /\ Exists(Current(w))
          /\ \E listing \in Listings(role[Current(w)].tags) :
                \/ Ownership(listing) = "crossplane" /\ RoleDone(w)
                \/ Ownership(listing) = "unknown" /\ Fail(w)
                \/ Ownership(listing) = "operator" /\ Goto(w, "ListAttachedRolePolicies")
    /\ UNCHANGED iamVars

(* cleanAttachedPolicies *)

ListAttachedRolePolicies(w) ==
    /\ pc[w] = "ListAttachedRolePolicies"
    /\ Loop(w, IF Exists(Current(w)) THEN role[Current(w)].attached ELSE {},
            "DetachRolePolicy", "ListRolePolicies")
    /\ UNCHANGED iamVars

DetachRolePolicy(w, lost) ==
    /\ pc[w] = "DetachRolePolicy"
    /\ \E m \in listed[w] :
         \/ /\ IAMDetachRolePolicy(Current(w), m)
            /\ IF lost THEN Fail(w)
               ELSE Loop(w, listed[w] \ {m}, "DetachRolePolicy", "ListRolePolicies")
         \/ /\ ~HasAttached(Current(w), m)
            /\ Fail(w) /\ UNCHANGED iamVars

(* cleanInlinePolicies *)

ListRolePolicies(w) ==
    /\ pc[w] = "ListRolePolicies"
    /\ Loop(w, IF Exists(Current(w)) THEN InlinePolicies(Current(w)) ELSE {},
            "clean.DeleteRolePolicy", "RemoveRoleFromInstanceProfile")
    /\ UNCHANGED iamVars

CleanDeleteRolePolicy(w, lost) ==
    /\ pc[w] = "clean.DeleteRolePolicy"
    /\ \E p \in listed[w] :
         \/ /\ IAMDeleteRolePolicy(Current(w), p)
            /\ IF lost THEN Fail(w)
               ELSE Loop(w, listed[w] \ {p}, "clean.DeleteRolePolicy",
                         "RemoveRoleFromInstanceProfile")
         \/ /\ ~HasInlinePolicy(Current(w), p)
            /\ Loop(w, listed[w] \ {p}, "clean.DeleteRolePolicy",
                    "RemoveRoleFromInstanceProfile")
            /\ UNCHANGED iamVars

\* Mutant: the instance profile is emptied but not deleted.
RemoveRoleFromInstanceProfileOnly(w, lost) ==
    /\ pc[w] = "RemoveRoleFromInstanceProfile"
    /\ \/ /\ IAMRemoveRoleFromInstanceProfile(Current(w))
          /\ IF lost THEN Fail(w) ELSE Goto(w, "DeleteRole")
       \/ /\ profile[Current(w)] # "holds"
          /\ Goto(w, "DeleteRole") /\ UNCHANGED iamVars

RemoveRoleFromInstanceProfile(w, lost) ==
    /\ pc[w] = "RemoveRoleFromInstanceProfile"
    /\ \/ /\ IAMRemoveRoleFromInstanceProfile(Current(w))
          /\ IF lost THEN Fail(w) ELSE Goto(w, "DeleteInstanceProfile")
       \/ /\ profile[Current(w)] # "holds"
          /\ Goto(w, "DeleteInstanceProfile") /\ UNCHANGED iamVars

\* Mutant: an instance profile that is gone already is an error.
DeleteInstanceProfileOnce(w, lost) ==
    /\ pc[w] = "DeleteInstanceProfile"
    /\ \/ /\ IAMDeleteInstanceProfile(Current(w))
          /\ IF lost THEN Fail(w) ELSE Goto(w, "DeleteRole")
       \/ /\ profile[Current(w)] # "empty"
          /\ Fail(w) /\ UNCHANGED iamVars

DeleteInstanceProfile(w, lost) ==
    /\ pc[w] = "DeleteInstanceProfile"
    /\ \/ /\ IAMDeleteInstanceProfile(Current(w))
          /\ IF lost THEN Fail(w) ELSE Goto(w, "DeleteRole")
       \/ /\ profile[Current(w)] = "none"
          /\ Goto(w, "DeleteRole") /\ UNCHANGED iamVars
       \/ /\ profile[Current(w)] = "holds"
          /\ Fail(w) /\ UNCHANGED iamVars

DeleteRole(w, lost) ==
    /\ pc[w] = "DeleteRole"
    /\ \/ /\ IAMDeleteRole(Current(w))
          /\ IF lost THEN Fail(w) ELSE RoleDone(w)
       \/ /\ ~Exists(Current(w))
          /\ RoleDone(w) /\ UNCHANGED iamVars
       \/ /\ Exists(Current(w)) /\ ~Deletable(Current(w))
          /\ Fail(w) /\ UNCHANGED iamVars

-----------------------------------------------------------------------------
(* What goes wrong, and what others do.                                    *)

\* A call is refused or does not reach IAM: no effect, and an error.
CallFails(w) == Busy(w) /\ Fail(w) /\ UNCHANGED iamVars

\* The operator's process dies and starts again: every job is forgotten.
Crash == /\ \E w \in Worker : Busy(w)
         /\ pc' = [w \in Worker |-> "idle"]
         /\ todo' = [w \in Worker |-> <<>>]
         /\ listed' = [w \in Worker |-> {}]
         /\ UNCHANGED <<iamVars, job>>

\* Crossplane takes a role over: it adds its tag and may drop the others.
Adopt(r, kept) ==
    /\ "adopt" \in Environment
    /\ Exists(r) /\ ~OfCrossplane(r) /\ kept \subseteq role[r].tags
    /\ role' = [role EXCEPT ![r].tags = kept \union {"crossplane"}]
    /\ UNCHANGED <<profile, workerVars>>

\* Crossplane, or somebody who sets neither tag, creates the role and may
\* put it in an instance profile.
CreateElsewhere(r, tags, d, p) ==
    /\ "create" \in Environment
    /\ ~Exists(r) /\ tags \in {{}, {"crossplane"}} /\ p \in {profile[r], "holds"}
    /\ role' = [role EXCEPT ![r] = NewRole(tags, d)]
    /\ profile' = [profile EXCEPT ![r] = p]
    /\ UNCHANGED workerVars

AttachElsewhere(r, m) ==
    /\ "attach" \in Environment
    /\ Exists(r) /\ m \notin role[r].attached
    /\ role' = [role EXCEPT ![r].attached = @ \union {m}]
    /\ UNCHANGED <<profile, workerVars>>

\* An engineer removes a role the operator left behind.
RemoveByHand(r) ==
    /\ "remove" \in Environment
    /\ Owned(r) /\ ~OfCrossplane(r)
    /\ role' = [role EXCEPT ![r] = NoRole]
    /\ profile' = [profile EXCEPT ![r] = "none"]
    /\ UNCHANGED workerVars

-----------------------------------------------------------------------------
\* The operator finds whatever earlier runs and other tools left in IAM.
Init == /\ IAMTypeOK /\ IAMConsistent
        /\ pc = [w \in Worker |-> "idle"]
        /\ job \in [Worker -> Jobs]
        /\ todo = [w \in Worker |-> <<>>]
        /\ listed = [w \in Worker |-> {}]

Reads(w) == \/ CreateGetRole(w) \/ AssumeGetRole(w) \/ GetRolePolicy(w)
            \/ DeleteGetRole(w) \/ ListAttachedRolePolicies(w) \/ ListRolePolicies(w)

Writes(w, lost) ==
    \/ CreateRole(w, lost) \/ CreateInstanceProfile(w, lost)
    \/ AddRoleToInstanceProfile(w, lost) \/ UpdateAssumeRolePolicy(w, lost)
    \/ AttachDeleteRolePolicy(w, lost) \/ PutRolePolicy(w, lost)
    \/ DetachRolePolicy(w, lost) \/ CleanDeleteRolePolicy(w, lost)
    \/ RemoveRoleFromInstanceProfile(w, lost) \/ DeleteInstanceProfile(w, lost)
    \/ DeleteRole(w, lost)

Elsewhere(r) == \/ \E kept \in SUBSET Tag : Adopt(r, kept)
                \/ \E tags \in SUBSET Tag, d \in Doc, p \in ProfileState :
                     CreateElsewhere(r, tags, d, p)
                \/ \E m \in Managed : AttachElsewhere(r, m)
                \/ RemoveByHand(r)

Next == \/ \E w \in Worker : \/ \E j \in Jobs : Start(w, j)
                             \/ Reads(w)
                             \/ \E lost \in BOOLEAN : Writes(w, lost)
                             \/ CallFails(w)
        \/ Crash
        \/ \E r \in Role : Elsewhere(r)

Spec == Init /\ [][Next]_vars

-----------------------------------------------------------------------------
(* What makes the component correct.                                       *)

RolesOf(j) == {JobRoles(j)[i] : i \in 1 .. Len(JobRoles(j))}

Reconciles(j) == j.op \in {"ReconcileRole", "ReconcileRolesForIRSA"}

\* The jobs that make their roles.
Makes(j) == /\ Reconciles(j)
            /\ j.release < IF NodeRole(j) THEN 34 ELSE 35

\* The roles that workers are destroying, the inline policies they write and
\* the roles whose trust policies they keep up to date.
Condemned == {x \in Worker \X Role : Destroying(x[1], x[2])}
WrittenPolicies == {PolicyName(j) : j \in {i \in Jobs : Makes(i)}}
TrustedRoles == UNION {RolesOf(j) : j \in {i \in Jobs : Makes(i) /\ AppliesAssumePolicy(i)}}

Promise == INSTANCE RoleOwnership WITH
    Deletion <- Worker, OurPolicy <- WrittenPolicies, OurTrust <- TrustedRoles,
    doomed <- Condemned

\* The calls of the operator, interleaved, failed and interrupted as they may
\* be, and with Crossplane and others at work between any two of them, keep
\* the promise of RoleOwnership: every deletion begins with a role that is the
\* operator's own at that moment, in whatever order AWS lists its tags, no
\* other role is deleted, taken out of its instance profile or deprived of an
\* attached policy, and the policies that a reconciliation rewrites on a role
\* of somebody else's are those of the operator's names only (iam.go,
\* deleteRole, attachInlinePolicy and applyAssumePolicyRole).
OthersRolesAreSafe == Promise!Spec

\* The jobs that may delete roles: a reconciliation from 35.0.0 on of a role
\* that is not a node role, and the deletion of a role whose cluster is being
\* deleted, or of a node pool's or a bastion's role.
MayDelete(j) ==
    CASE Reconciles(j) ->
             j.release >= 35 /\ ~NodeRole(j)
      [] j.op = "DeleteRole" ->
             /\ NodeRole(j) => j.release < 34
             /\ j.clusterIsBeingDeleted \/ j.roleType # "control-plane"
      [] j.op = "DeleteRolesForIRSA" -> j.clusterIsBeingDeleted

Reconciled(r, j) == /\ Exists(r)
                    /\ role[r].inline[j.roleType] = j.doc
                    /\ AppliesAssumePolicy(j) => role[r].trust = j.doc

Spared(r) == ~Exists(r) \/ OfCrossplane(r)

\* When a job returns nil its roles are as it was asked to make them: with
\* the trust and inline policy of the job, or gone (or Crossplane's).  True
\* of a worker that is alone with its roles (iam.go, reconcileRole and
\* deleteRole: every early return and every tolerated error).
OkMeansDone == \A w \in Worker : pc[w] = "ok" => \A r \in RolesOf(job[w]) :
    /\ Makes(job[w]) => Reconciled(r, job[w])
    /\ MayDelete(job[w]) => Spared(r)

\* No interrupted or repeated sequence of calls leaves an instance profile
\* behind whose role is gone: createRole makes the profile after the role
\* and deleteRole removes it before.
Orphaned(r) == profile[r] # "none" /\ ~Exists(r)
NoProfileIsOrphaned == [][\A r \in Role : Orphaned(r)' => Orphaned(r)]_vars

\* A role goes away only by a job that may delete it, so the roles of a
\* control plane and of IRSA survive the replacement of machine templates
\* in an upgrade (iam.go, DeleteRole and DeleteRolesForIRSA).
RolesOutliveUpgrades == [][\A r \in Role : Exists(r) /\ ~Exists(r)' =>
    \E w \in Worker : pc[w] = "DeleteRole" /\ Current(w) = r /\ MayDelete(job[w])]_vars

\* Once its roles are as a job wants them, that job changes nothing in IAM,
\* interrupted or not.  True of a worker that is alone with its roles (iam.go,
\* createRole's early return and attachInlinePolicy's comparison).
Satisfied(j) == Makes(j) /\ \A r \in RolesOf(j) : Reconciled(r, j)
SteadyStateIsKept == [][(\A w \in Worker : Satisfied(job[w])) => UNCHANGED iamVars]_vars

\* "we only attach the inline policy to a role that is owned (and was
\* created) by iam controller" (iam.go, reconcileRole).
OnlyOwnedRolesGetPolicies == [][\A r \in Role, p \in Policy, w \in Worker :
    pc[w] = "PutRolePolicy" /\ Exists(r) /\ Exists(r)' /\ ~HasInlinePolicy(r, p)
        /\ HasInlinePolicy(r, p)' => Owned(r)]_vars
=============================================================================
