------------------------------- MODULE AWSIAM -------------------------------
(***************************************************************************)
(* The part of AWS IAM the operator uses: roles, their tags, trust policy, *)
(* inline and attached policies, and the instance profile that carries the *)
(* role's name.  IAM is outside the repository: the answers below are the  *)
(* ones pkg/iam/iam.go distinguishes (nil, NoSuchEntity,                   *)
(* EntityAlreadyExists, any other error), and a conflict is the "other     *)
(* error" with which IAM refuses to delete something that is in use.       *)
(*                                                                         *)
(* Each call is one action, its effect.  What the caller does with the     *)
(* answer is in IAMService.                                                *)
(***************************************************************************)
EXTENDS Naturals, Sequences, FiniteSets

CONSTANTS
    Role,     \* role names; an instance profile has the name of its role
    Policy,   \* names of inline policies
    Managed,  \* managed policies that somebody may attach to a role
    Doc,      \* policy documents, trust and inline
    NoDoc,    \* the inline policy of that name does not exist
    NoRole    \* the role of that name does not exist

\* The tags the operator looks at: its own ownership tag and "crossplane-kind".
Tag == {"owned", "crossplane"}

RoleRec == [tags : SUBSET Tag,
            trust : Doc,
            inline : [Policy -> Doc \union {NoDoc}],
            attached : SUBSET Managed]

\* An instance profile does not exist, is empty, or holds the role of its name.
ProfileState == {"none", "empty", "holds"}

ASSUME IAMAssumption == /\ NoDoc \notin Doc
                        /\ NoRole \notin RoleRec

VARIABLES
    role,     \* [Role -> RoleRec or NoRole]
    profile   \* [Role -> ProfileState]

iamVars == <<role, profile>>

Exists(r) == role[r] # NoRole

Owned(r) == Exists(r) /\ "owned" \in role[r].tags

OfCrossplane(r) == Exists(r) /\ "crossplane" \in role[r].tags

InlinePolicies(r) == {p \in Policy : role[r].inline[p] # NoDoc}

IAMTypeOK == /\ role \in [Role -> RoleRec \union {NoRole}]
             /\ profile \in [Role -> ProfileState]

\* IAM never lets go of a role that an instance profile still holds.
IAMConsistent == \A r \in Role : profile[r] = "holds" => Exists(r)

-----------------------------------------------------------------------------
(* The calls that change something, when IAM accepts them.                 *)

NewRole(tags, trust) == [tags |-> tags,
                         trust |-> trust,
                         inline |-> [p \in Policy |-> NoDoc],
                         attached |-> {}]

IAMCreateRole(r, tags, trust) ==
    /\ ~Exists(r)
    /\ role' = [role EXCEPT ![r] = NewRole(tags, trust)]
    /\ UNCHANGED profile

IAMCreateInstanceProfile(r) ==
    /\ profile[r] = "none"
    /\ profile' = [profile EXCEPT ![r] = "empty"]
    /\ UNCHANGED role

IAMAddRoleToInstanceProfile(r) ==
    /\ Exists(r) /\ profile[r] = "empty"
    /\ profile' = [profile EXCEPT ![r] = "holds"]
    /\ UNCHANGED role

IAMUpdateAssumeRolePolicy(r, d) ==
    /\ Exists(r)
    /\ role' = [role EXCEPT ![r].trust = d]
    /\ UNCHANGED profile

IAMPutRolePolicy(r, p, d) ==
    /\ Exists(r)
    /\ role' = [role EXCEPT ![r].inline[p] = d]
    /\ UNCHANGED profile

HasInlinePolicy(r, p) == Exists(r) /\ role[r].inline[p] # NoDoc

IAMDeleteRolePolicy(r, p) ==
    /\ HasInlinePolicy(r, p)
    /\ role' = [role EXCEPT ![r].inline[p] = NoDoc]
    /\ UNCHANGED profile

HasAttached(r, m) == Exists(r) /\ m \in role[r].attached

IAMDetachRolePolicy(r, m) ==
    /\ HasAttached(r, m)
    /\ role' = [role EXCEPT ![r].attached = @ \ {m}]
    /\ UNCHANGED profile

IAMRemoveRoleFromInstanceProfile(r) ==
    /\ profile[r] = "holds"
    /\ profile' = [profile EXCEPT ![r] = "empty"]
    /\ UNCHANGED role

IAMDeleteInstanceProfile(r) ==
    /\ profile[r] = "empty"
    /\ profile' = [profile EXCEPT ![r] = "none"]
    /\ UNCHANGED role

\* IAM deletes a role only when nothing refers to it any more.
Deletable(r) == /\ Exists(r)
                /\ InlinePolicies(r) = {}
                /\ role[r].attached = {}
                /\ profile[r] # "holds"

IAMDeleteRole(r) ==
    /\ Deletable(r)
    /\ role' = [role EXCEPT ![r] = NoRole]
    /\ UNCHANGED profile
=============================================================================
