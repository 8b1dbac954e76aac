---------------------------- MODULE RoleOwnership ----------------------------
(***************************************************************************)
(* What pkg/iam promises to the other tenants of an AWS account, without   *)
(* workers, jobs or the order of calls.                                    *)
(*                                                                         *)
(* A deletion condemns a role only while the role is the operator's own:   *)
(* it carries the operator's tag and not Crossplane's.  Only a condemned   *)
(* role is destroyed.  Of all other roles, whoever made them, the operator *)
(* rewrites the inline policies that have the names it writes, so that     *)
(* such a policy is lost if it stops between deleting and putting it, and  *)
(* the trust policies of the roles it makes for service accounts; it       *)
(* leaves alone their other inline policies, their attached policies,      *)
(* their tags, their place in an instance profile and themselves.          *)
(*                                                                         *)
(* What it does not promise: Crossplane may take over a role that is       *)
(* condemned already, or make it anew, and loses it all the same.  The     *)
(* tags are read once, and not again before each call.                     *)
(***************************************************************************)
EXTENDS AWSIAM

CONSTANTS
    Deletion,    \* the deletions that may be under way at the same time
    OurPolicy,   \* the names under which the operator writes inline policies
    OurTrust     \* the roles whose trust policy the operator keeps up to date

VARIABLE doomed  \* which deletion has condemned which role

promiseVars == <<iamVars, doomed>>

Mine(r) == Owned(r) /\ ~OfCrossplane(r)

Doomed(r) == \E x \in Deletion : <<x, r>> \in doomed

Init == IAMTypeOK /\ IAMConsistent /\ doomed = {}

Condemn(x, r) == /\ Mine(r)
                 /\ doomed' = doomed \union {<<x, r>>}
                 /\ UNCHANGED iamVars

Destroy(r) == /\ Doomed(r)
              /\ \/ \E m \in Managed : IAMDetachRolePolicy(r, m)
                 \/ \E p \in Policy : IAMDeleteRolePolicy(r, p)
                 \/ IAMRemoveRoleFromInstanceProfile(r)
                 \/ IAMDeleteInstanceProfile(r)
                 \/ IAMDeleteRole(r)

Make(r) == \/ \E d \in Doc : IAMCreateRole(r, {"owned"}, d)
           \/ IAMCreateInstanceProfile(r)
           \/ IAMAddRoleToInstanceProfile(r)

Rewrite(r) == \/ /\ r \in OurTrust
                 /\ \E d \in Doc : IAMUpdateAssumeRolePolicy(r, d)
              \/ \E p \in OurPolicy : \/ IAMDeleteRolePolicy(r, p)
                                      \/ \E d \in Doc : IAMPutRolePolicy(r, p, d)

(* Crossplane, other tools and engineers.                                  *)

TakeOver(r) == /\ Exists(r) /\ ~OfCrossplane(r)
               /\ \E kept \in SUBSET role[r].tags :
                     role' = [role EXCEPT ![r].tags = kept \union {"crossplane"}]
               /\ UNCHANGED profile

Appear(r) == /\ ~Exists(r)
             /\ \E tags \in {{}, {"crossplane"}}, d \in Doc :
                   role' = [role EXCEPT ![r] = NewRole(tags, d)]
             /\ profile' \in {profile, [profile EXCEPT ![r] = "holds"]}

Attach(r) == /\ Exists(r)
             /\ \E m \in Managed : role' = [role EXCEPT ![r].attached = @ \union {m}]
             /\ UNCHANGED profile

RemoveByHand(r) == /\ Mine(r)
                   /\ role' = [role EXCEPT ![r] = NoRole]
                   /\ profile' = [profile EXCEPT ![r] = "none"]

\* A deletion may end with any of the operator's steps, or between two.
Next == \/ /\ doomed' \subseteq doomed
           /\ \/ UNCHANGED iamVars
              \/ \E r \in Role : \/ Destroy(r) \/ Make(r) \/ Rewrite(r)
                                 \/ TakeOver(r) \/ Appear(r)
                                 \/ Attach(r) \/ RemoveByHand(r)
        \/ \E x \in Deletion, r \in Role : Condemn(x, r)

Spec == Init /\ [][Next]_promiseVars
=============================================================================
