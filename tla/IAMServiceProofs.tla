-------------------------- MODULE IAMServiceProofs --------------------------
(***************************************************************************)
(* Proofs about IAMService, for any workers, roles, policies and jobs.     *)
(***************************************************************************)
EXTENDS IAMService, SequenceTheorems, TLAPS

Calls == Reconciling \union Deleting

-----------------------------------------------------------------------------
(* Type correctness.                                                       *)

\* Each of the four ways a worker moves on keeps the types of its state.
LEMMA GotoType ==
    ASSUME NEW w \in Worker, NEW c \in Calls, WorkersTypeOK, Busy(w), Goto(w, c)
    PROVE  WorkersTypeOK'
BY DEF WorkersTypeOK, Goto, Busy, Calls, Resting

LEMMA FailType ==
    ASSUME NEW w \in Worker, WorkersTypeOK, Fail(w)
    PROVE  WorkersTypeOK'
BY DEF WorkersTypeOK, Fail, Busy, Resting

LEMMA EntryType ==
    ASSUME NEW j \in Jobs
    PROVE  Entry(j) \in {"ok", "error", "create.GetRole", "delete.GetRole"}
BY ServiceAssumption
   DEF Entry, ReconcileEntry, DeleteRoleEntry, DeleteRolesForIRSAEntry, Job, Operation

LEMMA JobRolesType ==
    ASSUME NEW j \in Jobs
    PROVE  JobRoles(j) \in Seq(Role) \ {<<>>}
BY ServiceAssumption DEF JobRoles, Job

LEMMA RoleDoneType ==
    ASSUME NEW w \in Worker, WorkersTypeOK, Busy(w), RoleDone(w)
    PROVE  WorkersTypeOK'
<1>1. todo[w] \in Seq(Role) /\ todo[w] # <<>> /\ job[w] \in Jobs
  BY DEF WorkersTypeOK
<1>2. Tail(todo[w]) \in Seq(Role) /\ (Len(todo[w]) # 1 => Tail(todo[w]) # <<>>)
  <2>1. Tail(todo[w]) \in Seq(Role) /\ Len(Tail(todo[w])) = Len(todo[w]) - 1
    BY <1>1, HeadTailProperties
  <2>2. Len(todo[w]) \in Nat
    BY <1>1, LenProperties
  <2>3. ASSUME Tail(todo[w]) = <<>> PROVE Len(Tail(todo[w])) = 0
    BY <2>3, EmptySeq
  <2> QED BY <2>1, <2>2, <2>3
<1>3. Entry(job[w]) \in {"ok", "error", "create.GetRole", "delete.GetRole"}
  BY <1>1, EntryType
<1> QED
  BY <1>1, <1>2, <1>3 DEF WorkersTypeOK, RoleDone, Busy, Resting, Reconciling, Deleting

LEMMA LoopType ==
    ASSUME NEW w \in Worker, NEW left \in SUBSET (Managed \union Policy),
           NEW call \in Calls, NEW after \in Calls,
           WorkersTypeOK, Busy(w), Loop(w, left, call, after)
    PROVE  WorkersTypeOK'
BY DEF WorkersTypeOK, Loop, Busy, Calls, Resting

LEMMA CurrentType ==
    ASSUME NEW w \in Worker, WorkersTypeOK, Busy(w)
    PROVE  Current(w) \in Role /\ job[w] \in Jobs
BY HeadTailProperties DEF WorkersTypeOK, Current

LEMMA JobType ==
    ASSUME NEW j \in Jobs
    PROVE  j.doc \in Doc /\ j.roleType \in Policy
BY ServiceAssumption DEF Job

\* Each call, accepted by IAM, keeps the types of roles and profiles.
LEMMA NewRoleType ==
    ASSUME NEW tags \in SUBSET Tag, NEW d \in Doc
    PROVE  NewRole(tags, d) \in RoleRec
BY DEF NewRole, RoleRec

LEMMA CreateType ==
    ASSUME NEW r \in Role, NEW tags \in SUBSET Tag, NEW d \in Doc,
           IAMTypeOK, IAMCreateRole(r, tags, d)
    PROVE  IAMTypeOK'
BY NewRoleType DEF IAMTypeOK, IAMCreateRole

LEMMA ProfileCallType ==
    ASSUME NEW r \in Role, IAMTypeOK,
           \/ IAMCreateInstanceProfile(r) \/ IAMAddRoleToInstanceProfile(r)
           \/ IAMRemoveRoleFromInstanceProfile(r) \/ IAMDeleteInstanceProfile(r)
    PROVE  IAMTypeOK'
BY DEF IAMTypeOK, ProfileState, IAMCreateInstanceProfile, IAMAddRoleToInstanceProfile,
       IAMRemoveRoleFromInstanceProfile, IAMDeleteInstanceProfile

LEMMA RoleCallType ==
    ASSUME NEW r \in Role, NEW p \in Policy, NEW d \in Doc, NEW m, IAMTypeOK,
           \/ IAMUpdateAssumeRolePolicy(r, d) \/ IAMPutRolePolicy(r, p, d)
           \/ IAMDeleteRolePolicy(r, p) \/ IAMDetachRolePolicy(r, m) \/ IAMDeleteRole(r)
    PROVE  IAMTypeOK'
<1>1. CASE IAMUpdateAssumeRolePolicy(r, d)
  BY <1>1 DEF IAMTypeOK, IAMUpdateAssumeRolePolicy, Exists, RoleRec
<1>2. CASE IAMPutRolePolicy(r, p, d)
  BY <1>2 DEF IAMTypeOK, IAMPutRolePolicy, Exists, RoleRec
<1>3. CASE IAMDeleteRolePolicy(r, p)
  BY <1>3 DEF IAMTypeOK, IAMDeleteRolePolicy, HasInlinePolicy, Exists, RoleRec
<1>4. CASE IAMDetachRolePolicy(r, m)
  BY <1>4 DEF IAMTypeOK, IAMDetachRolePolicy, HasAttached, Exists, RoleRec
<1>5. CASE IAMDeleteRole(r)
  BY <1>5 DEF IAMTypeOK, IAMDeleteRole
<1> QED BY <1>1, <1>2, <1>3, <1>4, <1>5

LEMMA UnchangedType ==
    ASSUME IAMTypeOK, UNCHANGED iamVars
    PROVE  IAMTypeOK'
BY DEF IAMTypeOK, iamVars

LEMMA CallIsBusy ==
    ASSUME NEW w \in Worker, NEW lost \in BOOLEAN, Reads(w) \/ Writes(w, lost)
    PROVE  Busy(w)
BY DEF Reads, Writes, Busy, Resting, CreateGetRole, AssumeGetRole, GetRolePolicy,
       DeleteGetRole, ListAttachedRolePolicies, ListRolePolicies, CreateRole,
       CreateInstanceProfile, AddRoleToInstanceProfile, UpdateAssumeRolePolicy,
       AttachDeleteRolePolicy, PutRolePolicy, DetachRolePolicy, CleanDeleteRolePolicy,
       RemoveRoleFromInstanceProfile, DeleteInstanceProfile, DeleteRole

\* A call of a worker keeps every type: one case per action.
LEMMA CallType ==
    ASSUME NEW w \in Worker, NEW lost \in BOOLEAN, TypeOK, Reads(w) \/ Writes(w, lost)
    PROVE  TypeOK'
<1> DEFINE r == Current(w)
<1>1. Busy(w)
  BY DEF Reads, Writes, Busy, Resting, CreateGetRole, AssumeGetRole, GetRolePolicy,
         DeleteGetRole, ListAttachedRolePolicies, ListRolePolicies, CreateRole,
         CreateInstanceProfile, AddRoleToInstanceProfile, UpdateAssumeRolePolicy,
         AttachDeleteRolePolicy, PutRolePolicy, DetachRolePolicy, CleanDeleteRolePolicy,
         RemoveRoleFromInstanceProfile, DeleteInstanceProfile, DeleteRole
<1>2. IAMTypeOK /\ WorkersTypeOK
  BY DEF TypeOK
<1>3. r \in Role /\ job[w] \in Jobs /\ job[w].doc \in Doc /\ PolicyName(job[w]) \in Policy
  BY <1>1, <1>2, CurrentType, JobType DEF PolicyName
<1>4. AfterCreateRole(job[w]) \in Calls
  BY DEF AfterCreateRole, Calls, Reconciling
<1>5. SUFFICES IAMTypeOK' /\ WorkersTypeOK'
  BY DEF TypeOK
<1>6. CASE CreateGetRole(w)
  BY <1>1, <1>2, <1>4, <1>6, GotoType, UnchangedType DEF CreateGetRole, Calls, Reconciling
<1>7. CASE AssumeGetRole(w)
  BY <1>1, <1>2, <1>7, GotoType, UnchangedType DEF AssumeGetRole, Calls, Reconciling
<1>8. CASE GetRolePolicy(w)
  BY <1>1, <1>2, <1>8, GotoType, RoleDoneType, UnchangedType
     DEF GetRolePolicy, Calls, Reconciling
<1>9. CASE DeleteGetRole(w)
  BY <1>1, <1>2, <1>9, GotoType, RoleDoneType, FailType, UnchangedType
     DEF DeleteGetRole, Calls, Deleting, DestroyingCalls
<1>10. CASE ListAttachedRolePolicies(w)
  <2>1. (IF Exists(r) THEN role[r].attached ELSE {}) \in SUBSET (Managed \union Policy)
    BY <1>2, <1>3 DEF IAMTypeOK, RoleRec, Exists
  <2> QED
    BY <1>1, <1>2, <1>10, <2>1, LoopType, UnchangedType
       DEF ListAttachedRolePolicies, Calls, Deleting, DestroyingCalls
<1>11. CASE ListRolePolicies(w)
  <2>1. (IF Exists(r) THEN InlinePolicies(r) ELSE {}) \in SUBSET (Managed \union Policy)
    BY DEF InlinePolicies
  <2> QED
    BY <1>1, <1>2, <1>11, <2>1, LoopType, UnchangedType
       DEF ListRolePolicies, Calls, Deleting, DestroyingCalls
<1>12. CASE CreateRole(w, lost)
  <2>1. {"owned"} \in SUBSET Tag
    BY DEF Tag
  <2> QED
    BY <1>1, <1>2, <1>3, <1>12, <2>1, CreateType, GotoType, FailType, UnchangedType
       DEF CreateRole, Calls, Reconciling
<1>13. CASE CreateInstanceProfile(w, lost)
  BY <1>1, <1>2, <1>3, <1>13, ProfileCallType, GotoType, FailType, UnchangedType
     DEF CreateInstanceProfile, Calls, Reconciling
<1>14. CASE AddRoleToInstanceProfile(w, lost)
  BY <1>1, <1>2, <1>3, <1>4, <1>14, ProfileCallType, GotoType, FailType, UnchangedType
     DEF AddRoleToInstanceProfile, Calls, Reconciling
<1>15. CASE UpdateAssumeRolePolicy(w, lost)
  BY <1>1, <1>2, <1>3, <1>15, RoleCallType, GotoType, FailType, UnchangedType
     DEF UpdateAssumeRolePolicy, Calls, Reconciling
<1>16. CASE AttachDeleteRolePolicy(w, lost)
  BY <1>1, <1>2, <1>3, <1>16, RoleCallType, GotoType, FailType, UnchangedType
     DEF AttachDeleteRolePolicy, Calls, Reconciling
<1>17. CASE PutRolePolicy(w, lost)
  BY <1>1, <1>2, <1>3, <1>17, RoleCallType, RoleDoneType, FailType, UnchangedType
     DEF PutRolePolicy
<1>18. CASE DetachRolePolicy(w, lost)
  <2>1. PICK m \in listed[w] :
           \/ /\ IAMDetachRolePolicy(r, m)
              /\ IF lost THEN Fail(w)
                 ELSE Loop(w, listed[w] \ {m}, "DetachRolePolicy", "ListRolePolicies")
           \/ Fail(w) /\ UNCHANGED iamVars
    BY <1>18 DEF DetachRolePolicy
  <2>2. listed[w] \ {m} \in SUBSET (Managed \union Policy)
    BY <1>2 DEF WorkersTypeOK
  <2> QED
    BY <1>1, <1>2, <1>3, <2>1, <2>2, RoleCallType, LoopType, FailType, UnchangedType
       DEF Calls, Deleting, DestroyingCalls
<1>19. CASE CleanDeleteRolePolicy(w, lost)
  <2> DEFINE Left(p) == Loop(w, listed[w] \ {p}, "clean.DeleteRolePolicy",
                             "RemoveRoleFromInstanceProfile")
  <2>1. PICK p \in listed[w] :
           \/ IAMDeleteRolePolicy(r, p) /\ IF lost THEN Fail(w) ELSE Left(p)
           \/ Left(p) /\ UNCHANGED iamVars
    BY <1>19 DEF CleanDeleteRolePolicy
  <2>2. listed[w] \ {p} \in SUBSET (Managed \union Policy)
    BY <1>2 DEF WorkersTypeOK
  <2>3. WorkersTypeOK'
    BY <1>1, <1>2, <2>1, <2>2, LoopType, FailType DEF Calls, Deleting, DestroyingCalls
  <2>4. IAMTypeOK'
    BY <1>2, <1>3, <2>1, UnchangedType
       DEF IAMTypeOK, IAMDeleteRolePolicy, HasInlinePolicy, Exists, RoleRec
  <2> QED BY <2>3, <2>4
<1>20. CASE RemoveRoleFromInstanceProfile(w, lost)
  BY <1>1, <1>2, <1>3, <1>20, ProfileCallType, GotoType, FailType, UnchangedType
     DEF RemoveRoleFromInstanceProfile, Calls, Deleting, DestroyingCalls
<1>21. CASE DeleteInstanceProfile(w, lost)
  BY <1>1, <1>2, <1>3, <1>21, ProfileCallType, GotoType, FailType, UnchangedType
     DEF DeleteInstanceProfile, Calls, Deleting, DestroyingCalls
<1>22. CASE DeleteRole(w, lost)
  BY <1>1, <1>2, <1>3, <1>22, RoleCallType, RoleDoneType, FailType, UnchangedType
     DEF DeleteRole
<1> QED
  BY <1>6, <1>7, <1>8, <1>9, <1>10, <1>11, <1>12, <1>13, <1>14, <1>15, <1>16, <1>17,
     <1>18, <1>19, <1>20, <1>21, <1>22 DEF Reads, Writes

LEMMA StartType ==
    ASSUME NEW w \in Worker, NEW j \in Jobs, TypeOK, Start(w, j)
    PROVE  TypeOK'
<1>1. JobRoles(j) \in Seq(Role) \ {<<>>}
  BY JobRolesType
<1>2. Entry(j) \in {"ok", "error", "create.GetRole", "delete.GetRole"}
  BY EntryType
<1>3. IAMTypeOK'
  BY UnchangedType DEF TypeOK, Start
<1>4. WorkersTypeOK'
  BY <1>1, <1>2, EmptySeq
     DEF TypeOK, WorkersTypeOK, Start, Busy, Resting, Reconciling, Deleting
<1> QED BY <1>3, <1>4 DEF TypeOK

LEMMA ElsewhereType ==
    ASSUME NEW r \in Role, TypeOK, Elsewhere(r)
    PROVE  TypeOK' /\ UNCHANGED workerVars
<1>1. IAMTypeOK /\ WorkersTypeOK
  BY DEF TypeOK
<1>2. UNCHANGED workerVars => WorkersTypeOK'
  BY <1>1 DEF WorkersTypeOK, workerVars, Busy
<1>3. SUFFICES IAMTypeOK' /\ UNCHANGED workerVars
  BY <1>2 DEF TypeOK
<1>4. ASSUME NEW kept \in SUBSET Tag, Adopt(r, kept)
      PROVE  IAMTypeOK' /\ UNCHANGED workerVars
  <2>1. kept \union {"crossplane"} \in SUBSET Tag
    BY DEF Tag
  <2> QED BY <1>1, <1>4, <2>1 DEF IAMTypeOK, Adopt, Exists, RoleRec
<1>5. ASSUME NEW tags \in SUBSET Tag, NEW d \in Doc, NEW p \in ProfileState,
             CreateElsewhere(r, tags, d, p)
      PROVE  IAMTypeOK' /\ UNCHANGED workerVars
  <2>1. NewRole(tags, d) \in RoleRec
    BY NewRoleType
  <2> QED BY <1>1, <1>5, <2>1 DEF IAMTypeOK, CreateElsewhere
<1>6. ASSUME NEW m \in Managed, AttachElsewhere(r, m)
      PROVE  IAMTypeOK' /\ UNCHANGED workerVars
  BY <1>1, <1>6 DEF IAMTypeOK, AttachElsewhere, Exists, RoleRec
<1>7. CASE RemoveByHand(r)
  BY <1>1, <1>7 DEF IAMTypeOK, RemoveByHand, ProfileState
<1> QED
  BY <1>4, <1>5, <1>6, <1>7 DEF Elsewhere

LEMMA CrashType ==
    ASSUME TypeOK, Crash
    PROVE  TypeOK'
BY EmptySeq DEF TypeOK, IAMTypeOK, WorkersTypeOK, Crash, iamVars, Busy, Resting

LEMMA InitType == Init => TypeOK
BY EmptySeq DEF Init, TypeOK, WorkersTypeOK, Busy, Resting

\* So does every step.
LEMMA NextType ==
    ASSUME TypeOK, [Next]_vars
    PROVE  TypeOK'
<1>1. ASSUME NEW w \in Worker, NEW j \in Jobs, Start(w, j) PROVE TypeOK'
  BY <1>1, StartType
<1>2. ASSUME NEW w \in Worker, Reads(w) PROVE TypeOK'
  BY <1>2, CallType
<1>3. ASSUME NEW w \in Worker, NEW lost \in BOOLEAN, Writes(w, lost) PROVE TypeOK'
  BY <1>3, CallType
<1>4. ASSUME NEW w \in Worker, CallFails(w) PROVE TypeOK'
  BY <1>4, FailType, UnchangedType DEF CallFails, TypeOK
<1>5. CASE Crash
  BY <1>5, CrashType
<1>6. ASSUME NEW r \in Role, Elsewhere(r) PROVE TypeOK'
  BY <1>6, ElsewhereType
<1>7. CASE UNCHANGED vars
  BY <1>7 DEF vars, iamVars, workerVars, TypeOK, IAMTypeOK, WorkersTypeOK, Busy
<1> QED
  BY <1>1, <1>2, <1>3, <1>4, <1>5, <1>6, <1>7 DEF Next

\* The calls, answers, failures and restarts of any number of workers, and
\* whatever others do in the AWS account, keep every type: in particular no
\* worker is in the middle of an operation without a role to work on.
THEOREM TypeCorrect == Spec => []TypeOK
<1>1. TypeOK /\ [Next]_vars => TypeOK'
  BY NextType
<1> QED
  BY InitType, <1>1, PTL DEF Spec

-----------------------------------------------------------------------------
(* How a worker moves on.                                                  *)

\* The verdict of the loop over the tags does not depend on their order.
LEMMA OwnershipOf ==
    ASSUME NEW tags, NEW listing \in Listings(tags)
    PROVE  /\ Ownership(listing) = "crossplane" <=> "crossplane" \in tags
           /\ Ownership(listing) = "operator" <=> "owned" \in tags /\ "crossplane" \notin tags
<1>1. \A i \in DOMAIN listing : listing[i] \in tags
  BY DEF Listings
<1>2. \A t \in tags : \E i \in DOMAIN listing : listing[i] = t
  BY DEF Listings
<1> QED BY <1>1, <1>2 DEF Ownership

\* How a call of w moves w through deleteRole: out of it, on within it, or
\* into it after the check of the role's tags.  Nobody else moves.
Leaves(w) == pc'[w] \notin DestroyingCalls
Stays(w) == pc[w] \in DestroyingCalls /\ todo' = todo
Enters(w) == /\ pc[w] = "delete.GetRole" /\ todo' = todo /\ UNCHANGED iamVars
             /\ Owned(Current(w)) /\ ~OfCrossplane(Current(w))

LEMMA CallPath ==
    ASSUME NEW w \in Worker, NEW lost \in BOOLEAN, TypeOK, Reads(w) \/ Writes(w, lost)
    PROVE  /\ Leaves(w) \/ Stays(w) \/ Enters(w)
           /\ \A v \in Worker \ {w} : pc'[v] = pc[v] /\ todo'[v] = todo[v]
<1>1. pc \in [Worker -> Resting \union Calls] /\ todo \in [Worker -> Seq(Role)] /\ job[w] \in Jobs
  BY DEF TypeOK, WorkersTypeOK, Calls
<1>2. Entry(job[w]) \notin DestroyingCalls
  BY <1>1, EntryType DEF DestroyingCalls
<1> DEFINE Others == \A v \in Worker \ {w} : pc'[v] = pc[v] /\ todo'[v] = todo[v]
<1>3. ASSUME Fail(w) PROVE Leaves(w) /\ Others
  BY <1>1, <1>3 DEF Fail, Leaves, DestroyingCalls
<1>4. ASSUME RoleDone(w) PROVE Leaves(w) /\ Others
  BY <1>1, <1>2, <1>4 DEF RoleDone, Leaves, DestroyingCalls
<1>5. ASSUME NEW c, Goto(w, c) PROVE pc'[w] = c /\ todo' = todo /\ Others
  BY <1>1, <1>5 DEF Goto
<1>6. ASSUME NEW left, NEW call, NEW after, Loop(w, left, call, after)
      PROVE  todo' = todo /\ Others
  BY <1>1, <1>6 DEF Loop
<1>7. AfterCreateRole(job[w]) \notin DestroyingCalls
  BY DEF AfterCreateRole, DestroyingCalls
<1>8. CASE CreateGetRole(w) \/ AssumeGetRole(w)
  BY <1>5, <1>7, <1>8 DEF CreateGetRole, AssumeGetRole, Leaves, DestroyingCalls
<1>9. CASE GetRolePolicy(w)
  BY <1>4, <1>5, <1>9 DEF GetRolePolicy, Leaves, DestroyingCalls
<1>10. CASE DeleteGetRole(w)
  <2>1. CASE RoleDone(w) \/ Fail(w)
    BY <1>3, <1>4, <2>1
  <2>2. CASE ~(RoleDone(w) \/ Fail(w))
    <3>1. PICK listing \in Listings(role[Current(w)].tags) :
             Ownership(listing) = "operator" /\ Goto(w, "ListAttachedRolePolicies")
      BY <1>10, <2>2 DEF DeleteGetRole
    <3>2. Exists(Current(w)) /\ pc[w] = "delete.GetRole" /\ UNCHANGED iamVars
      BY <1>10, <2>2 DEF DeleteGetRole
    <3>3. Owned(Current(w)) /\ ~OfCrossplane(Current(w))
      BY <3>1, <3>2, OwnershipOf DEF Owned, OfCrossplane
    <3> QED BY <1>5, <3>1, <3>2, <3>3 DEF Enters
  <2> QED BY <2>1, <2>2
<1>11. CASE CreateRole(w, lost) \/ CreateInstanceProfile(w, lost) \/ AddRoleToInstanceProfile(w, lost)
  BY <1>3, <1>5, <1>7, <1>11
     DEF CreateRole, CreateInstanceProfile, AddRoleToInstanceProfile, Leaves, DestroyingCalls
<1>12. CASE \/ UpdateAssumeRolePolicy(w, lost) \/ AttachDeleteRolePolicy(w, lost)
            \/ PutRolePolicy(w, lost)
  BY <1>3, <1>4, <1>5, <1>12
     DEF UpdateAssumeRolePolicy, AttachDeleteRolePolicy, PutRolePolicy, Leaves, DestroyingCalls
<1>13. CASE ListAttachedRolePolicies(w) \/ ListRolePolicies(w)
  BY <1>6, <1>13 DEF ListAttachedRolePolicies, ListRolePolicies, Stays, DestroyingCalls
<1>14. CASE DetachRolePolicy(w, lost) \/ CleanDeleteRolePolicy(w, lost)
  BY <1>3, <1>6, <1>14 DEF DetachRolePolicy, CleanDeleteRolePolicy, Stays, DestroyingCalls
<1>15. CASE RemoveRoleFromInstanceProfile(w, lost) \/ DeleteInstanceProfile(w, lost)
  BY <1>3, <1>5, <1>15
     DEF RemoveRoleFromInstanceProfile, DeleteInstanceProfile, Stays, DestroyingCalls
<1>16. CASE DeleteRole(w, lost)
  BY <1>3, <1>4, <1>16 DEF DeleteRole
<1> QED
  BY <1>8, <1>9, <1>10, <1>11, <1>12, <1>13, <1>14, <1>15, <1>16 DEF Reads, Writes

\* A call never changes the tags of a role that exists before and after it,
\* and a role that it makes is the operator's own.
LEMMA CallKeepsTags ==
    ASSUME NEW w \in Worker, NEW lost \in BOOLEAN, TypeOK, Reads(w) \/ Writes(w, lost),
           NEW r \in Role, Exists(r)'
    PROVE  role'[r].tags = IF Exists(r) THEN role[r].tags ELSE {"owned"}
<1>1. role \in [Role -> RoleRec \union {NoRole}]
  BY DEF TypeOK, IAMTypeOK
<1>2. ASSUME UNCHANGED iamVars PROVE role'[r].tags = IF Exists(r) THEN role[r].tags ELSE {"owned"}
  BY <1>2 DEF iamVars, Exists
<1> USE DEF Exists
<1>3. CASE Reads(w)
  BY <1>2, <1>3 DEF Reads, CreateGetRole, AssumeGetRole, GetRolePolicy, DeleteGetRole,
                    ListAttachedRolePolicies, ListRolePolicies
<1>4. CASE CreateRole(w, lost)
  BY <1>1, <1>2, <1>4 DEF CreateRole, IAMCreateRole, NewRole
<1>5. CASE \/ CreateInstanceProfile(w, lost) \/ AddRoleToInstanceProfile(w, lost)
           \/ RemoveRoleFromInstanceProfile(w, lost) \/ DeleteInstanceProfile(w, lost)
  BY <1>2, <1>5
     DEF CreateInstanceProfile, AddRoleToInstanceProfile, RemoveRoleFromInstanceProfile,
         DeleteInstanceProfile, IAMCreateInstanceProfile, IAMAddRoleToInstanceProfile,
         IAMRemoveRoleFromInstanceProfile, IAMDeleteInstanceProfile
<1>6. CASE UpdateAssumeRolePolicy(w, lost)
  BY <1>1, <1>2, <1>6 DEF UpdateAssumeRolePolicy, IAMUpdateAssumeRolePolicy, RoleRec
<1>7. CASE AttachDeleteRolePolicy(w, lost)
  BY <1>1, <1>2, <1>7 DEF AttachDeleteRolePolicy, IAMDeleteRolePolicy, HasInlinePolicy, RoleRec
<1>8. CASE PutRolePolicy(w, lost)
  BY <1>1, <1>2, <1>8 DEF PutRolePolicy, IAMPutRolePolicy, RoleRec
<1>9. CASE DetachRolePolicy(w, lost)
  BY <1>1, <1>2, <1>9 DEF DetachRolePolicy, IAMDetachRolePolicy, HasAttached, RoleRec
<1>10. CASE CleanDeleteRolePolicy(w, lost)
  BY <1>1, <1>2, <1>10 DEF CleanDeleteRolePolicy, IAMDeleteRolePolicy, HasInlinePolicy, RoleRec
<1>11. CASE DeleteRole(w, lost)
  BY <1>1, <1>2, <1>11 DEF DeleteRole, IAMDeleteRole, Deletable
<1> QED
  BY <1>3, <1>4, <1>5, <1>6, <1>7, <1>8, <1>9, <1>10, <1>11 DEF Writes

-----------------------------------------------------------------------------
(* Roles survive upgrades.                                                 *)

\* A call makes a role go away only in one place.
LEMMA CallRemoves ==
    ASSUME NEW w \in Worker, NEW lost \in BOOLEAN, TypeOK, Reads(w) \/ Writes(w, lost),
           NEW r \in Role, Exists(r), ~Exists(r)'
    PROVE  pc[w] = "DeleteRole" /\ Current(w) = r
<1>1. role \in [Role -> RoleRec \union {NoRole}] /\ role[r] \in RoleRec /\ role'[r] = NoRole
  BY DEF TypeOK, IAMTypeOK, Exists
<1>2. ~UNCHANGED role
  BY <1>1 DEF Exists
<1>3. CASE Reads(w)
  BY <1>2, <1>3 DEF Reads, CreateGetRole, AssumeGetRole, GetRolePolicy, DeleteGetRole,
                    ListAttachedRolePolicies, ListRolePolicies, iamVars
<1>4. CASE CreateRole(w, lost)
  BY <1>1, <1>2, <1>4 DEF CreateRole, IAMCreateRole, NewRole, Exists, iamVars
<1>5. CASE \/ CreateInstanceProfile(w, lost) \/ AddRoleToInstanceProfile(w, lost)
           \/ RemoveRoleFromInstanceProfile(w, lost) \/ DeleteInstanceProfile(w, lost)
  BY <1>2, <1>5
     DEF CreateInstanceProfile, AddRoleToInstanceProfile, RemoveRoleFromInstanceProfile,
         DeleteInstanceProfile, IAMCreateInstanceProfile, IAMAddRoleToInstanceProfile,
         IAMRemoveRoleFromInstanceProfile, IAMDeleteInstanceProfile, iamVars
<1>6. ASSUME NEW q, role' = [role EXCEPT ![Current(w)] = q], q \in RoleRec PROVE FALSE
  BY <1>1, <1>6, IAMAssumption
<1>7. ASSUME NEW p, NEW d \in Doc \union {NoDoc},
             Exists(Current(w)), role' = [role EXCEPT ![Current(w)].inline[p] = d]
      PROVE  FALSE
  <2>1. CASE Current(w) \in Role
    <3>1. role[Current(w)] \in RoleRec
      BY <1>1, <2>1, <1>7 DEF Exists
    <3>2. [role[Current(w)] EXCEPT !.inline[p] = d] \in RoleRec
      BY <3>1, <1>7 DEF RoleRec
    <3> QED BY <1>6, <1>7, <3>2
  <2>2. CASE Current(w) \notin Role
    BY <1>1, <1>2, <1>7, <2>2
  <2> QED BY <2>1, <2>2
<1>8. CASE AttachDeleteRolePolicy(w, lost)
  BY <1>2, <1>7, <1>8 DEF AttachDeleteRolePolicy, IAMDeleteRolePolicy, HasInlinePolicy, iamVars
<1>9. CASE PutRolePolicy(w, lost)
  <2>1. Busy(w) /\ WorkersTypeOK
    BY <1>9 DEF PutRolePolicy, Busy, Resting, TypeOK
  <2>2. job[w].doc \in Doc
    BY <2>1, CurrentType, JobType
  <2> QED BY <1>2, <1>7, <1>9, <2>2 DEF PutRolePolicy, IAMPutRolePolicy, iamVars
<1>10. CASE CleanDeleteRolePolicy(w, lost)
  BY <1>2, <1>7, <1>10 DEF CleanDeleteRolePolicy, IAMDeleteRolePolicy, HasInlinePolicy, iamVars
<1>11. CASE UpdateAssumeRolePolicy(w, lost)
  <2>1. Busy(w) /\ WorkersTypeOK
    BY <1>11 DEF UpdateAssumeRolePolicy, Busy, Resting, TypeOK
  <2>2. job[w].doc \in Doc /\ Current(w) \in Role
    BY <2>1, CurrentType, JobType
  <2> QED
    BY <1>1, <1>2, <1>11, <2>2, IAMAssumption
       DEF UpdateAssumeRolePolicy, IAMUpdateAssumeRolePolicy, iamVars, Exists, RoleRec
<1>12. CASE DetachRolePolicy(w, lost)
  <2>1. Busy(w) /\ WorkersTypeOK
    BY <1>12 DEF DetachRolePolicy, Busy, Resting, TypeOK
  <2>2. Current(w) \in Role
    BY <2>1, CurrentType
  <2> QED
    BY <1>1, <1>2, <1>12, <2>2, IAMAssumption
       DEF DetachRolePolicy, IAMDetachRolePolicy, HasAttached, iamVars, Exists, RoleRec
<1>13. CASE DeleteRole(w, lost)
  BY <1>1, <1>2, <1>13 DEF DeleteRole, IAMDeleteRole, iamVars, Exists
<1> QED
  BY <1>3, <1>4, <1>5, <1>8, <1>9, <1>10, <1>11, <1>12, <1>13 DEF Writes

\* What the entry of a job says about it.
LEMMA EntryMeans ==
    ASSUME NEW j \in Jobs
    PROVE  /\ Entry(j) = "create.GetRole" => Makes(j)
           /\ Entry(j) = "delete.GetRole" => MayDelete(j)
           /\ Entry(j) = "ok" => ~Makes(j) /\ ~MayDelete(j)
           /\ ~(Makes(j) /\ MayDelete(j))
<1>1. j.op \in Operation /\ j.release \in Nat
  BY ServiceAssumption DEF Job
<1>2. CASE j.op = "ReconcileRole" \/ j.op = "ReconcileRolesForIRSA"
  <2>1. Entry(j) = ReconcileEntry(j)
    BY <1>2 DEF Entry
  <2>2. MayDelete(j) <=> j.release >= 35 /\ ~NodeRole(j)
    BY <1>2 DEF MayDelete, Reconciles
  <2>3. Makes(j) <=> j.release < 34 \/ (j.release < 35 /\ ~NodeRole(j))
    BY <1>1, <1>2 DEF Makes, Reconciles
  <2>4. LeftToCrossplane(j) <=> NodeRole(j) /\ j.release >= 34
    BY DEF LeftToCrossplane, GiantSwarmReleaseCrossplaneNodesIAMRoles
  <2>5. /\ ReconcileEntry(j) = "ok" => LeftToCrossplane(j)
        /\ ReconcileEntry(j) = "delete.GetRole" => ~LeftToCrossplane(j) /\ j.release >= 35
        /\ ReconcileEntry(j) = "create.GetRole" => ~LeftToCrossplane(j) /\ ~(j.release >= 35)
    BY DEF ReconcileEntry, GiantSwarmReleaseDeleteCAPAIAMOperatorRoles
  <2> QED
    BY <1>1, <2>1, <2>2, <2>3, <2>4, <2>5
<1>3. CASE j.op = "DeleteRole"
  BY <1>1, <1>3
     DEF Entry, DeleteRoleEntry, Makes, MayDelete, Reconciles, LeftToCrossplane, NodeRole,
         GiantSwarmReleaseCrossplaneNodesIAMRoles
<1>4. CASE j.op = "DeleteRolesForIRSA"
  BY <1>1, <1>4 DEF Entry, DeleteRolesForIRSAEntry, Makes, MayDelete, Reconciles
<1> QED BY <1>1, <1>2, <1>3, <1>4 DEF Operation

\* The invariant behind RolesOutliveUpgrades: a worker does what its job may do.
Trusting == {"assume.GetRole", "UpdateAssumeRolePolicy"}

Licensed == \A w \in Worker : /\ pc[w] \in Reconciling => Makes(job[w])
                              /\ pc[w] \in Deleting => MayDelete(job[w])
                              /\ pc[w] \in Trusting => AppliesAssumePolicy(job[w])

\* A call ends the job, goes on to the job's next role, or stays in the same
\* operation, and turns to the trust policy only where the job does so.
LEMMA CallLicense ==
    ASSUME NEW w \in Worker, NEW lost \in BOOLEAN, TypeOK, Reads(w) \/ Writes(w, lost)
    PROVE  \/ pc'[w] \in Resting \union {Entry(job[w])}
           \/ /\ pc[w] \in Reconciling /\ pc'[w] \in Reconciling
              /\ pc'[w] \in Trusting => pc[w] \in Trusting \/ AppliesAssumePolicy(job[w])
           \/ pc[w] \in Deleting /\ pc'[w] \in Deleting
<1>1. pc \in [Worker -> Resting \union Calls] /\ job[w] \in Jobs
  BY DEF TypeOK, WorkersTypeOK, Calls
<1>2. Fail(w) \/ RoleDone(w) => pc'[w] \in Resting \union {Entry(job[w])}
  BY <1>1 DEF Fail, RoleDone, Resting
<1>3. ASSUME NEW c, Goto(w, c) PROVE pc'[w] = c
  BY <1>1, <1>3 DEF Goto
<1>4. ASSUME NEW left, NEW call, NEW after, Loop(w, left, call, after)
      PROVE  pc'[w] \in {call, after}
  BY <1>1, <1>4 DEF Loop
<1>5. /\ AfterCreateRole(job[w]) \in {"assume.GetRole", "GetRolePolicy"}
      /\ AfterCreateRole(job[w]) \in Trusting => AppliesAssumePolicy(job[w])
  BY DEF AfterCreateRole, Trusting
<1>6. CASE CreateGetRole(w) \/ AssumeGetRole(w)
  BY <1>3, <1>5, <1>6 DEF CreateGetRole, AssumeGetRole, Reconciling, Trusting
<1>7. CASE GetRolePolicy(w)
  BY <1>2, <1>3, <1>7 DEF GetRolePolicy, Reconciling, Trusting
<1>8. CASE DeleteGetRole(w)
  BY <1>2, <1>3, <1>8 DEF DeleteGetRole, Deleting, DestroyingCalls
<1>9. CASE ListAttachedRolePolicies(w) \/ ListRolePolicies(w)
  <2>1. /\ pc[w] \in Deleting
        /\ pc'[w] \in {"DetachRolePolicy", "ListRolePolicies", "clean.DeleteRolePolicy",
                       "RemoveRoleFromInstanceProfile"}
    BY <1>4, <1>9 DEF ListAttachedRolePolicies, ListRolePolicies, Deleting, DestroyingCalls
  <2> QED BY <2>1 DEF Deleting, DestroyingCalls
<1>10. CASE CreateRole(w, lost) \/ CreateInstanceProfile(w, lost) \/ AddRoleToInstanceProfile(w, lost)
  BY <1>2, <1>3, <1>5, <1>10
     DEF CreateRole, CreateInstanceProfile, AddRoleToInstanceProfile, Reconciling, Trusting
<1>11. CASE \/ UpdateAssumeRolePolicy(w, lost) \/ AttachDeleteRolePolicy(w, lost)
            \/ PutRolePolicy(w, lost)
  BY <1>2, <1>3, <1>11
     DEF UpdateAssumeRolePolicy, AttachDeleteRolePolicy, PutRolePolicy, Reconciling, Trusting
<1>12. CASE DetachRolePolicy(w, lost) \/ CleanDeleteRolePolicy(w, lost)
  <2>1. \/ Fail(w)
        \/ /\ pc[w] \in Deleting
           /\ pc'[w] \in {"DetachRolePolicy", "ListRolePolicies", "clean.DeleteRolePolicy",
                          "RemoveRoleFromInstanceProfile"}
    BY <1>4, <1>12 DEF DetachRolePolicy, CleanDeleteRolePolicy, Deleting, DestroyingCalls
  <2> QED BY <1>2, <2>1 DEF Deleting, DestroyingCalls
<1>13. CASE \/ RemoveRoleFromInstanceProfile(w, lost) \/ DeleteInstanceProfile(w, lost)
            \/ DeleteRole(w, lost)
  BY <1>2, <1>3, <1>13
     DEF RemoveRoleFromInstanceProfile, DeleteInstanceProfile, DeleteRole, Deleting,
         DestroyingCalls
<1> QED
  BY <1>6, <1>7, <1>8, <1>9, <1>10, <1>11, <1>12, <1>13 DEF Reads, Writes

\* No call changes a job.
LEMMA CallKeepsJob ==
    ASSUME NEW w \in Worker, NEW lost \in BOOLEAN, Reads(w) \/ Writes(w, lost)
    PROVE  job' = job
BY DEF Reads, Writes, Goto, Fail, RoleDone, Loop, CreateGetRole, AssumeGetRole, GetRolePolicy,
       DeleteGetRole, ListAttachedRolePolicies, ListRolePolicies, CreateRole,
       CreateInstanceProfile, AddRoleToInstanceProfile, UpdateAssumeRolePolicy,
       AttachDeleteRolePolicy, PutRolePolicy, DetachRolePolicy, CleanDeleteRolePolicy,
       RemoveRoleFromInstanceProfile, DeleteInstanceProfile, DeleteRole

LEMMA LicensedStep ==
    ASSUME TypeOK, Licensed, [Next]_vars
    PROVE  Licensed'
<1> DEFINE L(v) == /\ pc[v] \in Reconciling => Makes(job[v])
                   /\ pc[v] \in Deleting => MayDelete(job[v])
                   /\ pc[v] \in Trusting => AppliesAssumePolicy(job[v])
<1> SUFFICES ASSUME NEW v \in Worker PROVE L(v)'
  BY DEF Licensed
<1>1. pc \in [Worker -> Resting \union Calls] /\ job \in [Worker -> Jobs] /\ L(v)
  BY DEF TypeOK, WorkersTypeOK, Calls, Licensed
<1>2. ASSUME pc'[v] \in Resting PROVE L(v)'
  BY <1>2 DEF Resting, Reconciling, Deleting, DestroyingCalls, Trusting
<1>3. ASSUME NEW j \in Jobs, job'[v] = j, pc'[v] = Entry(j) PROVE L(v)'
  BY <1>3, EntryType, EntryMeans DEF Reconciling, Deleting, DestroyingCalls, Trusting
<1>4. ASSUME pc'[v] = pc[v], job'[v] = job[v] PROVE L(v)'
  BY <1>1, <1>4
<1>5. ASSUME NEW w \in Worker, NEW lost \in BOOLEAN, Reads(w) \/ Writes(w, lost) PROVE L(v)'
  <2>1. job' = job
    BY <1>5, CallKeepsJob
  <2>2. CASE v = w
    <3>1. CASE pc'[v] \in Resting \union {Entry(job[v])}
      BY <1>1, <1>2, <1>3, <2>1, <3>1
    <3>2. CASE pc'[v] \in Reconciling
      BY <1>1, <1>5, <2>1, <2>2, <3>1, <3>2, CallLicense
         DEF Reconciling, Deleting, DestroyingCalls
    <3>3. CASE pc'[v] \in Deleting
      BY <1>1, <1>5, <2>1, <2>2, <3>1, <3>3, CallLicense
         DEF Reconciling, Deleting, DestroyingCalls, Trusting
    <3> QED BY <1>5, <2>2, <3>1, <3>2, <3>3, CallLicense
  <2>3. CASE v # w
    BY <1>4, <1>5, <2>1, <2>3, CallPath
  <2> QED BY <2>2, <2>3
<1>6. ASSUME NEW w \in Worker, NEW j \in Jobs, Start(w, j) PROVE L(v)'
  <2>1. CASE v = w
    BY <1>1, <1>3, <1>6, <2>1 DEF Start
  <2>2. CASE v # w
    BY <1>1, <1>4, <1>6, <2>2 DEF Start
  <2> QED BY <2>1, <2>2
<1>7. ASSUME NEW w \in Worker, CallFails(w) PROVE L(v)'
  BY <1>1, <1>2, <1>4, <1>7 DEF CallFails, Fail, Resting
<1>8. CASE Crash
  BY <1>2, <1>8 DEF Crash, Resting
<1>9. CASE (\E q \in Role : Elsewhere(q)) \/ UNCHANGED vars
  BY <1>4, <1>9, ElsewhereType DEF vars, workerVars
<1> QED
  BY <1>5, <1>6, <1>7, <1>8, <1>9 DEF Next

LEMMA LicensedHolds == Spec => []Licensed
<1>1. Init => Licensed
  BY DEF Init, Licensed, Reconciling, Deleting, DestroyingCalls, Trusting
<1> QED
  BY TypeCorrect, <1>1, LicensedStep, PTL DEF Spec

\* A role goes away only by a job that may delete it, whatever the jobs, their
\* releases and their interleaving, if no engineer removes roles by hand.
THEOREM UpgradesSpareRoles ==
    ASSUME "remove" \notin Environment
    PROVE  Spec => RolesOutliveUpgrades
<1> DEFINE Outlives == \A r \in Role : Exists(r) /\ ~Exists(r)' =>
        \E w \in Worker : pc[w] = "DeleteRole" /\ Current(w) = r /\ MayDelete(job[w])
<1>1. TypeOK /\ Licensed /\ [Next]_vars => [Outlives]_vars
  <2> SUFFICES ASSUME TypeOK, Licensed, [Next]_vars,
                      NEW r \in Role, Exists(r), ~Exists(r)'
               PROVE  \E w \in Worker : /\ pc[w] = "DeleteRole" /\ Current(w) = r
                                        /\ MayDelete(job[w])
    OBVIOUS
  <2>1. role[r] \in RoleRec /\ role'[r] = NoRole /\ role \in [Role -> RoleRec \union {NoRole}]
    BY DEF TypeOK, IAMTypeOK, Exists
  <2>2. ~UNCHANGED iamVars
    BY DEF iamVars, Exists
  <2>3. PICK w \in Worker : Reads(w) \/ \E lost \in BOOLEAN : Writes(w, lost)
    <3>1. ASSUME NEW q \in Role, Elsewhere(q) PROVE FALSE
      <4>1. ASSUME NEW t, t \in RoleRec, role' = [role EXCEPT ![q] = t] PROVE FALSE
        BY <2>1, <4>1, IAMAssumption
      <4>2. ASSUME NEW kept \in SUBSET Tag, Adopt(q, kept) PROVE FALSE
        <5>1. [role[q] EXCEPT !.tags = kept \union {"crossplane"}] \in RoleRec
          BY <2>1, <4>2 DEF Adopt, Exists, RoleRec, Tag
        <5> QED BY <2>1, <4>1, <4>2, <5>1 DEF Adopt
      <4>3. ASSUME NEW tags \in SUBSET Tag, NEW d \in Doc, NEW p \in ProfileState,
                   CreateElsewhere(q, tags, d, p)
            PROVE  FALSE
        BY <4>1, <4>3, NewRoleType DEF CreateElsewhere
      <4>4. ASSUME NEW m \in Managed, AttachElsewhere(q, m) PROVE FALSE
        <5>1. [role[q] EXCEPT !.attached = @ \union {m}] \in RoleRec
          BY <2>1, <4>4 DEF AttachElsewhere, Exists, RoleRec
        <5> QED BY <2>1, <4>1, <4>4, <5>1 DEF AttachElsewhere
      <4>5. RemoveByHand(q) => FALSE
        BY DEF RemoveByHand
      <4> QED BY <3>1, <4>2, <4>3, <4>4, <4>5 DEF Elsewhere
    <3> QED
      BY <2>2, <3>1 DEF Next, Start, CallFails, Crash, vars
  <2>4. pc[w] = "DeleteRole" /\ Current(w) = r
    BY <2>3, CallRemoves
  <2> QED BY <2>4 DEF Licensed, Deleting, DestroyingCalls
<1> QED
  BY TypeCorrect, LicensedHolds, <1>1, PTL DEF Spec, RolesOutliveUpgrades

-----------------------------------------------------------------------------
(* A worker treats the roles of its job only.                              *)

\* The roles a worker has still to treat.
Left(w) == {todo[w][i] : i \in 1 .. Len(todo[w])}

\* A worker has only roles of its job before it.
AtOwnRoles == \A w \in Worker : Busy(w) => Left(w) \subseteq RolesOf(job[w])

\* A worker goes on with the same roles, with the rest of them or with none.
LEMMA CallShortensTodo ==
    ASSUME NEW w \in Worker, NEW lost \in BOOLEAN, TypeOK, Reads(w) \/ Writes(w, lost)
    PROVE  todo'[w] \in {todo[w], Tail(todo[w]), <<>>}
<1>1. todo \in [Worker -> Seq(Role)]
  BY DEF TypeOK, WorkersTypeOK
<1>2. Fail(w) \/ RoleDone(w) => todo'[w] \in {Tail(todo[w]), <<>>}
  BY <1>1 DEF Fail, RoleDone
<1>3. ASSUME NEW c, Goto(w, c) PROVE todo' = todo
  BY <1>3 DEF Goto
<1>4. ASSUME NEW left, NEW c, NEW after, Loop(w, left, c, after) PROVE todo' = todo
  BY <1>4 DEF Loop
<1>5. CASE Reads(w)
  BY <1>2, <1>3, <1>4, <1>5
     DEF Reads, CreateGetRole, AssumeGetRole, GetRolePolicy, DeleteGetRole,
         ListAttachedRolePolicies, ListRolePolicies
<1>6. CASE \/ CreateRole(w, lost) \/ CreateInstanceProfile(w, lost)
           \/ AddRoleToInstanceProfile(w, lost) \/ UpdateAssumeRolePolicy(w, lost)
           \/ AttachDeleteRolePolicy(w, lost) \/ PutRolePolicy(w, lost)
  BY <1>2, <1>3, <1>6
     DEF CreateRole, CreateInstanceProfile, AddRoleToInstanceProfile,
         UpdateAssumeRolePolicy, AttachDeleteRolePolicy, PutRolePolicy
<1>7. CASE \/ RemoveRoleFromInstanceProfile(w, lost) \/ DeleteInstanceProfile(w, lost)
           \/ DeleteRole(w, lost)
  BY <1>2, <1>3, <1>7 DEF RemoveRoleFromInstanceProfile, DeleteInstanceProfile, DeleteRole
<1>8. CASE DetachRolePolicy(w, lost) \/ CleanDeleteRolePolicy(w, lost)
  BY <1>2, <1>4, <1>8 DEF DetachRolePolicy, CleanDeleteRolePolicy
<1> QED BY <1>5, <1>6, <1>7, <1>8 DEF Writes

LEMMA LeftShrinks ==
    ASSUME NEW w \in Worker, TypeOK, Busy(w), todo'[w] \in {todo[w], Tail(todo[w]), <<>>}
    PROVE  Left(w)' \subseteq Left(w)
<1>1. todo[w] \in Seq(Role) /\ todo[w] # <<>>
  BY DEF TypeOK, WorkersTypeOK
<1>2. ASSUME NEW s \in Seq(Role), s # <<>>
      PROVE  /\ Len(s) \in Nat /\ Len(Tail(s)) = Len(s) - 1
             /\ \A i \in 1 .. Len(Tail(s)) : Tail(s)[i] = s[i + 1]
  BY <1>2
<1>3. CASE todo'[w] = Tail(todo[w])
  <2>1. ASSUME NEW i \in 1 .. Len(todo'[w])
        PROVE  i + 1 \in 1 .. Len(todo[w]) /\ todo'[w][i] = todo[w][i + 1]
    BY <1>1, <1>2, <1>3
  <2> QED BY <2>1 DEF Left
<1>4. CASE todo'[w] = <<>>
  <2>1. Left(w)' = {}
    BY <1>4, EmptySeq DEF Left
  <2> QED BY <2>1
<1>5. CASE todo'[w] = todo[w]
  BY <1>5 DEF Left
<1> QED BY <1>3, <1>4, <1>5

LEMMA AtOwnRolesStep ==
    ASSUME TypeOK, AtOwnRoles, [Next]_vars
    PROVE  AtOwnRoles'
<1> SUFFICES ASSUME NEW w \in Worker, Busy(w)' PROVE Left(w)' \subseteq RolesOf(job[w])'
  BY DEF AtOwnRoles
<1>1. ASSUME pc'[w] = pc[w], todo'[w] = todo[w], job'[w] = job[w]
      PROVE  Left(w)' \subseteq RolesOf(job[w])'
  <2>1. Busy(w) /\ Left(w)' = Left(w) /\ RolesOf(job[w])' = RolesOf(job[w])
    BY <1>1 DEF Busy, Left, RolesOf, JobRoles, ForIRSA
  <2> QED BY <2>1 DEF AtOwnRoles
<1>2. ASSUME NEW v \in Worker, NEW lost \in BOOLEAN, Reads(v) \/ Writes(v, lost)
      PROVE  Left(w)' \subseteq RolesOf(job[w])'
  <2>1. job' = job
    BY <1>2, CallKeepsJob
  <2>2. CASE v = w
    <3>1. Busy(w) /\ Left(w)' \subseteq Left(w)
      BY <1>2, <2>2, CallIsBusy, CallShortensTodo, LeftShrinks
    <3>2. RolesOf(job[w])' = RolesOf(job[w])
      BY <2>1 DEF RolesOf, JobRoles, ForIRSA
    <3> QED BY <3>1, <3>2 DEF AtOwnRoles
  <2>3. CASE v # w
    BY <1>1, <1>2, <2>1, <2>3, CallPath
  <2> QED BY <2>2, <2>3
<1>3. ASSUME NEW v \in Worker, NEW j \in Jobs, Start(v, j)
      PROVE  Left(w)' \subseteq RolesOf(job[w])'
  <2>1. pc \in [Worker -> Resting \union Calls] /\ job \in [Worker -> Jobs] /\ todo \in [Worker -> Seq(Role)]
    BY DEF TypeOK, WorkersTypeOK, Calls
  <2>2. CASE v = w
    <3>1. /\ pc'[w] = Entry(j) /\ job'[w] = j
          /\ todo'[w] = IF Entry(j) \in Resting THEN <<>> ELSE JobRoles(j)
      BY <1>3, <2>1, <2>2 DEF Start
    <3>2. todo'[w] = JobRoles(j)
      BY <3>1 DEF Busy
    <3> QED BY <3>1, <3>2 DEF Left, RolesOf
  <2>3. CASE v # w
    BY <1>1, <1>3, <2>1, <2>3 DEF Start
  <2> QED BY <2>2, <2>3
<1>4. ASSUME NEW v \in Worker, CallFails(v) PROVE Left(w)' \subseteq RolesOf(job[w])'
  BY <1>1, <1>4 DEF CallFails, Fail, Busy, Resting, TypeOK, WorkersTypeOK
<1>5. CASE Crash
  BY <1>5 DEF Crash, Busy, Resting
<1>6. (\E q \in Role : Elsewhere(q)) \/ UNCHANGED vars => UNCHANGED workerVars
  BY ElsewhereType DEF vars
<1> QED
  BY <1>1, <1>2, <1>3, <1>4, <1>5, <1>6 DEF Next, workerVars

LEMMA AtOwnRolesHolds == Spec => []AtOwnRoles
<1>1. Init => AtOwnRoles
  BY DEF Init, AtOwnRoles, Busy, Resting
<1> QED
  BY TypeCorrect, <1>1, AtOwnRolesStep, PTL DEF Spec

-----------------------------------------------------------------------------
(* IAMService implements RoleOwnership.                                    *)

\* The calls of IAM mean the same in both.
LEMMA SameCalls ==
    ASSUME NEW r
    PROVE  /\ Promise!Mine(r) <=> Owned(r) /\ ~OfCrossplane(r)
           /\ Promise!Exists(r) <=> Exists(r)
           /\ Promise!OfCrossplane(r) <=> OfCrossplane(r)
           /\ Promise!iamVars = iamVars
           /\ Promise!Doomed(r) <=> \E w \in Worker : <<w, r>> \in Condemned
           /\ \A tags, d : Promise!NewRole(tags, d) = NewRole(tags, d)
BY DEF Promise!Mine, Promise!Owned, Promise!OfCrossplane, Promise!Exists, Owned, OfCrossplane,
       Exists, Promise!iamVars, iamVars, Promise!Doomed, Promise!NewRole, NewRole

\* A call of w leaves the other workers' deletions alone, and either condemns
\* no role or only condemns its own, which is the operator's at that moment.
LEMMA CallCondemns ==
    ASSUME NEW w \in Worker, NEW lost \in BOOLEAN, TypeOK, Reads(w) \/ Writes(w, lost)
    PROVE  \/ Condemned' \subseteq Condemned
           \/ Promise!Condemn(w, Current(w))
<1>1. \A v \in Worker \ {w} : pc'[v] = pc[v] /\ todo'[v] = todo[v]
  BY CallPath
<1>2. \A v \in Worker \ {w}, r \in Role : Destroying(v, r)' <=> Destroying(v, r)
  BY <1>1 DEF Destroying, Current
<1>3. CASE Leaves(w) \/ Stays(w)
  <2>1. \A r \in Role : Destroying(w, r)' => Destroying(w, r)
    BY <1>3 DEF Leaves, Stays, Destroying, Current
  <2> QED BY <1>2, <2>1 DEF Condemned
<1>4. CASE Enters(w) /\ ~Leaves(w)
  <2>1. Current(w) \in Role
    BY CallIsBusy, CurrentType DEF TypeOK
  <2>2. \A r \in Role : Destroying(w, r)' <=> r = Current(w)
    BY <1>4, <2>1 DEF Enters, Leaves, Destroying, Current
  <2>3. \A r \in Role : ~Destroying(w, r)
    BY <1>4 DEF Enters, Destroying, DestroyingCalls
  <2>4. Condemned' = Condemned \union {<<w, Current(w)>>}
    BY <1>2, <2>1, <2>2, <2>3 DEF Condemned
  <2>5. Promise!Mine(Current(w)) /\ UNCHANGED Promise!iamVars
    BY <1>4, SameCalls DEF Enters, Promise!iamVars, iamVars
  <2> QED BY <2>4, <2>5 DEF Promise!Condemn
<1> QED BY <1>3, <1>4, CallPath

\* What a call of a worker does to IAM is what the promise allows.
LEMMA CallIsPromised ==
    ASSUME NEW w \in Worker, NEW lost \in BOOLEAN, TypeOK, Licensed, AtOwnRoles,
           Reads(w) \/ Writes(w, lost)
    PROVE  \/ UNCHANGED iamVars
           \/ \E r \in Role : Promise!Make(r) \/ Promise!Rewrite(r) \/ Promise!Destroy(r)
<1> DEFINE r == Current(w)
<1>1. Busy(w)
  BY CallIsBusy
<1>2. r \in Role /\ job[w] \in Jobs /\ job[w].doc \in Doc /\ PolicyName(job[w]) \in Policy
  BY <1>1, CurrentType, JobType DEF TypeOK, PolicyName
<1>3. role \in [Role -> RoleRec \union {NoRole}] /\ listed[w] \subseteq Managed \union Policy
  BY DEF TypeOK, IAMTypeOK, WorkersTypeOK
<1>4. ASSUME pc[w] \in Reconciling
      PROVE  Makes(job[w]) /\ PolicyName(job[w]) \in WrittenPolicies
  BY <1>2, <1>4 DEF Licensed, WrittenPolicies
<1>5. ASSUME pc[w] \in DestroyingCalls PROVE Promise!Doomed(r)
  <2>1. <<w, r>> \in Condemned
    BY <1>2, <1>5 DEF Condemned, Destroying
  <2> QED BY <2>1, SameCalls
<1>6. CASE Reads(w)
  BY <1>6 DEF Reads, CreateGetRole, AssumeGetRole, GetRolePolicy, DeleteGetRole,
              ListAttachedRolePolicies, ListRolePolicies
<1>7. CASE CreateRole(w, lost)
  <2>1. IAMCreateRole(r, {"owned"}, job[w].doc) => Promise!Make(r)
    BY <1>2 DEF Promise!Make, Promise!IAMCreateRole, IAMCreateRole, Promise!Exists, Exists,
                Promise!NewRole, NewRole
  <2> QED BY <1>2, <1>7, <2>1 DEF CreateRole
<1>8. CASE CreateInstanceProfile(w, lost) \/ AddRoleToInstanceProfile(w, lost)
  <2>1. IAMCreateInstanceProfile(r) \/ IAMAddRoleToInstanceProfile(r) => Promise!Make(r)
    BY DEF Promise!Make, Promise!IAMCreateInstanceProfile, IAMCreateInstanceProfile,
           Promise!IAMAddRoleToInstanceProfile, IAMAddRoleToInstanceProfile,
           Promise!Exists, Exists
  <2> QED BY <1>2, <1>8, <2>1 DEF CreateInstanceProfile, AddRoleToInstanceProfile
<1>9. CASE UpdateAssumeRolePolicy(w, lost)
  <2>1. pc[w] = "UpdateAssumeRolePolicy"
    BY <1>9 DEF UpdateAssumeRolePolicy
  <2>2. Makes(job[w]) /\ AppliesAssumePolicy(job[w])
    BY <1>4, <2>1 DEF Licensed, Reconciling, Trusting
  <2>3. r \in RolesOf(job[w])
    <3>1. todo[w] \in Seq(Role) /\ todo[w] # <<>>
      BY <1>1 DEF TypeOK, WorkersTypeOK
    <3>2. 1 \in 1 .. Len(todo[w]) /\ r = todo[w][1]
      BY <3>1 DEF Current
    <3>3. r \in Left(w)
      BY <3>2 DEF Left
    <3> QED BY <1>1, <3>3 DEF AtOwnRoles
  <2>4. r \in TrustedRoles
    BY <1>2, <2>2, <2>3 DEF TrustedRoles
  <2>5. IAMUpdateAssumeRolePolicy(r, job[w].doc) => Promise!Rewrite(r)
    BY <1>2, <2>4 DEF Promise!Rewrite, Promise!IAMUpdateAssumeRolePolicy,
                      IAMUpdateAssumeRolePolicy, Promise!Exists, Exists
  <2> QED BY <1>2, <1>9, <2>5 DEF UpdateAssumeRolePolicy
<1>10. CASE AttachDeleteRolePolicy(w, lost) \/ PutRolePolicy(w, lost)
  <2>1. PolicyName(job[w]) \in WrittenPolicies
    BY <1>4, <1>10 DEF AttachDeleteRolePolicy, PutRolePolicy, Reconciling
  <2>2. \/ IAMDeleteRolePolicy(r, PolicyName(job[w]))
        \/ IAMPutRolePolicy(r, PolicyName(job[w]), job[w].doc)
        => Promise!Rewrite(r)
    BY <1>2, <2>1 DEF Promise!Rewrite, Promise!IAMDeleteRolePolicy, IAMDeleteRolePolicy,
                      Promise!HasInlinePolicy, HasInlinePolicy, Promise!IAMPutRolePolicy,
                      IAMPutRolePolicy, Promise!Exists, Exists
  <2> QED BY <1>2, <1>10, <2>2 DEF AttachDeleteRolePolicy, PutRolePolicy
<1>11. CASE DetachRolePolicy(w, lost)
  <2>1. ASSUME NEW m \in listed[w], IAMDetachRolePolicy(r, m) PROVE Promise!Destroy(r)
    <3>1. m \in Managed
      BY <1>2, <1>3, <2>1 DEF IAMDetachRolePolicy, HasAttached, Exists, RoleRec
    <3>2. Promise!IAMDetachRolePolicy(r, m)
      BY <2>1 DEF Promise!IAMDetachRolePolicy, IAMDetachRolePolicy, Promise!HasAttached,
                  HasAttached, Promise!Exists, Exists
    <3>3. Promise!Doomed(r)
      BY <1>5, <1>11 DEF DetachRolePolicy, DestroyingCalls
    <3> QED BY <3>1, <3>2, <3>3 DEF Promise!Destroy
  <2> QED BY <1>2, <1>11, <2>1 DEF DetachRolePolicy
<1>12. CASE CleanDeleteRolePolicy(w, lost)
  <2>1. ASSUME NEW p \in listed[w], IAMDeleteRolePolicy(r, p)
        PROVE  Promise!Destroy(r) \/ UNCHANGED iamVars
    <3>1. CASE p \in Policy
      <4>1. Promise!IAMDeleteRolePolicy(r, p)
        BY <2>1 DEF Promise!IAMDeleteRolePolicy, IAMDeleteRolePolicy, Promise!HasInlinePolicy,
                    HasInlinePolicy, Promise!Exists, Exists
      <4>2. Promise!Doomed(r)
        BY <1>5, <1>12 DEF CleanDeleteRolePolicy, DestroyingCalls
      <4> QED BY <3>1, <4>1, <4>2 DEF Promise!Destroy
    <3>2. CASE p \notin Policy
      <4>1. role[r] \in RoleRec
        BY <1>2, <1>3, <2>1 DEF IAMDeleteRolePolicy, HasInlinePolicy, Exists
      <4>2. [role[r] EXCEPT !.inline[p] = NoDoc] = role[r]
        BY <3>2, <4>1 DEF RoleRec
      <4>3. role' = role
        BY <1>2, <1>3, <2>1, <4>2 DEF IAMDeleteRolePolicy
      <4> QED BY <2>1, <4>3 DEF IAMDeleteRolePolicy, iamVars
    <3> QED BY <3>1, <3>2
  <2> QED BY <1>2, <1>12, <2>1 DEF CleanDeleteRolePolicy
<1>13. CASE \/ RemoveRoleFromInstanceProfile(w, lost) \/ DeleteInstanceProfile(w, lost)
            \/ DeleteRole(w, lost)
  <2>1. Promise!Doomed(r)
    BY <1>5, <1>13 DEF RemoveRoleFromInstanceProfile, DeleteInstanceProfile, DeleteRole,
                       DestroyingCalls
  <2>2. \/ IAMRemoveRoleFromInstanceProfile(r) \/ IAMDeleteInstanceProfile(r)
        \/ IAMDeleteRole(r)
        => Promise!Destroy(r)
    BY <2>1 DEF Promise!Destroy, Promise!IAMRemoveRoleFromInstanceProfile,
                IAMRemoveRoleFromInstanceProfile, Promise!IAMDeleteInstanceProfile,
                IAMDeleteInstanceProfile, Promise!IAMDeleteRole, IAMDeleteRole,
                Promise!Deletable, Deletable, Promise!InlinePolicies, InlinePolicies,
                Promise!Exists, Exists
  <2> QED
    BY <1>2, <1>13, <2>2 DEF RemoveRoleFromInstanceProfile, DeleteInstanceProfile, DeleteRole
<1> QED
  BY <1>6, <1>7, <1>8, <1>9, <1>10, <1>11, <1>12, <1>13 DEF Writes

\* What others do is what the promise says of them.
LEMMA ElsewhereIsPromised ==
    ASSUME NEW r \in Role, TypeOK, Elsewhere(r)
    PROVE  Promise!TakeOver(r) \/ Promise!Appear(r) \/ Promise!Attach(r) \/ Promise!RemoveByHand(r)
<1>1. ASSUME NEW kept \in SUBSET Tag, Adopt(r, kept) PROVE Promise!TakeOver(r)
  BY <1>1 DEF Adopt, Promise!TakeOver, Promise!Exists, Exists, Promise!OfCrossplane, OfCrossplane
<1>2. ASSUME NEW tags \in SUBSET Tag, NEW d \in Doc, NEW p \in ProfileState,
             CreateElsewhere(r, tags, d, p)
      PROVE  Promise!Appear(r)
  <2>1. profile' \in {profile, [profile EXCEPT ![r] = "holds"]}
    BY <1>2 DEF CreateElsewhere, TypeOK, IAMTypeOK
  <2> QED BY <1>2, <2>1, SameCalls DEF CreateElsewhere, Promise!Appear
<1>3. ASSUME NEW m \in Managed, AttachElsewhere(r, m) PROVE Promise!Attach(r)
  BY <1>3 DEF AttachElsewhere, Promise!Attach, Promise!Exists, Exists
<1>4. CASE RemoveByHand(r)
  BY <1>4, SameCalls DEF RemoveByHand, Promise!RemoveByHand
<1> QED BY <1>1, <1>2, <1>3, <1>4 DEF Elsewhere

LEMMA StepIsPromised ==
    ASSUME TypeOK, Licensed, AtOwnRoles, [Next]_vars
    PROVE  [Promise!Next]_(Promise!promiseVars)
<1>1. pc \in [Worker -> Resting \union Calls]
  BY DEF TypeOK, WorkersTypeOK, Calls
<1>2. ASSUME UNCHANGED iamVars, Condemned' \subseteq Condemned PROVE Promise!Next
  BY <1>2, SameCalls DEF Promise!Next, Promise!iamVars, iamVars
<1>3. ASSUME NEW w \in Worker, NEW lost \in BOOLEAN, Reads(w) \/ Writes(w, lost) PROVE Promise!Next
  <2>1. CASE Promise!Condemn(w, Current(w))
    <3>1. Current(w) \in Role
      BY <1>3, CallIsBusy, CurrentType DEF TypeOK
    <3> QED BY <2>1, <3>1 DEF Promise!Next
  <2>2. CASE Condemned' \subseteq Condemned
    BY <1>2, <1>3, <2>2, CallIsPromised DEF Promise!Next
  <2> QED BY <1>3, <2>1, <2>2, CallCondemns
<1>4. ASSUME NEW r \in Role, Elsewhere(r) PROVE Promise!Next
  <2>1. UNCHANGED workerVars
    BY <1>4, ElsewhereType
  <2>2. Condemned' = Condemned
    BY <2>1 DEF Condemned, Destroying, Current, workerVars
  <2> QED BY <1>4, <2>2, ElsewhereIsPromised DEF Promise!Next
<1>5. ASSUME NEW w \in Worker, NEW j \in Jobs, Start(w, j) PROVE Promise!Next
  <2>1. pc'[w] \notin DestroyingCalls
    BY <1>1, <1>5, EntryType DEF Start, DestroyingCalls
  <2>2. \A v \in Worker \ {w} : pc'[v] = pc[v] /\ todo'[v] = todo[v]
    BY <1>1, <1>5 DEF Start, TypeOK, WorkersTypeOK
  <2>3. Condemned' \subseteq Condemned
    BY <2>1, <2>2 DEF Condemned, Destroying, Current
  <2> QED BY <1>2, <1>5, <2>3 DEF Start
<1>6. ASSUME NEW w \in Worker, CallFails(w) PROVE Promise!Next
  <2>1. pc'[w] \notin DestroyingCalls
    BY <1>1, <1>6 DEF CallFails, Fail, DestroyingCalls
  <2>2. \A v \in Worker \ {w} : pc'[v] = pc[v] /\ todo'[v] = todo[v]
    BY <1>1, <1>6 DEF CallFails, Fail, TypeOK, WorkersTypeOK
  <2>3. Condemned' \subseteq Condemned
    BY <2>1, <2>2 DEF Condemned, Destroying, Current
  <2> QED BY <1>2, <1>6, <2>3 DEF CallFails
<1>7. CASE Crash
  <2>1. Condemned' \subseteq Condemned
    BY <1>7 DEF Crash, Condemned, Destroying, DestroyingCalls
  <2> QED BY <1>2, <1>7, <2>1 DEF Crash
<1>8. CASE UNCHANGED vars
  <2>1. Condemned' = Condemned
    BY <1>8 DEF vars, workerVars, Condemned, Destroying, Current
  <2> QED BY <1>2, <1>8, <2>1 DEF vars
<1> QED
  BY <1>3, <1>4, <1>5, <1>6, <1>7, <1>8 DEF Next

\* The calls of any number of workers, interleaved, failed, lost and
\* interrupted as they may be, with Crossplane and others at work between any
\* two of them, keep the promise of RoleOwnership: a deletion begins only with
\* a role that is the operator's own at that moment, only a role with which a
\* deletion has begun is destroyed, and on every other role the operator
\* writes only inline policies of its own names and the trust policies of the
\* roles that it makes for service accounts.
THEOREM PromiseKept == Spec => OthersRolesAreSafe
<1>1. Init => Promise!Init
  BY SameCalls DEF Init, Promise!Init, Promise!IAMTypeOK, IAMTypeOK, Promise!IAMConsistent,
                   IAMConsistent, Promise!RoleRec, RoleRec, Promise!ProfileState, ProfileState,
                   Promise!Tag, Tag, Promise!Exists, Exists, Condemned, Destroying, DestroyingCalls
<1> QED
  BY TypeCorrect, LicensedHolds, AtOwnRolesHolds, <1>1, StepIsPromised, PTL
     DEF Spec, OthersRolesAreSafe, Promise!Spec
=============================================================================
