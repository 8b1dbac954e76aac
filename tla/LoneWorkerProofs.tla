-------------------------- MODULE LoneWorkerProofs --------------------------
(***************************************************************************)
(* Proofs about workers of IAMService whose jobs have no role in common:   *)
(* what a job has done when it returns nil, that a job whose work is done  *)
(* changes nothing, and that no instance profile loses its role.  Their    *)
(* calls interleave, any call may fail or lose its answer and the operator *)
(* may restart.  At the end, that jobs which are retried keep all that is  *)
(* proved of IAMService.                                                   *)
(***************************************************************************)
EXTENDS IAMServiceProofs, IAMServiceRetry

\* No two reconcilers have a role in common, as when one has the control plane's
\* role and IRSA's and the other that of a node pool.
Apart == \A v, w \in Worker : v # w => RolesOf(job[v]) \cap RolesOf(job[w]) = {}

\* One reconciler at most works on these roles.
Alone == \A v, w \in Worker : v = w

LEMMA AloneIsApart ==
    ASSUME Alone
    PROVE  []Apart
<1>1. Apart
  BY DEF Alone, Apart
<1> QED BY <1>1, PTL

-----------------------------------------------------------------------------
(* How a worker moves on.                                                  *)

\* A call changes nothing of a role but the one the worker is at.
SameButCurrent(w) == \A r \in Role \ {Current(w)} : role'[r] = role[r] /\ profile'[r] = profile[r]

LEMMA CallTouchesCurrent ==
    ASSUME NEW w \in Worker, NEW lost \in BOOLEAN, TypeOK, Reads(w) \/ Writes(w, lost)
    PROVE  SameButCurrent(w)
<1>1. role \in [Role -> RoleRec \union {NoRole}] /\ profile \in [Role -> ProfileState]
  BY DEF TypeOK, IAMTypeOK
<1> USE DEF SameButCurrent
<1>2. UNCHANGED iamVars => SameButCurrent(w)
  BY DEF iamVars
<1>3. CASE Reads(w)
  BY <1>2, <1>3 DEF Reads, CreateGetRole, AssumeGetRole, GetRolePolicy, DeleteGetRole,
                    ListAttachedRolePolicies, ListRolePolicies
<1>4. CASE \/ CreateRole(w, lost) \/ UpdateAssumeRolePolicy(w, lost)
           \/ AttachDeleteRolePolicy(w, lost) \/ PutRolePolicy(w, lost)
  BY <1>1, <1>2, <1>4
     DEF CreateRole, UpdateAssumeRolePolicy, AttachDeleteRolePolicy, PutRolePolicy,
         IAMCreateRole, IAMUpdateAssumeRolePolicy, IAMDeleteRolePolicy, IAMPutRolePolicy
<1>5. CASE \/ CreateInstanceProfile(w, lost) \/ AddRoleToInstanceProfile(w, lost)
           \/ RemoveRoleFromInstanceProfile(w, lost) \/ DeleteInstanceProfile(w, lost)
  BY <1>1, <1>2, <1>5
     DEF CreateInstanceProfile, AddRoleToInstanceProfile, RemoveRoleFromInstanceProfile,
         DeleteInstanceProfile, IAMCreateInstanceProfile, IAMAddRoleToInstanceProfile,
         IAMRemoveRoleFromInstanceProfile, IAMDeleteInstanceProfile
<1>6. CASE \/ DetachRolePolicy(w, lost) \/ CleanDeleteRolePolicy(w, lost) \/ DeleteRole(w, lost)
  BY <1>1, <1>2, <1>6
     DEF DetachRolePolicy, CleanDeleteRolePolicy, DeleteRole, IAMDetachRolePolicy,
         IAMDeleteRolePolicy, IAMDeleteRole
<1> QED
  BY <1>3, <1>4, <1>5, <1>6 DEF Writes

-----------------------------------------------------------------------------
(* What a lone worker knows in the middle of a job.                        *)

\* The role is as the job wants it.
Done(r, j) == (Makes(j) => Reconciled(r, j)) /\ (MayDelete(j) => Spared(r))

\* It is in the operation its job calls for.
OnTrack(w) == /\ pc[w] \in Reconciling => Entry(job[w]) = "create.GetRole"
              /\ pc[w] \in Deleting => Entry(job[w]) = "delete.GetRole"

\* What its last answers told it about the role it is at is still so.
Remembers(w) ==
    LET r == Current(w)
        j == job[w]
        inline == role[r].inline[j.roleType]
    IN  /\ pc[w] = "CreateRole" => ~Exists(r)
        /\ pc[w] \in {"CreateInstanceProfile", "AddRoleToInstanceProfile"} =>
             Exists(r) /\ inline = NoDoc
        /\ pc[w] \in {"assume.GetRole", "UpdateAssumeRolePolicy"} => AppliesAssumePolicy(j)
        /\ pc[w] \in {"GetRolePolicy", "attach.DeleteRolePolicy", "PutRolePolicy"} =>
             (Exists(r) /\ AppliesAssumePolicy(j) => role[r].trust = j.doc)
        /\ pc[w] = "attach.DeleteRolePolicy" => (Exists(r) => inline # j.doc)
        /\ pc[w] = "PutRolePolicy" => (Exists(r) => inline = NoDoc)

\* The roles it has behind it are done, all of them when the job returns nil.
SoFar(w) == pc[w] \notin {"idle", "error"} =>
    /\ pc[w] = "ok" => todo[w] = <<>>
    /\ Left(w) \subseteq RolesOf(job[w])
    /\ \A r \in RolesOf(job[w]) \ Left(w) : Done(r, job[w])

LoneInv == \A w \in Worker : OnTrack(w) /\ Remembers(w) /\ SoFar(w)

LEMMA OkIsDone ==
    ASSUME NEW w \in Worker, SoFar(w), pc[w] = "ok", NEW r \in RolesOf(job[w])
    PROVE  Done(r, job[w])
<1>1. todo[w] = <<>>
  BY DEF SoFar
<1>2. Left(w) = {}
  BY <1>1, EmptySeq DEF Left
<1> QED BY <1>2 DEF SoFar

\* Whether a role is done depends on that role alone.
LEMMA SameRoleDone ==
    ASSUME NEW w \in Worker, NEW r, job'[w] = job[w], role'[r] = role[r]
    PROVE  Done(r, job[w])' <=> Done(r, job[w])
<1>1. Reconciled(r, job[w])' <=> Reconciled(r, job[w])
  BY DEF Reconciled, Exists
<1>2. Spared(r)' <=> Spared(r)
  BY DEF Spared, Exists, OfCrossplane
<1> QED BY <1>1, <1>2 DEF Done

LEMMA LeftIsRoles ==
    ASSUME NEW w \in Worker, WorkersTypeOK, Busy(w)
    PROVE  Current(w) \in Left(w) /\ Left(w) \subseteq Role
<1>1. todo[w] \in Seq(Role) /\ todo[w] # <<>>
  BY DEF WorkersTypeOK
<1>2. Len(todo[w]) \in Nat \ {0} /\ Head(todo[w]) = todo[w][1]
  BY <1>1, EmptySeq, LenProperties
<1> QED BY <1>1, <1>2, ElementOfSeq DEF Left, Current

\* Another call about the same role.
LEMMA NextCall ==
    ASSUME NEW w \in Worker, WorkersTypeOK, Busy(w), SoFar(w), SameButCurrent(w),
           NEW c \in Calls, pc'[w] = c, todo' = todo, job' = job,
           \/ pc[w] \in Reconciling /\ c \in Reconciling
           \/ pc[w] \in Deleting /\ c \in Deleting,
           OnTrack(w)
    PROVE  OnTrack(w)' /\ SoFar(w)'
<1>1. Left(w)' = Left(w) /\ Current(w) \in Left(w)
  BY LeftIsRoles DEF Left
<1>2. OnTrack(w)'
  BY DEF OnTrack, Reconciling, Deleting, DestroyingCalls
<1>3. pc[w] \notin {"idle", "error"} /\ pc'[w] # "ok"
  BY DEF Busy, Resting, Calls, Reconciling, Deleting, DestroyingCalls
<1>4. RolesOf(job[w]) \subseteq Role
  BY JobRolesType, ElementOfSeq DEF RolesOf, WorkersTypeOK
<1>5. ASSUME NEW r \in RolesOf(job[w]) \ Left(w) PROVE Done(r, job[w])'
  BY <1>1, <1>3, <1>4, <1>5, SameRoleDone DEF SoFar, SameButCurrent
<1>6. SoFar(w)'
  BY <1>1, <1>3, <1>5 DEF SoFar
<1> QED BY <1>2, <1>6

\* On to the next role, this one being done.
LEMMA NextRole ==
    ASSUME NEW w \in Worker, WorkersTypeOK, Busy(w), SoFar(w), SameButCurrent(w),
           OnTrack(w), RoleDone(w), NEW d, d = Current(w), Done(d, job[w])'
    PROVE  OnTrack(w)' /\ SoFar(w)' /\ Remembers(w)'
<1>1. todo[w] \in Seq(Role) /\ todo[w] # <<>> /\ job[w] \in Jobs
  BY DEF WorkersTypeOK
<1>2. /\ todo' = [todo EXCEPT ![w] = Tail(todo[w])] /\ todo'[w] = Tail(todo[w]) /\ job' = job
      /\ pc'[w] = IF Len(todo[w]) = 1 THEN "ok" ELSE Entry(job[w])
  BY DEF RoleDone, WorkersTypeOK
<1>3. pc[w] \in Reconciling \/ pc[w] \in Deleting
  BY DEF WorkersTypeOK, Busy
<1>4. Entry(job[w]) \in {"create.GetRole", "delete.GetRole"}
  BY <1>3 DEF OnTrack
<1>5. OnTrack(w)'
  BY <1>2, <1>4 DEF OnTrack, Reconciling, Deleting, DestroyingCalls
<1>6. Remembers(w)'
  BY <1>2, <1>4 DEF Remembers
<1>7. /\ Len(todo[w]) \in Nat \ {0} /\ Len(todo'[w]) = Len(todo[w]) - 1 /\ d = todo[w][1]
      /\ \A i \in 1 .. Len(todo'[w]) : todo'[w][i] = todo[w][i + 1]
  <2>1. ASSUME NEW s \in Seq(Role), s # <<>>
        PROVE  /\ Len(s) \in Nat \ {0} /\ Len(Tail(s)) = Len(s) - 1 /\ Head(s) = s[1]
               /\ \A i \in 1 .. Len(Tail(s)) : Tail(s)[i] = s[i + 1]
    BY <2>1
  <2> QED BY <1>1, <1>2, <2>1 DEF Current
<1>8. Left(w)' \subseteq Left(w)
  BY <1>7 DEF Left
<1>9. ASSUME NEW r \in Left(w), r \notin Left(w)' PROVE r = d
  <2>1. PICK i \in 1 .. Len(todo[w]) : r = todo[w][i]
    BY DEF Left
  <2>2. CASE i # 1
    <3>1. i - 1 \in 1 .. Len(todo'[w]) /\ todo'[w][i - 1] = todo[w][i]
      BY <1>7, <2>1, <2>2
    <3> QED BY <1>9, <2>1, <3>1 DEF Left
  <2> QED BY <1>7, <2>1, <2>2
<1>10. RolesOf(job[w]) \subseteq Role
  BY <1>1, JobRolesType, ElementOfSeq DEF RolesOf
<1>11. pc[w] \notin {"idle", "error"}
  BY DEF Busy, Resting
<1>12. ASSUME NEW r \in RolesOf(job[w]) \ Left(w)' PROVE Done(r, job[w])'
  <2>1. CASE r = d
    BY <2>1
  <2>2. CASE r # d
    BY <1>2, <1>9, <1>10, <1>11, <1>12, <2>2, SameRoleDone DEF SoFar, SameButCurrent
  <2> QED BY <2>1, <2>2
<1>13. pc'[w] = "ok" => todo'[w] = <<>>
  <2>1. Len(todo'[w]) = 0 => todo'[w] = <<>>
    BY <1>1, <1>2, EmptySeq, HeadTailProperties
  <2> QED BY <1>2, <1>4, <1>7, <2>1
<1>14. SoFar(w)'
  BY <1>2, <1>8, <1>11, <1>12, <1>13 DEF SoFar
<1> QED BY <1>5, <1>6, <1>14

\* A worker that rests owes nothing, unless it returned nil.
LEMMA Rests ==
    ASSUME NEW w \in Worker, pc'[w] \in {"idle", "error"}
    PROVE  OnTrack(w)' /\ SoFar(w)' /\ Remembers(w)'
BY DEF OnTrack, SoFar, Remembers, Reconciling, Deleting, DestroyingCalls

\* Each call of a job leaves its worker with what it should know and with the
\* roles behind it done.
LEMMA CallKeepsTrack ==
    ASSUME NEW w \in Worker, NEW lost \in BOOLEAN, TypeOK, Reads(w) \/ Writes(w, lost),
           OnTrack(w), Remembers(w), SoFar(w)
    PROVE  OnTrack(w)' /\ Remembers(w)' /\ SoFar(w)'
<1> DEFINE r == Current(w)
           j == job[w]
           Kept == OnTrack(w)' /\ Remembers(w)' /\ SoFar(w)'
           Know(c) == pc'[w] = c /\ Current(w)' = r /\ job' = job /\ OnTrack(w)' /\ SoFar(w)'
<1>1. Busy(w)
  BY CallIsBusy
<1>2. WorkersTypeOK /\ role \in [Role -> RoleRec \union {NoRole}]
  BY DEF TypeOK, IAMTypeOK
<1>3. r \in Role /\ j \in Jobs /\ j.doc \in Doc /\ j.roleType \in Policy
  BY <1>1, <1>2, CurrentType, JobType
<1>4. SameButCurrent(w)
  BY CallTouchesCurrent
<1>5. pc \in [Worker -> Resting \union Calls] /\ listed \in [Worker -> SUBSET (Managed \union Policy)]
  BY <1>2 DEF WorkersTypeOK, Calls
<1>6. ASSUME Fail(w) PROVE Kept
  BY <1>5, <1>6, Rests DEF Fail
<1>7. ASSUME NEW c \in Reconciling, pc[w] \in Reconciling, Goto(w, c) PROVE Know(c)
  BY <1>1, <1>2, <1>4, <1>5, <1>7, NextCall DEF Goto, Calls, Current
<1>8. ASSUME NEW c \in Deleting, pc[w] \in Deleting, Goto(w, c) PROVE Kept
  <2>1. pc'[w] = c /\ OnTrack(w)' /\ SoFar(w)'
    BY <1>1, <1>2, <1>4, <1>5, <1>8, NextCall DEF Goto, Calls
  <2> QED BY <2>1 DEF Remembers, Deleting, DestroyingCalls
<1>9. ASSUME NEW left, NEW c \in Deleting, NEW after \in Deleting, pc[w] \in Deleting,
             Loop(w, left, c, after)
      PROVE  Kept
  <2>1. pc'[w] \in Deleting /\ OnTrack(w)' /\ SoFar(w)'
    BY <1>1, <1>2, <1>4, <1>5, <1>9, NextCall DEF Loop, Calls
  <2> QED BY <2>1 DEF Remembers, Deleting, DestroyingCalls
<1>10. ASSUME NEW d, d = r, RoleDone(w), Done(d, j)' PROVE Kept
  BY <1>1, <1>2, <1>4, <1>10, NextRole
<1>11. pc[w] \in Reconciling => Makes(j) /\ ~MayDelete(j)
  BY <1>3, EntryMeans DEF OnTrack
<1>12. pc[w] \in Deleting => MayDelete(j) /\ ~Makes(j)
  BY <1>3, EntryMeans DEF OnTrack
<1>13. /\ AfterCreateRole(j) \in {"assume.GetRole", "GetRolePolicy"}
       /\ AfterCreateRole(j) = "assume.GetRole" <=> AppliesAssumePolicy(j)
  BY DEF AfterCreateRole
<1>14. CASE CreateGetRole(w)
  <2>1. CASE Exists(r)
    <3>1. Know(AfterCreateRole(j))
      BY <1>7, <1>13, <1>14, <2>1 DEF CreateGetRole, Reconciling
    <3> QED BY <1>13, <3>1 DEF Remembers
  <2>2. CASE ~Exists(r)
    BY <1>7, <1>14, <2>2 DEF CreateGetRole, Remembers, Reconciling, Exists, iamVars
  <2> QED BY <2>1, <2>2
<1>15. CASE AssumeGetRole(w)
  <2>1. AppliesAssumePolicy(j)
    BY <1>15 DEF AssumeGetRole, Remembers
  <2>2. CASE Exists(r)
    BY <1>7, <1>15, <2>1, <2>2 DEF AssumeGetRole, Remembers, Reconciling
  <2>3. CASE ~Exists(r)
    BY <1>7, <1>15, <2>3 DEF AssumeGetRole, Remembers, Reconciling, Exists, iamVars
  <2> QED BY <2>2, <2>3
<1>16. CASE GetRolePolicy(w)
  <2>1. role' = role /\ pc[w] \in Reconciling /\ (Exists(r) /\ AppliesAssumePolicy(j) => role[r].trust = j.doc)
    BY <1>16 DEF GetRolePolicy, Reconciling, Remembers, iamVars
  <2>2. CASE UpToDate(r, j)
    <3>1. Reconciled(r, j)
      BY <2>1, <2>2 DEF UpToDate, HasInlinePolicy, PolicyName, Reconciled
    <3>2. RoleDone(w) /\ Done(r, j)
      BY <1>11, <1>16, <2>1, <2>2, <3>1 DEF GetRolePolicy, Done
    <3>3. PICK d \in {r} : Done(d, j)
      BY <3>2
    <3>4. Done(d, j)'
      BY <2>1, <3>2, <3>3, SameRoleDone DEF RoleDone
    <3> QED BY <1>10, <3>2, <3>3, <3>4
  <2>3. CASE ~UpToDate(r, j) /\ HasInlinePolicy(r, PolicyName(j))
    <3>1. Know("attach.DeleteRolePolicy") /\ role[r].inline[j.roleType] # j.doc
      BY <1>7, <1>16, <2>1, <2>3 DEF GetRolePolicy, Reconciling, UpToDate, PolicyName
    <3> QED BY <2>1, <3>1 DEF Remembers, Exists
  <2>4. CASE ~HasInlinePolicy(r, PolicyName(j))
    <3>1. Know("PutRolePolicy") /\ (Exists(r) => role[r].inline[j.roleType] = NoDoc)
      BY <1>7, <1>16, <2>1, <2>4
         DEF GetRolePolicy, Reconciling, UpToDate, HasInlinePolicy, PolicyName
    <3> QED BY <2>1, <3>1 DEF Remembers, Exists
  <2> QED BY <2>2, <2>3, <2>4
<1>17. CASE DeleteGetRole(w)
  <2>1. pc[w] \in Deleting /\ role' = role
    BY <1>17 DEF DeleteGetRole, Deleting, iamVars
  <2>2. CASE /\ RoleDone(w)
             /\ Exists(r) => \E listing \in Listings(role[r].tags) :
                               Ownership(listing) = "crossplane"
    <3>1. Spared(r)
      BY <2>2, OwnershipOf DEF Spared, OfCrossplane
    <3>2. Done(r, j)
      BY <1>12, <2>1, <3>1 DEF Done
    <3>3. PICK d \in {r} : Done(d, j)
      BY <3>2
    <3>4. Done(d, j)'
      BY <2>1, <2>2, <3>3, SameRoleDone DEF RoleDone
    <3> QED BY <1>10, <2>2, <3>3, <3>4
  <2>3. CASE Fail(w)
    BY <1>6, <2>3
  <2>4. CASE Goto(w, "ListAttachedRolePolicies")
    BY <1>8, <2>1, <2>4 DEF Deleting, DestroyingCalls
  <2> QED BY <1>17, <2>2, <2>3, <2>4 DEF DeleteGetRole
<1>18. CASE ListAttachedRolePolicies(w) \/ ListRolePolicies(w)
  BY <1>9, <1>18 DEF ListAttachedRolePolicies, ListRolePolicies, Deleting, DestroyingCalls
<1>19. CASE CreateRole(w, lost)
  <2>1. CASE Fail(w)
    BY <1>6, <2>1
  <2>2. CASE IAMCreateRole(r, {"owned"}, j.doc) /\ Goto(w, "CreateInstanceProfile")
    <3>1. Know("CreateInstanceProfile")
      BY <1>7, <1>19, <2>2 DEF CreateRole, Reconciling
    <3>2. role'[r] = NewRole({"owned"}, j.doc) /\ NewRole({"owned"}, j.doc) # NoRole
      BY <1>2, <1>3, <2>2, NewRoleType, IAMAssumption DEF IAMCreateRole, Tag
    <3>3. Exists(r)' /\ role'[r].inline[j.roleType] = NoDoc
      BY <1>3, <3>1, <3>2 DEF Exists, NewRole
    <3> QED BY <3>1, <3>3 DEF Remembers
  <2> QED BY <1>19, <2>1, <2>2 DEF CreateRole
<1>20. CASE CreateInstanceProfile(w, lost) \/ AddRoleToInstanceProfile(w, lost)
  <2>1. role' = role /\ pc[w] \in Reconciling /\ Exists(r) /\ role[r].inline[j.roleType] = NoDoc
    BY <1>20
       DEF CreateInstanceProfile, AddRoleToInstanceProfile, IAMCreateInstanceProfile,
           IAMAddRoleToInstanceProfile, iamVars, Remembers, Reconciling
  <2>2. CASE Fail(w)
    BY <1>6, <2>2
  <2>3. CASE Goto(w, "AddRoleToInstanceProfile")
    BY <1>7, <2>1, <2>3 DEF Remembers, Exists, Reconciling
  <2>4. CASE Goto(w, AfterCreateRole(j))
    BY <1>7, <1>13, <2>1, <2>4 DEF Remembers, Reconciling
  <2> QED
    BY <1>20, <2>2, <2>3, <2>4 DEF CreateInstanceProfile, AddRoleToInstanceProfile
<1>21. CASE UpdateAssumeRolePolicy(w, lost)
  <2>1. CASE Fail(w)
    BY <1>6, <2>1
  <2>2. CASE IAMUpdateAssumeRolePolicy(r, j.doc) /\ Goto(w, "GetRolePolicy")
    <3>1. Know("GetRolePolicy")
      BY <1>7, <1>21, <2>2 DEF UpdateAssumeRolePolicy, Reconciling
    <3>2. role'[r].trust = j.doc
      BY <1>2, <1>3, <2>2 DEF IAMUpdateAssumeRolePolicy, Exists, RoleRec
    <3> QED BY <3>1, <3>2 DEF Remembers
  <2> QED BY <1>21, <2>1, <2>2 DEF UpdateAssumeRolePolicy
<1>22. CASE AttachDeleteRolePolicy(w, lost)
  <2>1. CASE Fail(w)
    BY <1>6, <2>1
  <2>2. CASE IAMDeleteRolePolicy(r, j.roleType) /\ Goto(w, "PutRolePolicy")
    <3>1. Know("PutRolePolicy")
      BY <1>7, <1>22, <2>2 DEF AttachDeleteRolePolicy, Reconciling
    <3>2. /\ Exists(r) /\ role[r] \in RoleRec
          /\ role'[r] = [role[r] EXCEPT !.inline[j.roleType] = NoDoc]
      BY <1>2, <1>3, <2>2 DEF IAMDeleteRolePolicy, HasInlinePolicy, Exists
    <3>3. role'[r].inline[j.roleType] = NoDoc /\ role'[r].trust = role[r].trust
      BY <1>3, <3>2 DEF RoleRec
    <3>4. AppliesAssumePolicy(j) => role[r].trust = j.doc
      BY <1>22, <3>2 DEF AttachDeleteRolePolicy, Remembers
    <3> QED BY <3>1, <3>3, <3>4 DEF Remembers
  <2> QED BY <1>22, <2>1, <2>2 DEF AttachDeleteRolePolicy, PolicyName
<1>23. CASE PutRolePolicy(w, lost)
  <2>1. CASE Fail(w)
    BY <1>6, <2>1
  <2>2. CASE IAMPutRolePolicy(r, j.roleType, j.doc) /\ RoleDone(w)
    <3>1. /\ Exists(r) /\ role[r] \in RoleRec
          /\ role'[r] = [role[r] EXCEPT !.inline[j.roleType] = j.doc]
      BY <1>2, <1>3, <2>2 DEF IAMPutRolePolicy, Exists
    <3>2. /\ role'[r].inline[j.roleType] = j.doc /\ role'[r].trust = role[r].trust
          /\ role'[r] \in RoleRec
      BY <1>3, <3>1 DEF RoleRec
    <3>3. AppliesAssumePolicy(j) => role[r].trust = j.doc
      BY <1>23, <3>1 DEF PutRolePolicy, Remembers
    <3>4. PICK d \in {r} : TRUE
      OBVIOUS
    <3>5. Reconciled(d, j)'
      BY <2>2, <3>2, <3>3, <3>4, IAMAssumption DEF Reconciled, Exists, RoleDone
    <3>6. Done(d, j)'
      BY <1>11, <1>23, <2>2, <3>5 DEF Done, PutRolePolicy, Reconciling, RoleDone
    <3> QED BY <1>10, <2>2, <3>4, <3>6
  <2> QED BY <1>23, <2>1, <2>2 DEF PutRolePolicy, PolicyName
<1>24. CASE DetachRolePolicy(w, lost) \/ CleanDeleteRolePolicy(w, lost)
  BY <1>6, <1>9, <1>24 DEF DetachRolePolicy, CleanDeleteRolePolicy, Deleting, DestroyingCalls
<1>25. CASE RemoveRoleFromInstanceProfile(w, lost) \/ DeleteInstanceProfile(w, lost)
  BY <1>6, <1>8, <1>25
     DEF RemoveRoleFromInstanceProfile, DeleteInstanceProfile, Deleting, DestroyingCalls
<1>26. CASE DeleteRole(w, lost)
  <2>1. CASE Fail(w)
    BY <1>6, <2>1
  <2>2. CASE RoleDone(w) /\ role'[r] = NoRole
    <3>1. PICK d \in {r} : role'[d] = NoRole
      BY <2>2
    <3>2. Done(d, j)'
      BY <1>12, <1>26, <2>2, <3>1 DEF Done, Spared, Exists, DeleteRole, RoleDone, Deleting, DestroyingCalls
    <3> QED BY <1>10, <2>2, <3>1, <3>2
  <2> QED BY <1>2, <1>3, <1>26, <2>1, <2>2 DEF DeleteRole, IAMDeleteRole, Exists, iamVars
<1> QED
  BY <1>14, <1>15, <1>16, <1>17, <1>18, <1>19, <1>20, <1>21, <1>22, <1>23, <1>24, <1>25,
     <1>26 DEF Reads, Writes

\* Starting a job leaves all of its roles to be done.
LEMMA StartIsOnTrack ==
    ASSUME NEW w \in Worker, NEW j \in Jobs, TypeOK, Start(w, j)
    PROVE  OnTrack(w)' /\ Remembers(w)' /\ SoFar(w)'
<1>1. Entry(j) \in {"ok", "error", "create.GetRole", "delete.GetRole"}
  BY EntryType
<1>2. /\ pc'[w] = Entry(j) /\ job'[w] = j
      /\ todo'[w] = IF Entry(j) \in Resting THEN <<>> ELSE JobRoles(j)
  BY DEF Start, TypeOK, WorkersTypeOK
<1>3. OnTrack(w)' /\ Remembers(w)'
  BY <1>1, <1>2 DEF OnTrack, Remembers, Reconciling, Deleting, DestroyingCalls
<1>4. CASE Entry(j) = "ok"
  <2>1. todo'[w] = <<>> /\ Left(w)' = {}
    BY <1>2, <1>4, EmptySeq DEF Resting, Left
  <2>2. ~Makes(j) /\ ~MayDelete(j)
    BY <1>4, EntryMeans
  <2> QED BY <1>2, <1>3, <2>1, <2>2 DEF SoFar, Done
<1>5. CASE Entry(j) \in {"create.GetRole", "delete.GetRole"}
  <2>1. Left(w)' = RolesOf(j)
    BY <1>2, <1>5 DEF Resting, Left, RolesOf
  <2> QED BY <1>2, <1>3, <1>5, <2>1 DEF SoFar
<1>6. CASE Entry(j) = "error"
  BY <1>2, <1>3, <1>6 DEF SoFar
<1> QED BY <1>1, <1>4, <1>5, <1>6

\* Crossplane taking a role over and somebody attaching a policy to one leave
\* its existence, its trust and its inline policies as they are.
LEMMA OthersKeepPolicies ==
    ASSUME Environment \cap {"create", "remove"} = {}, TypeOK, NEW q \in Role, Elsewhere(q)
    PROVE  /\ UNCHANGED workerVars
           /\ \A r \in Role : /\ Exists(r)' <=> Exists(r)
                              /\ Exists(r) => /\ role'[r].trust = role[r].trust
                                              /\ role'[r].inline = role[r].inline
                              /\ OfCrossplane(r) => OfCrossplane(r)'
<1>1. role \in [Role -> RoleRec \union {NoRole}]
  BY DEF TypeOK, IAMTypeOK
<1>2. /\ UNCHANGED workerVars
      /\ \E t \in RoleRec : /\ Exists(q) /\ role' = [role EXCEPT ![q] = t]
                            /\ t.trust = role[q].trust /\ t.inline = role[q].inline
                            /\ OfCrossplane(q) => "crossplane" \in t.tags
  <2>1. ASSUME NEW kept \in SUBSET Tag, Adopt(q, kept)
        PROVE  [role[q] EXCEPT !.tags = kept \union {"crossplane"}] \in RoleRec
    BY <1>1, <2>1 DEF Adopt, Exists, RoleRec, Tag
  <2>2. ASSUME NEW m \in Managed, AttachElsewhere(q, m)
        PROVE  [role[q] EXCEPT !.attached = @ \union {m}] \in RoleRec
    BY <1>1, <2>2 DEF AttachElsewhere, Exists, RoleRec
  <2>3. CASE \E kept \in SUBSET Tag : Adopt(q, kept)
    <3>1. PICK kept \in SUBSET Tag : Adopt(q, kept)
      BY <2>3
    <3> DEFINE t == [role[q] EXCEPT !.tags = kept \union {"crossplane"}]
    <3>2. /\ t \in RoleRec /\ t.trust = role[q].trust /\ t.inline = role[q].inline
          /\ "crossplane" \in t.tags
      BY <1>1, <2>1, <3>1 DEF Adopt, Exists, RoleRec
    <3>3. role' = [role EXCEPT ![q] = t] /\ Exists(q) /\ UNCHANGED workerVars
      BY <3>1 DEF Adopt
    <3> HIDE DEF t
    <3> QED BY <3>2, <3>3
  <2>4. CASE \E m \in Managed : AttachElsewhere(q, m)
    <3>1. PICK m \in Managed : AttachElsewhere(q, m)
      BY <2>4
    <3> DEFINE t == [role[q] EXCEPT !.attached = @ \union {m}]
    <3>2. /\ t \in RoleRec /\ t.trust = role[q].trust /\ t.inline = role[q].inline
          /\ t.tags = role[q].tags
      BY <1>1, <2>2, <3>1 DEF AttachElsewhere, Exists, RoleRec
    <3>3. role' = [role EXCEPT ![q] = t] /\ Exists(q) /\ UNCHANGED workerVars
      BY <3>1 DEF AttachElsewhere
    <3> HIDE DEF t
    <3> QED BY <3>2, <3>3 DEF OfCrossplane
  <2> QED BY <2>3, <2>4 DEF Elsewhere, CreateElsewhere, RemoveByHand
<1>3. PICK t \in RoleRec : /\ Exists(q) /\ role' = [role EXCEPT ![q] = t]
                           /\ t.trust = role[q].trust /\ t.inline = role[q].inline
                           /\ OfCrossplane(q) => "crossplane" \in t.tags
  BY <1>2
<1>4. \A r \in Role : /\ Exists(r)' <=> Exists(r)
                      /\ Exists(r) => /\ role'[r].trust = role[r].trust
                                      /\ role'[r].inline = role[r].inline
                      /\ OfCrossplane(r) => OfCrossplane(r)'
  <2> TAKE r \in Role
  <2>1. CASE r = q
    <3>1. role'[r] = t /\ t # NoRole
      BY <1>1, <1>3, <2>1, IAMAssumption
    <3> QED BY <1>3, <2>1, <3>1 DEF Exists, OfCrossplane
  <2>2. CASE r # q
    <3>1. role'[r] = role[r]
      BY <1>1, <1>3, <2>2
    <3> QED BY <3>1 DEF Exists, OfCrossplane
  <2> QED BY <2>1, <2>2
<1> QED BY <1>2, <1>4

\* So they leave alone all that a worker knows and has done.
LEMMA OthersKeepTrack ==
    ASSUME Environment \cap {"create", "remove"} = {}, TypeOK, NEW q \in Role, Elsewhere(q),
           NEW w \in Worker, OnTrack(w), Remembers(w), SoFar(w)
    PROVE  OnTrack(w)' /\ Remembers(w)' /\ SoFar(w)'
<1>1. \A r \in Role : /\ Exists(r)' <=> Exists(r)
                      /\ Exists(r) => /\ role'[r].trust = role[r].trust
                                      /\ role'[r].inline = role[r].inline
                      /\ OfCrossplane(r) => OfCrossplane(r)'
  BY OthersKeepPolicies
<1>2. pc' = pc /\ job' = job /\ todo' = todo /\ Current(w)' = Current(w) /\ Left(w)' = Left(w)
  BY OthersKeepPolicies DEF workerVars, Current, Left
<1>3. job[w] \in Jobs /\ RolesOf(job[w]) \subseteq Role
  BY JobRolesType, ElementOfSeq DEF RolesOf, TypeOK, WorkersTypeOK
<1>4. ASSUME NEW r \in RolesOf(job[w]), Done(r, job[w]) PROVE Done(r, job[w])'
  <2>1. /\ Exists(r)' <=> Exists(r)
        /\ Exists(r) => role'[r].trust = role[r].trust /\ role'[r].inline = role[r].inline
        /\ OfCrossplane(r) => OfCrossplane(r)'
    BY <1>1, <1>3
  <2>2. Reconciled(r, job[w]) => Reconciled(r, job[w])'
    BY <1>2, <2>1 DEF Reconciled
  <2>3. Spared(r) => Spared(r)'
    BY <2>1 DEF Spared
  <2> QED BY <1>2, <1>4, <2>2, <2>3 DEF Done
<1>5. OnTrack(w)' /\ SoFar(w)'
  BY <1>2, <1>4 DEF OnTrack, SoFar
<1>6. Remembers(w)'
  <2>1. CASE Busy(w)
    <3>1. Current(w) \in Role
      BY <2>1, CurrentType DEF TypeOK
    <3>2. PICK r \in Role : r = Current(w) /\ Current(w)' = r
      BY <1>2, <3>1
    <3>3. /\ Exists(r)' <=> Exists(r)
          /\ Exists(r) => role'[r].trust = role[r].trust /\ role'[r].inline = role[r].inline
      BY <1>1
    <3>4. AppliesAssumePolicy(job[w])' <=> AppliesAssumePolicy(job[w])
      BY <1>2
    <3> QED BY <1>2, <3>2, <3>3, <3>4 DEF Remembers
  <2>2. CASE ~Busy(w)
    BY <1>2, <2>2 DEF Busy, Resting, Remembers
  <2> QED BY <2>1, <2>2
<1> QED BY <1>5, <1>6

-----------------------------------------------------------------------------
(* Workers that are apart do not disturb each other.                       *)

\* A call about one worker's role finds and leaves another's as they were.
LEMMA CallSparesOthers ==
    ASSUME Apart, TypeOK, AtOwnRoles, NEW v \in Worker, NEW w \in Worker, v # w,
           NEW lost \in BOOLEAN, Reads(v) \/ Writes(v, lost)
    PROVE  /\ pc'[w] = pc[w] /\ todo'[w] = todo[w] /\ job' = job
           /\ \A r \in RolesOf(job[w]) : role'[r] = role[r] /\ profile'[r] = profile[r]
<1>1. Busy(v) /\ SameButCurrent(v) /\ job' = job
  BY CallIsBusy, CallTouchesCurrent, CallKeepsJob
<1>2. pc'[w] = pc[w] /\ todo'[w] = todo[w]
  BY CallPath
<1>3. Current(v) \in RolesOf(job[v])
  BY <1>1, LeftIsRoles DEF AtOwnRoles, TypeOK
<1>4. Current(v) \notin RolesOf(job[w])
  BY <1>3 DEF Apart
<1>5. RolesOf(job[w]) \subseteq Role
  BY JobRolesType, ElementOfSeq DEF RolesOf, TypeOK, WorkersTypeOK
<1> QED BY <1>1, <1>2, <1>4, <1>5 DEF SameButCurrent

\* A worker knows and has done what it did, if nobody touches its roles.
LEMMA UntouchedKeepsTrack ==
    ASSUME NEW w \in Worker, TypeOK, pc'[w] = pc[w], todo'[w] = todo[w], job'[w] = job[w],
           \A r \in RolesOf(job[w]) : role'[r] = role[r],
           OnTrack(w), Remembers(w), SoFar(w)
    PROVE  OnTrack(w)' /\ Remembers(w)' /\ SoFar(w)'
<1>1. OnTrack(w)'
  BY DEF OnTrack
<1>2. /\ Left(w)' = Left(w) /\ Current(w)' = Current(w)
      /\ RolesOf(job[w])' = RolesOf(job[w])
  BY DEF Left, Current, RolesOf, JobRoles, ForIRSA
<1>3. \A r \in RolesOf(job[w]) : Done(r, job[w])' <=> Done(r, job[w])
  BY SameRoleDone
<1>4. SoFar(w)'
  BY <1>2, <1>3 DEF SoFar
<1>5. ASSUME Busy(w) PROVE Remembers(w)'
  <2>1. Current(w) \in RolesOf(job[w])
    BY <1>5, LeftIsRoles DEF SoFar, Busy, Resting, TypeOK
  <2>2. PICK r \in RolesOf(job[w]) : r = Current(w) /\ Current(w)' = r /\ role'[r] = role[r]
    BY <1>2, <2>1
  <2>3. AppliesAssumePolicy(job[w])' <=> AppliesAssumePolicy(job[w])
    BY DEF AppliesAssumePolicy, ForIRSA
  <2> QED BY <2>2, <2>3 DEF Remembers, Exists
<1>6. ~Busy(w) => Remembers(w)'
  BY DEF Busy, Resting, Remembers
<1> QED BY <1>1, <1>4, <1>5, <1>6

-----------------------------------------------------------------------------
(* What a job has done when it returns nil.                                *)

\* LoneInv is inductive for workers that are apart, whatever fails, and
\* whatever Crossplane adopts and others attach meanwhile.
LEMMA LoneStep ==
    ASSUME Apart, Environment \cap {"create", "remove"} = {}, TypeOK, AtOwnRoles, LoneInv,
           [Next]_vars
    PROVE  LoneInv'
<1> SUFFICES ASSUME NEW w \in Worker PROVE OnTrack(w)' /\ Remembers(w)' /\ SoFar(w)'
  BY DEF LoneInv
<1>1. OnTrack(w) /\ Remembers(w) /\ SoFar(w)
  BY DEF LoneInv
<1>2. ASSUME NEW v \in Worker, NEW lost \in BOOLEAN, Reads(v) \/ Writes(v, lost)
      PROVE  OnTrack(w)' /\ Remembers(w)' /\ SoFar(w)'
  <2>1. CASE v = w
    BY <1>1, <1>2, <2>1, CallKeepsTrack
  <2>2. CASE v # w
    BY <1>1, <1>2, <2>2, CallSparesOthers, UntouchedKeepsTrack
  <2> QED BY <2>1, <2>2
<1>3. ASSUME NEW v \in Worker, NEW j \in Jobs, Start(v, j)
      PROVE  OnTrack(w)' /\ Remembers(w)' /\ SoFar(w)'
  <2>1. CASE v = w
    BY <1>3, <2>1, StartIsOnTrack
  <2>2. CASE v # w
    <3>1. pc'[w] = pc[w] /\ todo'[w] = todo[w] /\ job'[w] = job[w] /\ role' = role
      BY <1>3, <2>2 DEF Start, iamVars, TypeOK, WorkersTypeOK
    <3> QED BY <1>1, <3>1, UntouchedKeepsTrack
  <2> QED BY <2>1, <2>2
<1>4. ASSUME NEW v \in Worker, CallFails(v) PROVE OnTrack(w)' /\ Remembers(w)' /\ SoFar(w)'
  <2>1. CASE v = w
    BY <1>4, <2>1, Rests DEF CallFails, Fail, TypeOK, WorkersTypeOK
  <2>2. CASE v # w
    <3>1. pc'[w] = pc[w] /\ todo'[w] = todo[w] /\ job'[w] = job[w] /\ role' = role
      BY <1>4, <2>2 DEF CallFails, Fail, iamVars, TypeOK, WorkersTypeOK
    <3> QED BY <1>1, <3>1, UntouchedKeepsTrack
  <2> QED BY <2>1, <2>2
<1>5. CASE Crash
  BY <1>5, Rests DEF Crash
<1>6. ASSUME NEW q \in Role, Elsewhere(q) PROVE OnTrack(w)' /\ Remembers(w)' /\ SoFar(w)'
  BY <1>1, <1>6, OthersKeepTrack
<1>7. CASE UNCHANGED vars
  BY <1>1, <1>7, UntouchedKeepsTrack DEF vars, workerVars, iamVars
<1> QED
  BY <1>2, <1>3, <1>4, <1>5, <1>6, <1>7 DEF Next

LEMMA LoneHolds ==
    ASSUME Environment \cap {"create", "remove"} = {}
    PROVE  Spec /\ []Apart => []LoneInv
<1>1. Init => LoneInv
  BY DEF Init, LoneInv, OnTrack, Remembers, SoFar, Reconciling, Deleting, DestroyingCalls
<1>2. Apart /\ TypeOK /\ AtOwnRoles /\ LoneInv /\ [Next]_vars => LoneInv'
  BY LoneStep
<1> QED
  BY TypeCorrect, AtOwnRolesHolds, <1>1, <1>2, PTL DEF Spec

\* What a job returns nil for is done: every role of a reconciliation has the
\* job's trust and inline policy, and every role of a deletion is gone or
\* Crossplane's, whatever failed, was lost or restarted before and however the
\* calls of the workers interleave.
THEOREM ApartWorkersDone ==
    ASSUME Environment \cap {"create", "remove"} = {}
    PROVE  Spec /\ []Apart => []OkMeansDone
<1>1. LoneInv => OkMeansDone
  <2> SUFFICES ASSUME LoneInv, NEW w \in Worker, pc[w] = "ok", NEW r \in RolesOf(job[w])
               PROVE  Done(r, job[w])
    BY DEF OkMeansDone, Done
  <2> QED BY OkIsDone DEF LoneInv
<1> QED
  BY LoneHolds, <1>1, PTL

\* In particular for one worker.
COROLLARY LoneWorkerDone ==
    ASSUME Alone, Environment \cap {"create", "remove"} = {}
    PROVE  Spec => []OkMeansDone
BY AloneIsApart, ApartWorkersDone, PTL

-----------------------------------------------------------------------------
(* A job whose work is done changes nothing.                               *)

\* With its roles as the job wants them, no call of it is left that writes
\* anything new.
LEMMA SatisfiedCallIsIdle ==
    ASSUME NEW w \in Worker, NEW lost \in BOOLEAN, TypeOK, Reads(w) \/ Writes(w, lost),
           OnTrack(w), Remembers(w), SoFar(w), Satisfied(job[w])
    PROVE  UNCHANGED iamVars
<1> DEFINE r == Current(w)
           j == job[w]
<1>1. Busy(w)
  BY CallIsBusy
<1>2. r \in Role /\ j \in Jobs /\ j.doc \in Doc /\ j.roleType \in Policy
  BY <1>1, CurrentType, JobType DEF TypeOK
<1>3. r \in RolesOf(j)
  BY <1>1, LeftIsRoles DEF SoFar, Busy, Resting, TypeOK
<1>4. Reconciled(r, j) /\ Makes(j)
  BY <1>3 DEF Satisfied
<1>5. /\ Exists(r) /\ role[r].inline[j.roleType] = j.doc /\ j.doc # NoDoc
      /\ AppliesAssumePolicy(j) => role[r].trust = j.doc
  BY <1>2, <1>4, IAMAssumption DEF Reconciled
<1>6. pc[w] \notin Deleting
  BY <1>2, <1>4, EntryMeans DEF OnTrack
<1>7. CASE Reads(w)
  BY <1>7 DEF Reads, CreateGetRole, AssumeGetRole, GetRolePolicy, DeleteGetRole,
              ListAttachedRolePolicies, ListRolePolicies
<1>8. CASE UpdateAssumeRolePolicy(w, lost)
  <2>1. role[r] \in RoleRec /\ role \in [Role -> RoleRec \union {NoRole}]
    BY <1>2, <1>5 DEF TypeOK, IAMTypeOK, Exists
  <2>2. role[r].trust = j.doc
    BY <1>5, <1>8 DEF UpdateAssumeRolePolicy, Remembers
  <2>3. [role[r] EXCEPT !.trust = j.doc] = role[r]
    BY <2>1, <2>2 DEF RoleRec
  <2>4. [role EXCEPT ![r].trust = j.doc] = role
    BY <2>1, <2>3
  <2> QED
    BY <1>8, <2>4 DEF UpdateAssumeRolePolicy, IAMUpdateAssumeRolePolicy, iamVars
<1>9. ~(\/ CreateRole(w, lost) \/ CreateInstanceProfile(w, lost)
        \/ AddRoleToInstanceProfile(w, lost)
        \/ AttachDeleteRolePolicy(w, lost) \/ PutRolePolicy(w, lost))
  BY <1>5 DEF CreateRole, CreateInstanceProfile, AddRoleToInstanceProfile,
              AttachDeleteRolePolicy, PutRolePolicy, Remembers
<1>10. ~(\/ DetachRolePolicy(w, lost) \/ CleanDeleteRolePolicy(w, lost)
         \/ RemoveRoleFromInstanceProfile(w, lost) \/ DeleteInstanceProfile(w, lost)
         \/ DeleteRole(w, lost))
  BY <1>6 DEF DetachRolePolicy, CleanDeleteRolePolicy, RemoveRoleFromInstanceProfile,
              DeleteInstanceProfile, DeleteRole, Deleting, DestroyingCalls
<1> QED BY <1>7, <1>8, <1>9, <1>10 DEF Writes

\* Reconciliations whose roles are as they want them change nothing in IAM, from
\* their start or from the middle of them, interleaved and interrupted or not.
THEOREM ApartWorkersAreSteady ==
    ASSUME Environment = {}
    PROVE  Spec /\ []Apart => SteadyStateIsKept
<1>1. TypeOK /\ LoneInv /\ [Next]_vars =>
        [(\A w \in Worker : Satisfied(job[w])) => UNCHANGED iamVars]_vars
  <2> SUFFICES ASSUME TypeOK, LoneInv, [Next]_vars, \A w \in Worker : Satisfied(job[w])
               PROVE  UNCHANGED iamVars
    OBVIOUS
  <2>1. ASSUME NEW w \in Worker, NEW lost \in BOOLEAN, Reads(w) \/ Writes(w, lost)
        PROVE  UNCHANGED iamVars
    BY <2>1, SatisfiedCallIsIdle DEF LoneInv
  <2>2. ASSUME NEW q \in Role, Elsewhere(q) PROVE FALSE
    BY <2>2 DEF Elsewhere, Adopt, CreateElsewhere, AttachElsewhere, RemoveByHand
  <2>3. (\E w \in Worker : (\E j \in Jobs : Start(w, j)) \/ CallFails(w)) \/ Crash
          => UNCHANGED iamVars
    BY DEF Start, CallFails, Crash
  <2> QED
    BY <2>1, <2>2, <2>3 DEF Next, vars
<1>2. Spec /\ []Apart => []LoneInv
  BY LoneHolds
<1> QED
  BY TypeCorrect, <1>1, <1>2, PTL DEF Spec, SteadyStateIsKept

COROLLARY LoneWorkerIsSteady ==
    ASSUME Alone, Environment = {}
    PROVE  Spec => SteadyStateIsKept
BY AloneIsApart, ApartWorkersAreSteady, PTL

-----------------------------------------------------------------------------
(* No instance profile outlives its role.                                  *)

\* A profile is made for a role that is there, and deleteRole comes to the
\* role only after the profile has gone, if the role had left it.
ProfileInv == \A w \in Worker :
    /\ pc[w] = "CreateInstanceProfile" => Exists(Current(w))
    /\ pc[w] = "DeleteRole" => profile[Current(w)] # "empty"

\* A worker comes to one of these two calls by the call before it.
LEMMA CallKeepsProfiles ==
    ASSUME NEW w \in Worker, NEW lost \in BOOLEAN, TypeOK, Reads(w) \/ Writes(w, lost)
    PROVE  /\ pc'[w] = "CreateInstanceProfile" => Exists(Current(w))'
           /\ pc'[w] = "DeleteRole" => profile'[Current(w)'] # "empty"
<1> DEFINE r == Current(w)
           Neither == pc'[w] \notin {"CreateInstanceProfile", "DeleteRole"}
<1>1. pc \in [Worker -> Resting \union Calls] /\ job[w] \in Jobs
  BY DEF TypeOK, WorkersTypeOK, Calls
<1>2. Entry(job[w]) \notin {"CreateInstanceProfile", "DeleteRole"}
  BY <1>1, EntryType
<1>3. AfterCreateRole(job[w]) \notin {"CreateInstanceProfile", "DeleteRole"}
  BY DEF AfterCreateRole
<1>4. Fail(w) \/ RoleDone(w) => Neither
  BY <1>1, <1>2 DEF Fail, RoleDone
<1>5. ASSUME NEW c, Goto(w, c) PROVE pc'[w] = c /\ Current(w)' = r
  BY <1>1, <1>5 DEF Goto, Current
<1>6. ASSUME NEW left, NEW c, NEW after, Loop(w, left, c, after)
      PROVE  pc'[w] \in {c, after}
  BY <1>1, <1>6 DEF Loop
<1>7. /\ r \in Role /\ job[w].doc \in Doc
      /\ role \in [Role -> RoleRec \union {NoRole}] /\ profile \in [Role -> ProfileState]
  BY CallIsBusy, CurrentType, JobType DEF TypeOK, IAMTypeOK
<1>8. CASE Reads(w)
  <2>1. Neither
    BY <1>3, <1>4, <1>5, <1>6, <1>8
       DEF Reads, CreateGetRole, AssumeGetRole, GetRolePolicy, DeleteGetRole,
           ListAttachedRolePolicies, ListRolePolicies
  <2> QED BY <2>1
<1>9. CASE CreateRole(w, lost)
  <2>1. CASE IAMCreateRole(r, {"owned"}, job[w].doc) /\ Goto(w, "CreateInstanceProfile")
    <3>1. role'[r] # NoRole
      BY <1>7, <2>1, NewRoleType, IAMAssumption DEF IAMCreateRole, Tag
    <3> QED BY <1>5, <2>1, <3>1 DEF Exists
  <2> QED BY <1>4, <1>9, <2>1 DEF CreateRole
<1>10. CASE \/ CreateInstanceProfile(w, lost) \/ AddRoleToInstanceProfile(w, lost)
            \/ UpdateAssumeRolePolicy(w, lost) \/ AttachDeleteRolePolicy(w, lost)
            \/ PutRolePolicy(w, lost)
  <2>1. Neither
    BY <1>3, <1>4, <1>5, <1>10
       DEF CreateInstanceProfile, AddRoleToInstanceProfile, UpdateAssumeRolePolicy,
           AttachDeleteRolePolicy, PutRolePolicy
  <2> QED BY <2>1
<1>11. CASE \/ DetachRolePolicy(w, lost) \/ CleanDeleteRolePolicy(w, lost)
            \/ RemoveRoleFromInstanceProfile(w, lost) \/ DeleteRole(w, lost)
  <2>1. DetachRolePolicy(w, lost) \/ CleanDeleteRolePolicy(w, lost) => Neither
    <3>1. CASE DetachRolePolicy(w, lost)
      <4>1. \/ Fail(w)
            \/ \E m : Loop(w, listed[w] \ {m}, "DetachRolePolicy", "ListRolePolicies")
        BY <3>1 DEF DetachRolePolicy
      <4> QED BY <1>1, <1>4, <4>1 DEF Loop
    <3>2. CASE CleanDeleteRolePolicy(w, lost)
      <4>1. \/ Fail(w)
            \/ \E p : Loop(w, listed[w] \ {p}, "clean.DeleteRolePolicy",
                           "RemoveRoleFromInstanceProfile")
        BY <3>2 DEF CleanDeleteRolePolicy
      <4> QED BY <1>1, <1>4, <4>1 DEF Loop
    <3> QED BY <3>1, <3>2
  <2>2. RemoveRoleFromInstanceProfile(w, lost) => Neither
    BY <1>4, <1>5 DEF RemoveRoleFromInstanceProfile
  <2>3. DeleteRole(w, lost) => Neither
    BY <1>4 DEF DeleteRole
  <2> QED BY <1>11, <2>1, <2>2, <2>3
<1>12. CASE DeleteInstanceProfile(w, lost)
  <2>1. Fail(w) \/ Goto(w, "DeleteRole")
    BY <1>12 DEF DeleteInstanceProfile
  <2>2. Fail(w) \/ IAMDeleteInstanceProfile(r) \/ (profile[r] = "none" /\ UNCHANGED iamVars)
    BY <1>12 DEF DeleteInstanceProfile
  <2>3. Fail(w) \/ profile'[r] = "none"
    BY <1>7, <2>2 DEF IAMDeleteInstanceProfile, iamVars
  <2> QED BY <1>4, <1>5, <2>1, <2>3
<1> QED
  BY <1>8, <1>9, <1>10, <1>11, <1>12 DEF Writes

\* What others do in IAM takes no role away and empties no profile, unless an
\* engineer removes roles by hand.
LEMMA OthersKeepProfiles ==
    ASSUME "remove" \notin Environment, TypeOK, NEW q \in Role, Elsewhere(q), NEW r \in Role
    PROVE  /\ Exists(r) => Exists(r)'
           /\ profile'[r] = profile[r] \/ (profile'[r] = "holds" /\ Exists(r)')
<1>1. role \in [Role -> RoleRec \union {NoRole}] /\ profile \in [Role -> ProfileState]
  BY DEF TypeOK, IAMTypeOK
<1>2. ASSUME NEW t \in RoleRec, role' = [role EXCEPT ![q] = t]
      PROVE  (Exists(r) => Exists(r)') /\ Exists(q)'
  BY <1>1, <1>2, IAMAssumption DEF Exists
<1>3. ASSUME NEW kept \in SUBSET Tag, Adopt(q, kept)
      PROVE  (Exists(r) => Exists(r)') /\ profile' = profile
  <2>1. [role[q] EXCEPT !.tags = kept \union {"crossplane"}] \in RoleRec
    BY <1>1, <1>3 DEF Adopt, Exists, RoleRec, Tag
  <2> QED BY <1>2, <1>3, <2>1 DEF Adopt
<1>4. ASSUME NEW tags \in SUBSET Tag, NEW d \in Doc, NEW p \in ProfileState,
             CreateElsewhere(q, tags, d, p)
      PROVE  /\ Exists(r) => Exists(r)'
             /\ profile'[r] = profile[r] \/ (profile'[r] = "holds" /\ Exists(r)')
  <2>1. NewRole(tags, d) \in RoleRec
    BY NewRoleType
  <2>2. (Exists(r) => Exists(r)') /\ Exists(q)'
    BY <1>2, <1>4, <2>1 DEF CreateElsewhere
  <2> QED BY <1>1, <1>4, <2>2 DEF CreateElsewhere
<1>5. ASSUME NEW m \in Managed, AttachElsewhere(q, m)
      PROVE  (Exists(r) => Exists(r)') /\ profile' = profile
  <2>1. [role[q] EXCEPT !.attached = @ \union {m}] \in RoleRec
    BY <1>1, <1>5 DEF AttachElsewhere, Exists, RoleRec
  <2> QED BY <1>2, <1>5, <2>1 DEF AttachElsewhere
<1> QED
  BY <1>3, <1>4, <1>5 DEF Elsewhere, RemoveByHand

LEMMA ProfileStep ==
    ASSUME Apart, "remove" \notin Environment, TypeOK, AtOwnRoles, ProfileInv, [Next]_vars
    PROVE  ProfileInv'
<1> SUFFICES ASSUME NEW w \in Worker
             PROVE  /\ pc'[w] = "CreateInstanceProfile" => Exists(Current(w))'
                    /\ pc'[w] = "DeleteRole" => profile'[Current(w)'] # "empty"
  BY DEF ProfileInv
<1> DEFINE Kept == /\ pc'[w] = "CreateInstanceProfile" => Exists(Current(w))'
                   /\ pc'[w] = "DeleteRole" => profile'[Current(w)'] # "empty"
<1>1. /\ pc[w] = "CreateInstanceProfile" => Exists(Current(w))
      /\ pc[w] = "DeleteRole" => profile[Current(w)] # "empty"
  BY DEF ProfileInv
<1>2. ASSUME pc'[w] = pc[w], todo'[w] = todo[w],
             \A r \in RolesOf(job[w]) : role'[r] = role[r] /\ profile'[r] = profile[r]
      PROVE  Kept
  <2>1. CASE Busy(w)
    <3>1. Current(w) \in RolesOf(job[w]) /\ Current(w)' = Current(w)
      BY <1>2, <2>1, LeftIsRoles DEF AtOwnRoles, TypeOK, Current
    <3>2. PICK r \in RolesOf(job[w]) : r = Current(w) /\ Current(w)' = r
      BY <3>1
    <3> QED BY <1>1, <1>2, <3>2 DEF Exists
  <2>2. CASE ~Busy(w)
    BY <1>2, <2>2 DEF Busy, Resting
  <2> QED BY <2>1, <2>2
<1>3. ASSUME NEW v \in Worker, NEW lost \in BOOLEAN, Reads(v) \/ Writes(v, lost) PROVE Kept
  <2>1. CASE v = w
    BY <1>3, <2>1, CallKeepsProfiles
  <2>2. CASE v # w
    BY <1>2, <1>3, <2>2, CallSparesOthers
  <2> QED BY <2>1, <2>2
<1>4. ASSUME NEW v \in Worker, NEW j \in Jobs, Start(v, j) PROVE Kept
  <2>1. CASE v = w
    BY <1>4, <2>1, EntryType DEF Start, TypeOK, WorkersTypeOK
  <2>2. CASE v # w
    BY <1>2, <1>4, <2>2 DEF Start, iamVars, TypeOK, WorkersTypeOK
  <2> QED BY <2>1, <2>2
<1>5. ASSUME NEW v \in Worker, CallFails(v) PROVE Kept
  <2>1. CASE v = w
    BY <1>5, <2>1 DEF CallFails, Fail, TypeOK, WorkersTypeOK
  <2>2. CASE v # w
    BY <1>2, <1>5, <2>2 DEF CallFails, Fail, iamVars, TypeOK, WorkersTypeOK
  <2> QED BY <2>1, <2>2
<1>6. Crash => Kept
  BY DEF Crash
<1>7. ASSUME NEW q \in Role, Elsewhere(q) PROVE Kept
  <2>1. pc' = pc /\ Current(w)' = Current(w)
    BY <1>7, ElsewhereType DEF workerVars, Current
  <2>2. CASE Busy(w)
    <3>1. PICK r \in Role : r = Current(w) /\ Current(w)' = r
      BY <2>1, <2>2, CurrentType DEF TypeOK
    <3>2. /\ Exists(r) => Exists(r)'
          /\ profile'[r] = profile[r] \/ profile'[r] = "holds"
      BY <1>7, OthersKeepProfiles
    <3> QED BY <1>1, <2>1, <3>1, <3>2 DEF Exists
  <2>3. CASE ~Busy(w)
    BY <2>1, <2>3 DEF Busy, Resting
  <2> QED BY <2>2, <2>3
<1>8. CASE UNCHANGED vars
  BY <1>2, <1>8 DEF vars, iamVars, workerVars
<1> QED
  BY <1>3, <1>4, <1>5, <1>6, <1>7, <1>8 DEF Next

\* A call brings no profile into being for a role that is not there, and
\* takes away no role whose profile is.
LEMMA CallOrphansNothing ==
    ASSUME NEW w \in Worker, NEW lost \in BOOLEAN, TypeOK, ProfileInv,
           Reads(w) \/ Writes(w, lost), NEW r \in Role, Orphaned(r)'
    PROVE  Orphaned(r)
<1>1. /\ Current(w) \in Role
      /\ role \in [Role -> RoleRec \union {NoRole}] /\ profile \in [Role -> ProfileState]
  BY CallIsBusy, CurrentType DEF TypeOK, IAMTypeOK
<1>2. CASE Exists(r)
  <2>1. pc[w] = "DeleteRole" /\ Current(w) = r
    BY <1>2, CallRemoves DEF Orphaned
  <2>2. profile[r] # "empty" /\ DeleteRole(w, lost)
    BY <2>1 DEF ProfileInv, Reads, Writes, CreateGetRole, AssumeGetRole, GetRolePolicy,
                DeleteGetRole, ListAttachedRolePolicies, ListRolePolicies, CreateRole,
                CreateInstanceProfile, AddRoleToInstanceProfile, UpdateAssumeRolePolicy,
                AttachDeleteRolePolicy, PutRolePolicy, DetachRolePolicy,
                CleanDeleteRolePolicy, RemoveRoleFromInstanceProfile, DeleteInstanceProfile
  <2>3. profile' = profile /\ (Deletable(r) \/ UNCHANGED role)
    BY <2>1, <2>2 DEF DeleteRole, IAMDeleteRole, iamVars
  <2> QED
    BY <1>1, <1>2, <2>2, <2>3 DEF Orphaned, Deletable, ProfileState, Exists
<1>3. CASE ~Exists(r) /\ profile[r] = "none"
  <2>1. profile'[r] # "none" /\ ~Exists(r)'
    BY DEF Orphaned
  <2>2. ~UNCHANGED profile
    BY <1>3, <2>1
  <2>3. CASE CreateInstanceProfile(w, lost)
    <3>1. Exists(Current(w)) /\ (UNCHANGED iamVars \/ IAMCreateInstanceProfile(Current(w)))
      BY <2>3 DEF ProfileInv, CreateInstanceProfile
    <3> QED BY <1>1, <1>3, <2>1, <3>1 DEF IAMCreateInstanceProfile, iamVars
  <2>4. CASE \/ AddRoleToInstanceProfile(w, lost) \/ RemoveRoleFromInstanceProfile(w, lost)
             \/ DeleteInstanceProfile(w, lost)
    BY <1>1, <1>3, <2>1, <2>4
       DEF AddRoleToInstanceProfile, RemoveRoleFromInstanceProfile, DeleteInstanceProfile,
           IAMAddRoleToInstanceProfile, IAMRemoveRoleFromInstanceProfile,
           IAMDeleteInstanceProfile, iamVars
  <2>5. Reads(w) => UNCHANGED profile
    BY DEF Reads, CreateGetRole, AssumeGetRole, GetRolePolicy, DeleteGetRole,
           ListAttachedRolePolicies, ListRolePolicies, iamVars
  <2>6. \/ CreateRole(w, lost) \/ UpdateAssumeRolePolicy(w, lost)
        \/ AttachDeleteRolePolicy(w, lost) \/ PutRolePolicy(w, lost)
        \/ DetachRolePolicy(w, lost) \/ CleanDeleteRolePolicy(w, lost) \/ DeleteRole(w, lost)
        => UNCHANGED profile
    BY DEF CreateRole, UpdateAssumeRolePolicy, AttachDeleteRolePolicy, PutRolePolicy,
           DetachRolePolicy, CleanDeleteRolePolicy, DeleteRole, IAMCreateRole,
           IAMUpdateAssumeRolePolicy, IAMDeleteRolePolicy, IAMPutRolePolicy,
           IAMDetachRolePolicy, IAMDeleteRole, iamVars
  <2> QED BY <2>2, <2>3, <2>4, <2>5, <2>6 DEF Writes
<1> QED BY <1>2, <1>3 DEF Orphaned

\* However jobs are interleaved, interrupted and repeated, and whatever Crossplane
\* and other tools make, adopt and attach meanwhile, no instance profile comes to
\* be without its role, so none is left behind that nothing would ever clean up.
THEOREM ApartWorkersOrphanNothing ==
    ASSUME "remove" \notin Environment
    PROVE  Spec /\ []Apart => NoProfileIsOrphaned
<1>1. Init => ProfileInv
  BY DEF Init, ProfileInv
<1>2. Apart /\ TypeOK /\ AtOwnRoles /\ ProfileInv /\ [Next]_vars => ProfileInv'
  BY ProfileStep
<1>3. TypeOK /\ ProfileInv /\ [Next]_vars => [\A r \in Role : Orphaned(r)' => Orphaned(r)]_vars
  <2> SUFFICES ASSUME TypeOK, ProfileInv, [Next]_vars, NEW r \in Role, Orphaned(r)'
               PROVE  Orphaned(r)
    OBVIOUS
  <2>1. ASSUME NEW w \in Worker, NEW lost \in BOOLEAN, Reads(w) \/ Writes(w, lost)
        PROVE  Orphaned(r)
    BY <2>1, CallOrphansNothing
  <2>2. ASSUME NEW q \in Role, Elsewhere(q) PROVE Orphaned(r)
    BY <2>2, OthersKeepProfiles DEF Orphaned
  <2>3. UNCHANGED iamVars => Orphaned(r)
    BY DEF Orphaned, iamVars, Exists
  <2>4. (\E w \in Worker : (\E j \in Jobs : Start(w, j)) \/ CallFails(w)) \/ Crash
          => UNCHANGED iamVars
    BY DEF Start, CallFails, Crash
  <2> QED
    BY <2>1, <2>2, <2>3, <2>4 DEF Next, vars
<1> QED
  BY TypeCorrect, AtOwnRolesHolds, <1>1, <1>2, <1>3, PTL DEF Spec, NoProfileIsOrphaned

COROLLARY ProfilesGoWithRoles ==
    ASSUME Alone, "remove" \notin Environment
    PROVE  Spec => NoProfileIsOrphaned
BY AloneIsApart, ApartWorkersOrphanNothing, PTL

-----------------------------------------------------------------------------
(* Jobs that are retried.                                                  *)

\* The retries and the counted faults of IAMServiceRetry are steps of IAMService:
\* whatever is proved of every behaviour of IAMService, the ones with fairness
\* keep on their way to the roles they are to end with.
THEOREM RetriesAreJobs == RetrySpec => Spec
<1>1. TypeOK /\ [RetryNext]_retryVars => [Next]_vars
  <2> SUFFICES ASSUME TypeOK, [RetryNext]_retryVars PROVE [Next]_vars
    OBVIOUS
  <2>1. ASSUME NEW w \in Worker, Retries(w) \/ Works(w) PROVE Next
    <3>1. job[w] \in Jobs
      BY DEF TypeOK, WorkersTypeOK
    <3>2. FALSE \in BOOLEAN
      OBVIOUS
    <3> QED BY <2>1, <3>1, <3>2 DEF Retries, Works, Next
  <2>2. ASSUME Fault PROVE Next
    BY <2>2 DEF Fault, Next
  <2>3. CASE UNCHANGED retryVars
    BY <2>3 DEF retryVars
  <2> QED BY <2>1, <2>2, <2>3 DEF RetryNext
<1>2. Init => TypeOK
  BY InitType
<1>3. TypeOK /\ [Next]_vars => TypeOK'
  BY NextType
<1>4. RetryInit => Init
  BY DEF RetryInit
<1> QED
  BY <1>1, <1>2, <1>3, <1>4, PTL DEF Spec, RetrySpec

\* A worker of IAMServiceRetry keeps its object.
LEMMA RetryKeepsJobs ==
    ASSUME TypeOK, [RetryNext]_retryVars
    PROVE  job' = job
<1>1. job \in [Worker -> Jobs]
  BY DEF TypeOK, WorkersTypeOK
<1>2. ASSUME NEW w \in Worker, NEW lost \in BOOLEAN, Reads(w) \/ Writes(w, lost)
      PROVE  job' = job
  BY <1>2, CallKeepsJob
<1>3. ASSUME NEW w \in Worker, Retries(w) PROVE job' = job
  BY <1>1, <1>3 DEF Retries, Start
<1>4. ASSUME NEW w \in Worker, CallFails(w) PROVE job' = job
  BY <1>4 DEF CallFails, Fail
<1>5. (\E r \in Role : Elsewhere(r)) \/ Crash => job' = job
  BY ElsewhereType DEF Crash, workerVars
<1>6. UNCHANGED retryVars => job' = job
  BY DEF retryVars, vars, workerVars
<1>7. FALSE \in BOOLEAN /\ TRUE \in BOOLEAN
  OBVIOUS
<1> QED
  BY <1>2, <1>3, <1>4, <1>5, <1>6, <1>7 DEF RetryNext, Works, Fault

\* So workers that are apart at the beginning stay so.
LEMMA RetriesStayApart == RetrySpec /\ Apart => []Apart
<1>1. TypeOK /\ Apart /\ [RetryNext]_retryVars => Apart'
  <2> SUFFICES ASSUME TypeOK, Apart, [RetryNext]_retryVars PROVE Apart'
    OBVIOUS
  <2>1. job' = job
    BY RetryKeepsJobs
  <2>2. ASSUME NEW w \in Worker PROVE RolesOf(job[w])' = RolesOf(job[w])
    BY <2>1 DEF RolesOf, JobRoles, ForIRSA
  <2> QED BY <2>2 DEF Apart
<1>2. RetrySpec => []TypeOK
  BY RetriesAreJobs, TypeCorrect, PTL
<1> QED
  BY <1>1, <1>2, PTL DEF RetrySpec

\* However many calls fail, lose their answers or are made anew, and however the
\* workers' calls interleave, the retried jobs of workers that begin apart return
\* nil only with their work done.
THEOREM RetriedWorkersDone ==
    ASSUME Environment \cap {"create", "remove"} = {}
    PROVE  RetrySpec /\ Apart => []OkMeansDone
<1>1. Spec /\ []Apart => []OkMeansDone
  BY ApartWorkersDone
<1> QED BY <1>1, RetriesAreJobs, RetriesStayApart, PTL

\* Neither the worker's own retries nor the jobs of others undo what it has made.
LEMMA SatisfiedStep ==
    ASSUME Environment \cap {"create", "remove"} = {}, Apart, TypeOK, AtOwnRoles, LoneInv,
           [Next]_vars, NEW w \in Worker, job' = job, Satisfied(job[w])
    PROVE  Satisfied(job[w])'
<1> DEFINE Same(r) == /\ Exists(r) => Exists(r)'
                      /\ Exists(r) => /\ role'[r].trust = role[r].trust
                                      /\ role'[r].inline = role[r].inline
<1>1. RolesOf(job[w]) \subseteq Role
  BY JobRolesType, ElementOfSeq DEF RolesOf, TypeOK, WorkersTypeOK
<1>2. \A r : role'[r] = role[r] => Same(r)
  BY DEF Exists
<1>3. ASSUME NEW r \in RolesOf(job[w]) PROVE Same(r)
  <2>1. ASSUME NEW v \in Worker, NEW lost \in BOOLEAN, Reads(v) \/ Writes(v, lost) PROVE Same(r)
    <3>1. CASE v = w
      <4>1. UNCHANGED iamVars
        BY <2>1, <3>1, SatisfiedCallIsIdle DEF LoneInv
      <4> QED BY <1>2, <4>1 DEF iamVars
    <3>2. CASE v # w
      <4>1. role'[r] = role[r]
        BY <2>1, <3>2, CallSparesOthers
      <4> QED BY <1>2, <4>1
    <3> QED BY <3>1, <3>2
  <2>2. ASSUME NEW q \in Role, Elsewhere(q) PROVE Same(r)
    BY <1>1, <2>2, OthersKeepPolicies
  <2>3. (\E v \in Worker : (\E j \in Jobs : Start(v, j)) \/ CallFails(v)) \/ Crash
          => UNCHANGED iamVars
    BY DEF Start, CallFails, Crash
  <2>4. UNCHANGED iamVars => Same(r)
    BY <1>2 DEF iamVars
  <2> QED BY <2>1, <2>2, <2>3, <2>4 DEF Next, vars
<1>4. ASSUME NEW r \in RolesOf(job[w]) PROVE Reconciled(r, job[w])'
  <2>1. Reconciled(r, job[w])
    BY DEF Satisfied
  <2> HIDE DEF Same
  <2>2. Same(r)
    BY <1>3
  <2> QED BY <2>1, <2>2 DEF Same, Reconciled, AppliesAssumePolicy, ForIRSA
<1>5. RolesOf(job[w])' = RolesOf(job[w])
  BY DEF RolesOf, JobRoles, ForIRSA
<1>6. Makes(job[w])'
  BY DEF Satisfied, Makes, Reconciles, NodeRole, ForIRSA
<1> QED BY <1>4, <1>5, <1>6 DEF Satisfied

\* The half of ReconciliationConverges that needs no fairness: once the roles of
\* a retried reconciliation are as it wants them they stay so, whatever the other
\* workers make and delete of theirs and whatever Crossplane adopts.
THEOREM SatisfiedForGood ==
    ASSUME Environment \cap {"create", "remove"} = {}, NEW w \in Worker
    PROVE  RetrySpec /\ Apart => [](Satisfied(job[w]) => []Satisfied(job[w]))
<1>1. /\ Apart /\ TypeOK /\ AtOwnRoles /\ LoneInv /\ Satisfied(job[w])
      /\ [RetryNext]_retryVars /\ [Next]_vars
      => Satisfied(job[w])'
  BY RetryKeepsJobs, SatisfiedStep
<1>2. Spec /\ []Apart => []LoneInv
  BY LoneHolds
<1> QED
  BY <1>1, <1>2, RetriesAreJobs, RetriesStayApart, TypeCorrect, AtOwnRolesHolds, PTL
     DEF Spec, RetrySpec

LEMMA CallCreates ==
    ASSUME NEW w \in Worker, NEW lost \in BOOLEAN, TypeOK, Reads(w) \/ Writes(w, lost),
           NEW r \in Role, ~Exists(r), Exists(r)'
    PROVE  pc[w] = "CreateRole"
<1>1. role \in [Role -> RoleRec \union {NoRole}] /\ role[r] = NoRole /\ role'[r] # NoRole
  BY DEF TypeOK, IAMTypeOK, Exists
<1>2. role'[Current(w)] # role[Current(w)] /\ Current(w) = r
  BY <1>1, CallTouchesCurrent DEF SameButCurrent
<1>3. ~Exists(Current(w)) /\ ~UNCHANGED iamVars /\ ~UNCHANGED role
  BY <1>2 DEF iamVars
<1>4. ~Reads(w)
  BY <1>3 DEF Reads, CreateGetRole, AssumeGetRole, GetRolePolicy, DeleteGetRole,
              ListAttachedRolePolicies, ListRolePolicies
<1>5. ~(\/ CreateInstanceProfile(w, lost) \/ AddRoleToInstanceProfile(w, lost)
        \/ RemoveRoleFromInstanceProfile(w, lost) \/ DeleteInstanceProfile(w, lost))
  BY <1>3
     DEF CreateInstanceProfile, AddRoleToInstanceProfile, RemoveRoleFromInstanceProfile,
         DeleteInstanceProfile, IAMCreateInstanceProfile, IAMAddRoleToInstanceProfile,
         IAMRemoveRoleFromInstanceProfile, IAMDeleteInstanceProfile
<1>6. ~(\/ UpdateAssumeRolePolicy(w, lost) \/ AttachDeleteRolePolicy(w, lost)
        \/ PutRolePolicy(w, lost) \/ DetachRolePolicy(w, lost)
        \/ CleanDeleteRolePolicy(w, lost) \/ DeleteRole(w, lost))
  BY <1>3
     DEF UpdateAssumeRolePolicy, AttachDeleteRolePolicy, PutRolePolicy, DetachRolePolicy,
         CleanDeleteRolePolicy, DeleteRole, IAMUpdateAssumeRolePolicy, IAMDeleteRolePolicy,
         IAMPutRolePolicy, IAMDetachRolePolicy, IAMDeleteRole, HasInlinePolicy, HasAttached,
         Deletable
<1> QED BY <1>4, <1>5, <1>6 DEF Writes, CreateRole

\* A worker that may delete a role does not bring it back, and the others do not
\* touch it.
LEMMA SparedStep ==
    ASSUME Environment \cap {"create", "remove"} = {}, Apart, TypeOK, AtOwnRoles, LoneInv,
           [Next]_vars, NEW w \in Worker, MayDelete(job[w]),
           NEW r \in RolesOf(job[w]), Spared(r)
    PROVE  Spared(r)'
<1>1. job[w] \in Jobs /\ r \in Role
  BY JobRolesType, ElementOfSeq DEF RolesOf, TypeOK, WorkersTypeOK
<1>2. role'[r] = role[r] => Spared(r)'
  BY DEF Spared, Exists, OfCrossplane
<1>3. ASSUME NEW v \in Worker, NEW lost \in BOOLEAN, Reads(v) \/ Writes(v, lost)
      PROVE  Spared(r)'
  <2>1. CASE v # w
    BY <1>2, <1>3, <2>1, CallSparesOthers
  <2>2. CASE v = w
    <3>1. CASE Exists(r)
      <4>1. Exists(r)' => role'[r].tags = role[r].tags
        BY <1>1, <1>3, <3>1, CallKeepsTags
      <4> QED BY <3>1, <4>1 DEF Spared, OfCrossplane
    <3>2. CASE ~Exists(r)
      <4>1. pc[w] \notin Reconciling
        BY <1>1, EntryMeans DEF LoneInv, OnTrack
      <4>2. pc[w] # "CreateRole"
        BY <4>1 DEF Reconciling
      <4>3. ~Exists(r)'
        BY <1>1, <1>3, <2>2, <3>2, <4>2, CallCreates
      <4> QED BY <4>3 DEF Spared
    <3> QED BY <3>1, <3>2
  <2> QED BY <2>1, <2>2
<1>4. ASSUME NEW q \in Role, Elsewhere(q) PROVE Spared(r)'
  BY <1>1, <1>4, OthersKeepPolicies DEF Spared
<1>5. (\E v \in Worker : (\E j \in Jobs : Start(v, j)) \/ CallFails(v)) \/ Crash
        => UNCHANGED iamVars
  BY DEF Start, CallFails, Crash
<1>6. UNCHANGED iamVars => Spared(r)'
  BY <1>2 DEF iamVars
<1> QED BY <1>3, <1>4, <1>5, <1>6 DEF Next, vars

\* The roles of a deletion are all gone or Crossplane's.
AllSpared(w) == MayDelete(job[w]) /\ \A r \in RolesOf(job[w]) : Spared(r)

\* The half of DeletionConverges that needs no fairness: once the roles of a
\* retried deletion are gone, or Crossplane's, they stay so.
THEOREM SparedForGood ==
    ASSUME Environment \cap {"create", "remove"} = {}, NEW w \in Worker
    PROVE  RetrySpec /\ Apart => [](AllSpared(w) => []AllSpared(w))
<1>1. /\ Apart /\ TypeOK /\ AtOwnRoles /\ LoneInv /\ AllSpared(w)
      /\ [RetryNext]_retryVars /\ [Next]_vars
      => AllSpared(w)'
  <2> SUFFICES ASSUME Apart, TypeOK, AtOwnRoles, LoneInv, AllSpared(w),
                      [RetryNext]_retryVars, [Next]_vars
               PROVE  AllSpared(w)'
    OBVIOUS
  <2>1. job' = job
    BY RetryKeepsJobs
  <2>2. MayDelete(job[w]) /\ \A r \in RolesOf(job[w]) : Spared(r)'
    BY SparedStep DEF AllSpared
  <2>3. RolesOf(job[w])' = RolesOf(job[w])
    BY <2>1 DEF RolesOf, JobRoles, ForIRSA
  <2>4. MayDelete(job[w])'
    BY <2>1, <2>2 DEF MayDelete, Reconciles, NodeRole, ForIRSA
  <2> QED BY <2>2, <2>3, <2>4 DEF AllSpared
<1>2. Spec /\ []Apart => []LoneInv
  BY LoneHolds
<1> QED
  BY <1>1, <1>2, RetriesAreJobs, RetriesStayApart, TypeCorrect, AtOwnRolesHolds, PTL
     DEF Spec, RetrySpec
=============================================================================
