---------------------------- MODULE HeldRolesProofs ----------------------------
(***************************************************************************)
(* The proof that no role outlives the last template that could delete it  *)
(* (TemplateController's EveryRoleIsHeld), for clusters whose control      *)
(* planes' templates have one profile, and each bastion one of its own.    *)
(***************************************************************************)
EXTENDS TemplateControllerProofs

OneProfileEach ==
    \A t, u \in Template : profileOf[t] = profileOf[u] <=>
        t = u \/ (t \in ControlPlane /\ u \in ControlPlane)

Normal == {"HoldTemplate", "HoldAWSCluster", "ReconcileRole", "ReconcileRolesForIRSA"}
AfterLook == {"GetAWSClusterAgain", "ReleaseAWSCluster", "ReleaseTemplate"}
Deletion == {"IsRoleUsedElsewhere", "DeleteRole", "DeleteRolesForIRSA"} \union AfterLook

\* Some other control plane's template has the operator's finalizer.
Another(t) == \E w \in ControlPlane \ {t} : template[w].held

-----------------------------------------------------------------------------
(* What a reconciliation knows of its template.                            *)

\* A template that the cache shows live has not been released yet.
SeenHeld == \A t \in Template :
    seen.template[t].life = "live" /\ seen.template[t].held => template[t].held

AtIsRead ==
    pc # "idle" =>
        /\ read.template.life \in {"live", "deleting"}
        /\ pc \in Normal => read.template.life = "live"
        /\ pc \in Deletion => read.template.life = "deleting"
        /\ read.template.life = "live" /\ read.template.held => template[at].held
        /\ read.template.life = "deleting" =>
             at \in aged /\ seen.template[at].life \in {"deleting", "gone"}
        /\ pc \in Normal \ {"HoldTemplate"} => template[at].held

AgedIsDeleted == \A t \in aged : template[t].life \in {"deleting", "gone"}

ClusterIsOlder == cluster = "live" => seen.cluster = "live"

KnowsTemplate == SeenHeld /\ AtIsRead /\ AgedIsDeleted /\ ClusterIsOlder

(* What Helm's rules promise.  Before an uninstallation one of the control *)
(* plane's templates stays.                                                *)

SomeCPHeld == \E t \in ControlPlane : template[t].held

OneStays ==
    ~uninstall /\ SomeCPHeld => \E t \in ControlPlane : template[t].life = "live" /\ template[t].held

\* From its beginning on, no live template is without the finalizer.
AllHeld == uninstall => \A t \in Template : template[t].life = "live" => template[t].held

\* A template that was deleted before and still looks live makes the cache older
\* than the uninstallation: it does not show the last template's deletion.
GhostsAreOld ==
    uninstall /\ SomeCPHeld /\ (\E u \in Template : seen.template[u].life = "live" /\ ~template[u].held)
        => \E w \in ControlPlane : template[w].held /\ seen.template[w].life \in {"absent", "live"}

\* As long as the Cluster looks live, somebody has still to wait the ten seconds.
SomebodyWaits ==
    uninstall /\ SomeCPHeld /\ seen.cluster = "live"
        => \E w \in ControlPlane : template[w].held /\ w \notin aged

HelmsRules == OneStays /\ AllHeld /\ GhostsAreOld /\ SomebodyWaits

(* The roles of a template that is about to be released.                   *)

CPRole == (\E t \in ControlPlane : profileOf[t] \in mainRole) \/ irsaRoles

KeptForAnother ==
    /\ pc \in Deletion \union {"GetAWSCluster"} /\ at \in ControlPlane
       /\ read.template.life = "deleting" /\ ~read.clusterDeleting /\ template[at].held
         => Another(at)
    /\ pc \in AfterLook /\ at \in ControlPlane /\ CPRole /\ template[at].held => Another(at)
    /\ pc = "DeleteRolesForIRSA" => at \in ControlPlane
    /\ pc = "DeleteRolesForIRSA" /\ read.clusterDeleting => profileOf[at] \notin mainRole
    /\ pc \in AfterLook /\ at \notin ControlPlane => profileOf[at] \notin mainRole

\* What the operator leaves to Crossplane, and what it does not do.
NotMade == /\ Release >= 34 => \A t \in ControlPlane : profileOf[t] \notin mainRole
           /\ irsaRoles => EnableRoute53Role
           /\ pc = "ReconcileRolesForIRSA" => WithIRSA

HeldInv == KnowsTemplate /\ HelmsRules /\ KeptForAnother /\ NotMade /\ EveryRoleIsHeld

-----------------------------------------------------------------------------
(* Steps by what they leave alone.                                         *)

\* What is true of the objects stays true while they, but for the AWSCluster, stay.
LEMMA ObjectsStay ==
    ASSUME KnowsTemplate, HelmsRules, UNCHANGED <<cluster, template, seen, aged, uninstall>>
    PROVE  SeenHeld' /\ AgedIsDeleted' /\ ClusterIsOlder' /\ HelmsRules'
<1>1. SomeCPHeld' = SomeCPHeld
  BY DEF SomeCPHeld
<1>2. SeenHeld' /\ AgedIsDeleted' /\ ClusterIsOlder'
  BY DEF KnowsTemplate, SeenHeld, AgedIsDeleted, ClusterIsOlder
<1>3. OneStays' /\ AllHeld' /\ GhostsAreOld' /\ SomebodyWaits'
  BY <1>1 DEF HelmsRules, OneStays, AllHeld, GhostsAreOld, SomebodyWaits
<1> QED
  BY <1>2, <1>3 DEF HelmsRules

\* A reconciliation that ends knows nothing, and has nothing left to do.
LEMMA ReturnStep ==
    ASSUME HeldInv, pc' = "idle" \/ (pc' = "ReleaseConfigMap" /\ AtIsRead'),
           UNCHANGED <<cluster, template, seen, aged, uninstall, mainRole, irsaRoles>>
    PROVE  HeldInv'
<1>1. SeenHeld' /\ AgedIsDeleted' /\ ClusterIsOlder' /\ HelmsRules'
  BY ObjectsStay DEF HeldInv
<1>2. AtIsRead'
  BY DEF AtIsRead
<1>3. KeptForAnother'
  BY DEF KeptForAnother, Deletion, AfterLook
<1>4. NotMade' /\ EveryRoleIsHeld'
  BY DEF HeldInv, NotMade, EveryRoleIsHeld
<1> QED
  BY <1>1, <1>2, <1>3, <1>4 DEF HeldInv, KnowsTemplate

\* A step that only goes on in the same reconciliation.
LEMMA GoOnStep ==
    ASSUME HeldInv, pc # "idle", at' = at, read'.template = read.template, AtIsRead',
           UNCHANGED <<cluster, template, seen, aged, uninstall, mainRole, irsaRoles>>,
           KeptForAnother', pc' # "ReconcileRolesForIRSA"
    PROVE  HeldInv'
<1>1. SeenHeld' /\ AgedIsDeleted' /\ ClusterIsOlder' /\ HelmsRules'
  BY ObjectsStay DEF HeldInv
<1>2. NotMade' /\ EveryRoleIsHeld'
  BY DEF HeldInv, NotMade, EveryRoleIsHeld
<1> QED
  BY <1>1, <1>2 DEF HeldInv, KnowsTemplate

\* What others do, who change no finalizer of the operator's.
LEMMA HeldStep ==
    ASSUME HeldInv, UNCHANGED <<pc, at, read, mainRole, irsaRoles>>, at \in Template,
           \A t \in Template : template'[t].held = template[t].held
    PROVE  KeptForAnother' /\ NotMade' /\ EveryRoleIsHeld' /\ SomeCPHeld' = SomeCPHeld
<1>0. ControlPlane \subseteq Template
  BY TemplateAssumption
<1>1. \A t \in Template : Another(t)' = Another(t)
  BY <1>0 DEF Another
<1>2. CPRole' = CPRole
  BY DEF CPRole
<1>3. KeptForAnother'
  BY <1>1, <1>2 DEF HeldInv, KeptForAnother
<1>4. NotMade'
  BY DEF HeldInv, NotMade, WithIRSA, IsControlPlane
<1>5. EveryRoleIsHeld' /\ SomeCPHeld' = SomeCPHeld
  BY <1>0 DEF HeldInv, EveryRoleIsHeld, SomeCPHeld
<1> QED
  BY <1>3, <1>4, <1>5
-----------------------------------------------------------------------------
(* The steps that matter.                                                  *)

\* The template on its way out is one whose cached copy is not live, so that a
\* live copy with its profile is another one's, and both are control planes'.
LEMMA LookStep ==
    ASSUME OneProfileEach, TypeOK, RoleInv, HeldInv, IsRoleUsedElsewhere
    PROVE  KeptForAnother'
<1>0. /\ pc = "IsRoleUsedElsewhere" /\ UNCHANGED <<at, read, template, seen, mainRole, irsaRoles>>
      /\ at \in Template /\ ControlPlane \subseteq Template
  BY TemplateAssumption DEF IsRoleUsedElsewhere, Step, Goto, objectVars, apiVars, iamState, TypeOK
<1>1. /\ read.template.life = "deleting" /\ seen.template[at].life \in {"deleting", "gone"}
      /\ at \in aged /\ template[at].life \in {"deleting", "gone"}
  BY <1>0 DEF HeldInv, KnowsTemplate, AtIsRead, AgedIsDeleted, Deletion
<1>2. at \in ControlPlane /\ ~read.clusterDeleting /\ template[at].held => Another(at)
  BY <1>0, <1>1 DEF HeldInv, KeptForAnother, Deletion
<1>3. CASE ~UsedElsewhere(profileOf[at])
  <2>1. pc' = "DeleteRole"
    BY <1>3 DEF IsRoleUsedElsewhere, Step, Goto
  <2> QED
    BY <1>0, <1>2, <2>1 DEF KeptForAnother, AfterLook, Another
<1>4. CASE UsedElsewhere(profileOf[at])
  <2>1. pc' = "GetAWSClusterAgain"
    BY <1>4 DEF IsRoleUsedElsewhere, Step, Goto
  <2>2. PICK u \in Template : seen.template[u].life = "live" /\ profileOf[u] = profileOf[at]
    BY <1>4 DEF UsedElsewhere
  <2>3. u # at /\ u \in ControlPlane /\ at \in ControlPlane
    BY <1>0, <1>1, <2>2 DEF OneProfileEach
  <2>4. ASSUME template[at].held PROVE Another(at)
    <3>1. SomeCPHeld
      BY <2>3, <2>4 DEF SomeCPHeld
    <3>2. CASE ~uninstall
      BY <1>1, <3>1, <3>2 DEF HeldInv, HelmsRules, OneStays, Another
    <3>3. CASE uninstall /\ template[u].held
      BY <2>3, <3>3 DEF Another
    <3>4. CASE uninstall /\ ~template[u].held
      BY <1>1, <2>2, <3>1, <3>4 DEF HeldInv, HelmsRules, GhostsAreOld, Another
    <3> QED
      BY <3>2, <3>3, <3>4
  <2> QED
    BY <1>0, <1>2, <2>1, <2>3, <2>4 DEF KeptForAnother, AfterLook, Another, CPRole
<1> QED
  BY <1>3, <1>4

\* The Cluster seems to stay, ten seconds after the template's deletion: some
\* other template of the control plane's is still held.
LEMMA ClusterStep ==
    ASSUME TypeOK, HeldInv, GetCluster, There(seen.cluster)
    PROVE  KeptForAnother' /\ AtIsRead'
<1>0. /\ pc = "GetCluster" /\ pc' = "GetAWSCluster"
      /\ UNCHANGED <<at, template, seen, aged, mainRole, irsaRoles>>
      /\ read' = [read EXCEPT !.clusterDeleting = (seen.cluster = "deleting")]
  BY DEF GetCluster, GotoWith, Return, Goto, objectVars, apiVars, iamState
<1>1. read'.template = read.template /\ (~read'.clusterDeleting => seen.cluster = "live")
  BY <1>0 DEF TypeOK, There
<1>2. AtIsRead'
  BY <1>0, <1>1 DEF HeldInv, KnowsTemplate, AtIsRead, Normal, Deletion, AfterLook
<1>3. ASSUME at \in ControlPlane, read.template.life = "deleting", seen.cluster = "live",
             template[at].held
      PROVE  Another(at)
  <2>1. at \in aged /\ template[at].life \in {"deleting", "gone"} /\ SomeCPHeld
    BY <1>0, <1>3 DEF HeldInv, KnowsTemplate, AtIsRead, AgedIsDeleted, SomeCPHeld
  <2>2. CASE uninstall
    BY <1>3, <2>1, <2>2 DEF HeldInv, HelmsRules, SomebodyWaits, Another
  <2>3. CASE ~uninstall
    BY <2>1, <2>3 DEF HeldInv, HelmsRules, OneStays, Another
  <2> QED
    BY <2>2, <2>3
<1> QED
  BY <1>0, <1>1, <1>2, <1>3 DEF KeptForAnother, Deletion, AfterLook, Another

LEMMA DeleteRoleStep ==
    ASSUME OneProfileEach, TypeOK, HeldInv, DeleteRole
    PROVE  HeldInv'
<1>0. /\ pc = "DeleteRole" /\ UNCHANGED <<at, read, objectVars, irsaRoles>>
      /\ pc' = (IF WithIRSA THEN "DeleteRolesForIRSA" ELSE "GetAWSClusterAgain")
      /\ mainRole' \subseteq mainRole
      /\ LeftToCrossplane \/ (IsControlPlane /\ ~read.clusterDeleting) \/ profileOf[at] \notin mainRole'
      /\ at \in Template /\ ControlPlane \subseteq Template
  BY TemplateAssumption DEF DeleteRole, Step, Goto, TypeOK
<1>1. UNCHANGED <<cluster, template, seen, aged, uninstall>>
  BY <1>0 DEF objectVars, apiVars
<1>2. SeenHeld' /\ AgedIsDeleted' /\ ClusterIsOlder' /\ HelmsRules'
  BY <1>1, ObjectsStay DEF HeldInv
<1>3. AtIsRead'
  BY <1>0, <1>1 DEF HeldInv, KnowsTemplate, AtIsRead, Normal, Deletion, AfterLook
<1>4. NotMade' /\ EveryRoleIsHeld'
  BY <1>0, <1>1 DEF HeldInv, NotMade, EveryRoleIsHeld
<1>5. at \in ControlPlane /\ ~read.clusterDeleting /\ template[at].held => Another(at)
  BY <1>0 DEF HeldInv, KnowsTemplate, AtIsRead, KeptForAnother, Deletion
<1>6. at \notin ControlPlane => profileOf[at] \notin mainRole'
  BY <1>0 DEF LeftToCrossplane, IsControlPlane
<1>7. at \in ControlPlane /\ read.clusterDeleting => \A t \in ControlPlane : profileOf[t] \notin mainRole'
  <2> SUFFICES ASSUME at \in ControlPlane, read.clusterDeleting
               PROVE  \A t \in ControlPlane : profileOf[t] \notin mainRole'
    OBVIOUS
  <2>1. \A t \in ControlPlane : profileOf[t] = profileOf[at]
    BY <1>0 DEF OneProfileEach
  <2>2. profileOf[at] \notin mainRole'
    BY <1>0 DEF LeftToCrossplane, HeldInv, NotMade
  <2> QED
    BY <2>1, <2>2
<1>8. KeptForAnother'
  <2>1. CASE WithIRSA
    BY <1>0, <1>1, <1>5, <1>7, <2>1 DEF KeptForAnother, AfterLook, Another, WithIRSA, IsControlPlane
  <2>2. CASE ~WithIRSA
    <3>1. at \in ControlPlane => ~irsaRoles
      BY <2>2 DEF WithIRSA, IsControlPlane, HeldInv, NotMade
    <3>2. at \in ControlPlane /\ CPRole' /\ template[at].held => Another(at)
      BY <1>0, <1>5, <1>7, <3>1 DEF CPRole
    <3> QED
      BY <1>0, <1>1, <1>5, <1>6, <2>2, <3>2 DEF KeptForAnother, AfterLook, Another
  <2> QED
    BY <2>1, <2>2
<1> QED
  BY <1>2, <1>3, <1>4, <1>8 DEF HeldInv, KnowsTemplate

LEMMA DeleteRolesForIRSAStep ==
    ASSUME OneProfileEach, TypeOK, HeldInv, DeleteRolesForIRSA
    PROVE  HeldInv'
<1>0. /\ pc = "DeleteRolesForIRSA" /\ pc' = "GetAWSClusterAgain"
      /\ UNCHANGED <<at, read, objectVars, mainRole>>
      /\ irsaRoles' => irsaRoles /\ ~read.clusterDeleting
      /\ at \in Template /\ ControlPlane \subseteq Template
  BY TemplateAssumption DEF DeleteRolesForIRSA, Step, Goto, TypeOK
<1>1. UNCHANGED <<cluster, template, seen, aged, uninstall>>
  BY <1>0 DEF objectVars, apiVars
<1>2. SeenHeld' /\ AgedIsDeleted' /\ ClusterIsOlder' /\ HelmsRules'
  BY <1>1, ObjectsStay DEF HeldInv
<1>3. AtIsRead'
  BY <1>0, <1>1 DEF HeldInv, KnowsTemplate, AtIsRead, Normal, Deletion, AfterLook
<1>4. NotMade' /\ EveryRoleIsHeld'
  BY <1>0, <1>1 DEF HeldInv, NotMade, EveryRoleIsHeld
<1>5. /\ at \in ControlPlane /\ read.template.life = "deleting"
      /\ ~read.clusterDeleting /\ template[at].held => Another(at)
      /\ read.clusterDeleting => profileOf[at] \notin mainRole
  BY <1>0 DEF HeldInv, KnowsTemplate, AtIsRead, KeptForAnother, Deletion
<1>6. \A t \in ControlPlane : profileOf[t] = profileOf[at]
  BY <1>0, <1>5 DEF OneProfileEach
<1>7. CPRole' /\ template[at].held => Another(at)
  BY <1>0, <1>5, <1>6 DEF CPRole
<1>8. KeptForAnother'
  BY <1>0, <1>1, <1>5, <1>7 DEF KeptForAnother, AfterLook, Another
<1> QED
  BY <1>2, <1>3, <1>4, <1>8 DEF HeldInv, KnowsTemplate

LEMMA ReconcileStep ==
    ASSUME OneProfileEach, TypeOK, HeldInv, ReconcileRole \/ ReconcileRolesForIRSA
    PROVE  HeldInv'
<1>0. /\ pc \in {"ReconcileRole", "ReconcileRolesForIRSA"}
      /\ pc' \in {"ReconcileRolesForIRSA", "idle"} /\ (pc' = "ReconcileRolesForIRSA" => WithIRSA)
      /\ UNCHANGED <<at, objectVars>> /\ (pc' # "idle" => read' = read)
      /\ at \in Template /\ ControlPlane \subseteq Template /\ Release \in Nat
  BY TemplateAssumption, ControllerAssumption DEF ReconcileRole, ReconcileRolesForIRSA, Step, Goto, TypeOK
<1>1. UNCHANGED <<cluster, template, seen, aged, uninstall>>
  BY <1>0 DEF objectVars, apiVars
<1>2. SeenHeld' /\ AgedIsDeleted' /\ ClusterIsOlder' /\ HelmsRules'
  BY <1>1, ObjectsStay DEF HeldInv
<1>3. AtIsRead' /\ template[at].held
  BY <1>0, <1>1 DEF HeldInv, KnowsTemplate, AtIsRead, Normal, Deletion, AfterLook
<1>4. KeptForAnother'
  BY <1>0 DEF KeptForAnother, Deletion, AfterLook
<1>5. CASE ReconcileRole
  <2>1. /\ UNCHANGED irsaRoles
        /\ mainRole' \subseteq mainRole \union {profileOf[at]}
        /\ LeftToCrossplane => mainRole' = mainRole
    BY <1>5 DEF ReconcileRole
  <2>2. EveryRoleIsHeld'
    BY <1>0, <1>1, <1>3, <2>1 DEF HeldInv, EveryRoleIsHeld
  <2>3. ASSUME Release >= 34, NEW t \in ControlPlane PROVE profileOf[t] \notin mainRole'
    <3>1. CASE at \in ControlPlane
      BY <2>1, <2>3, <3>1 DEF LeftToCrossplane, IsControlPlane, HeldInv, NotMade
    <3>2. CASE at \notin ControlPlane
      <4>1. profileOf[t] # profileOf[at]
        BY <1>0, <3>2 DEF OneProfileEach
      <4> QED BY <2>1, <2>3, <4>1 DEF HeldInv, NotMade
    <3> QED BY <3>1, <3>2
  <2>4. NotMade'
    BY <1>0, <2>1, <2>3 DEF HeldInv, NotMade, WithIRSA, IsControlPlane
  <2> QED
    BY <1>2, <1>3, <1>4, <2>2, <2>4 DEF HeldInv, KnowsTemplate
<1>6. CASE ReconcileRolesForIRSA
  <2>1. pc = "ReconcileRolesForIRSA" /\ pc' = "idle" /\ UNCHANGED mainRole /\ WithIRSA
    BY <1>6 DEF ReconcileRolesForIRSA, Step, Goto, HeldInv, NotMade
  <2>2. EveryRoleIsHeld' /\ NotMade'
    BY <1>0, <1>1, <1>3, <2>1 DEF HeldInv, EveryRoleIsHeld, NotMade, WithIRSA, IsControlPlane
  <2> QED
    BY <1>2, <1>3, <1>4, <2>2 DEF HeldInv, KnowsTemplate
<1> QED
  BY <1>5, <1>6

\* Before an uninstallation a new holder that is live stays; afterwards every
\* live template is held already.
LEMMA HoldStep ==
    ASSUME TypeOK, HeldInv, AddTemplateFinalizer
    PROVE  HeldInv'
<1>0. /\ pc = "HoldTemplate" /\ UNCHANGED <<at, cluster, seen, aged, uninstall, mainRole, irsaRoles>>
      /\ pc' \in {"HoldAWSCluster", "idle"} /\ (pc' # "idle" => read' = read)
      /\ at \in Template /\ ControlPlane \subseteq Template
      /\ template \in [Template -> TemplateRec] /\ aged \subseteq Template
  BY TemplateAssumption DEF AddTemplateFinalizer, HoldTemplate, Return, Goto, objectVars, apiVars,
     iamState, TypeOK, ObjectsTypeOK
<1>1. read.template.life = "live" /\ (read.template.held => template[at].held)
  BY <1>0 DEF HeldInv, KnowsTemplate, AtIsRead, Normal
<1>2. CASE UNCHANGED template
  <2>1. SeenHeld' /\ AgedIsDeleted' /\ ClusterIsOlder' /\ HelmsRules'
    BY <1>0, <1>2, ObjectsStay DEF HeldInv
  <2>2. template[at].held \/ pc' = "idle"
    BY <1>0, <1>1, <1>2 DEF AddTemplateFinalizer, HoldTemplate, Return, Goto, TemplateRec
  <2>3. AtIsRead' /\ KeptForAnother'
    BY <1>0, <1>1, <1>2, <2>2 DEF AtIsRead, KeptForAnother, Normal, Deletion, AfterLook
  <2>4. NotMade' /\ EveryRoleIsHeld'
    BY <1>0, <1>2 DEF HeldInv, NotMade, EveryRoleIsHeld
  <2> QED
    BY <2>1, <2>3, <2>4 DEF HeldInv, KnowsTemplate
<1>3. CASE HoldTemplate(at)
  <2>1. /\ \A t \in Template \ {at} : template'[t] = template[t]
        /\ template'[at].held /\ template'[at].life = template[at].life
        /\ template[at].life = "live" \/ template[at].held
    BY <1>0, <1>3 DEF HoldTemplate, TemplateRec
  <2>2. SeenHeld' /\ AgedIsDeleted' /\ ClusterIsOlder'
    BY <1>0, <2>1 DEF HeldInv, KnowsTemplate, SeenHeld, AgedIsDeleted, ClusterIsOlder
  <2>3. OneStays' /\ AllHeld'
    BY <1>0, <2>1 DEF HeldInv, HelmsRules, OneStays, AllHeld, SomeCPHeld
  <2>4. uninstall => \A t \in Template : template'[t].held = template[t].held
    BY <1>0, <2>1 DEF HeldInv, HelmsRules, AllHeld, TemplateRec
  <2>5. GhostsAreOld' /\ SomebodyWaits'
    BY <1>0, <2>4 DEF HeldInv, HelmsRules, GhostsAreOld, SomebodyWaits, SomeCPHeld
  <2>6. AtIsRead' /\ KeptForAnother'
    BY <1>0, <1>1, <2>1 DEF AtIsRead, KeptForAnother, Normal, Deletion, AfterLook
  <2>7. NotMade' /\ EveryRoleIsHeld'
    BY <1>0, <2>1 DEF HeldInv, NotMade, EveryRoleIsHeld
  <2> QED
    BY <2>2, <2>3, <2>5, <2>6, <2>7 DEF HeldInv, KnowsTemplate, HelmsRules
<1> QED
  BY <1>0, <1>2, <1>3 DEF AddTemplateFinalizer, objectVars, apiVars

\* The template that is released is deleted and aged, so that none of what is
\* promised about another one is promised about it.
LEMMA ReleaseStep ==
    ASSUME OneProfileEach, TypeOK, HeldInv, pc = "ReleaseTemplate", ReleaseTemplate(at),
           pc' = "ReleaseConfigMap", UNCHANGED <<at, read, mainRole, irsaRoles>>
    PROVE  HeldInv'
<1>0. /\ UNCHANGED <<cluster, seen, aged, uninstall>>
      /\ at \in Template /\ ControlPlane \subseteq Template
      /\ template \in [Template -> TemplateRec] /\ aged \subseteq Template
  BY TemplateAssumption DEF ReleaseTemplate, TypeOK, ObjectsTypeOK
<1>1. /\ read.template.life = "deleting" /\ at \in aged
      /\ seen.template[at].life \in {"deleting", "gone"} /\ template[at].life \in {"deleting", "gone"}
  BY <1>0 DEF HeldInv, KnowsTemplate, AtIsRead, AgedIsDeleted, Deletion, AfterLook
<1>2. /\ \A t \in Template \ {at} : template'[t] = template[t]
      /\ ~template'[at].held /\ template'[at].life = "gone"
  BY <1>0, <1>1 DEF ReleaseTemplate, LifeWith, There
<1>3. SeenHeld' /\ AgedIsDeleted' /\ ClusterIsOlder'
  BY <1>0, <1>1, <1>2 DEF HeldInv, KnowsTemplate, SeenHeld, AgedIsDeleted, ClusterIsOlder
<1>4. SomeCPHeld' => SomeCPHeld
  BY <1>0, <1>2 DEF SomeCPHeld
<1>5. OneStays' /\ AllHeld'
  BY <1>0, <1>1, <1>2, <1>4 DEF HeldInv, HelmsRules, OneStays, AllHeld
<1>6. GhostsAreOld'
  BY <1>0, <1>1, <1>2, <1>4 DEF HeldInv, HelmsRules, GhostsAreOld
<1>7. SomebodyWaits'
  BY <1>0, <1>1, <1>2, <1>4 DEF HeldInv, HelmsRules, SomebodyWaits
<1>8. AtIsRead' /\ KeptForAnother'
  BY <1>0, <1>1 DEF AtIsRead, KeptForAnother, Normal, Deletion, AfterLook
<1>9. NotMade'
  BY DEF HeldInv, NotMade
<1>10. EveryRoleIsHeld'
  <2>1. CASE ~template[at].held
    BY <1>0, <1>2, <2>1 DEF HeldInv, EveryRoleIsHeld
  <2>2. CASE at \notin ControlPlane
    <3>1. profileOf[at] \notin mainRole
      BY <2>2 DEF HeldInv, KeptForAnother, AfterLook
    <3> QED BY <1>0, <1>2, <2>2, <3>1 DEF HeldInv, EveryRoleIsHeld
  <2>3. CASE at \in ControlPlane /\ ~CPRole
    BY <1>0, <1>2, <2>3 DEF CPRole, HeldInv, EveryRoleIsHeld
  <2>4. CASE at \in ControlPlane /\ CPRole /\ template[at].held
    <3>1. PICK w \in ControlPlane \ {at} : template[w].held
      BY <2>4 DEF HeldInv, KeptForAnother, AfterLook, Another
    <3>2. profileOf[w] = profileOf[at] /\ template'[w].held
      BY <1>0, <1>2, <2>4, <3>1 DEF OneProfileEach
    <3> QED BY <1>0, <1>2, <3>1, <3>2 DEF HeldInv, EveryRoleIsHeld
  <2> QED
    BY <2>1, <2>2, <2>3, <2>4
<1> QED
  BY <1>3, <1>5, <1>6, <1>7, <1>8, <1>9, <1>10 DEF HeldInv, KnowsTemplate, HelmsRules

\* A cache that shows the templates as they are shows no template live that is
\* not held, once Helm uninstalls.
LEMMA CacheHeldStep ==
    ASSUME TypeOK, HeldInv, UNCHANGED <<cluster, template, aged, uninstall>>,
           seen'.template = template \/ seen'.template = seen.template,
           seen'.cluster = cluster \/ seen'.cluster = seen.cluster
    PROVE  /\ SeenHeld' /\ AgedIsDeleted' /\ ClusterIsOlder' /\ HelmsRules'
           /\ (pc' # "idle" => pc # "idle" /\ UNCHANGED <<pc, at, read>>) => AtIsRead'
<1>1. SomeCPHeld' = SomeCPHeld
  BY DEF SomeCPHeld
<1>2. SeenHeld' /\ AgedIsDeleted' /\ ClusterIsOlder'
  BY DEF HeldInv, KnowsTemplate, SeenHeld, AgedIsDeleted, ClusterIsOlder
<1>3. OneStays' /\ AllHeld'
  BY <1>1 DEF HeldInv, HelmsRules, OneStays, AllHeld
<1>4. GhostsAreOld'
  BY <1>1 DEF HeldInv, HelmsRules, GhostsAreOld, AllHeld
<1>5. SomebodyWaits'
  BY <1>1 DEF HeldInv, HelmsRules, SomebodyWaits, KnowsTemplate, ClusterIsOlder
<1>6. (pc' # "idle" => pc # "idle" /\ UNCHANGED <<pc, at, read>>) => AtIsRead'
  BY DEF HeldInv, KnowsTemplate, AtIsRead, AgedIsDeleted
<1> QED
  BY <1>2, <1>3, <1>4, <1>5, <1>6 DEF HelmsRules

\* Helm, CAPI and CAPA.
LEMMA OthersHeldStep ==
    ASSUME OneProfileEach, TypeOK, RoleInv, HeldInv, Others,
           UNCHANGED <<pc, at, read, mainRole, irsaRoles>>
    PROVE  HeldInv'
<1>0. /\ at \in Template /\ ControlPlane \subseteq Template
      /\ template \in [Template -> TemplateRec] /\ aged \subseteq Template
  BY TemplateAssumption DEF TypeOK, ObjectsTypeOK
<1>1. CASE SyncCluster \/ SyncAWSCluster \/ SyncTemplates
  <2>1. /\ UNCHANGED <<cluster, template, aged, uninstall>>
        /\ seen'.template = template \/ seen'.template = seen.template
        /\ seen'.cluster = cluster \/ seen'.cluster = seen.cluster
    BY <1>1 DEF SyncCluster, SyncAWSCluster, SyncTemplates, Caught, apiVars, TypeOK, ObjectsTypeOK
  <2> QED
    BY <1>0, <2>1, CacheHeldStep, HeldStep DEF HeldInv, KnowsTemplate
<1>2. CASE DeleteAWSCluster \/ CAPAReads \/ CAPAHolds \/ CAPAIsDone
  <2>1. UNCHANGED <<cluster, template, seen, aged, uninstall>>
    BY <1>2 DEF DeleteAWSCluster, CAPAReads, CAPAHolds, CAPAIsDone, PatchAWSCluster, apiVars
  <2> QED
    BY <1>0, <2>1, ObjectsStay, HeldStep DEF HeldInv, KnowsTemplate, AtIsRead
<1>3. CASE UninstallCluster \/ ClusterGoes
  <2>1. UNCHANGED <<template, seen, aged, uninstall>> /\ cluster' # "live"
    BY <1>3 DEF UninstallCluster, ClusterGoes
  <2>2. KnowsTemplate'
    BY <2>1 DEF HeldInv, KnowsTemplate, SeenHeld, AtIsRead, AgedIsDeleted, ClusterIsOlder
  <2>3. HelmsRules'
    BY <2>1 DEF HeldInv, HelmsRules, OneStays, AllHeld, GhostsAreOld, SomebodyWaits, SomeCPHeld
  <2> QED
    BY <1>0, <2>1, <2>2, <2>3, HeldStep DEF HeldInv
<1>4. CASE Uninstall
  <2>1. /\ UNCHANGED <<cluster, template, seen, aged>> /\ ~uninstall /\ uninstall' = TRUE
        /\ \A t \in Template : template[t].life = "live" => template[t].held
    BY <1>4 DEF Uninstall, apiVars
  <2>2. KnowsTemplate'
    BY <2>1 DEF HeldInv, KnowsTemplate, SeenHeld, AtIsRead, AgedIsDeleted, ClusterIsOlder
  <2>3. SomeCPHeld => \E w \in ControlPlane :
            template[w].held /\ w \notin aged /\ seen.template[w].life \in {"absent", "live"}
    <3> SUFFICES ASSUME SomeCPHeld
                 PROVE  \E w \in ControlPlane : template[w].held /\ w \notin aged
                            /\ seen.template[w].life \in {"absent", "live"}
      OBVIOUS
    <3>1. PICK w \in ControlPlane : template[w].life = "live" /\ template[w].held
      BY <2>1 DEF HeldInv, HelmsRules, OneStays
    <3>2. seen.template[w].life \in {"absent", "live"}
      BY <1>0, <3>1 DEF RoleInv, CacheIsOlder, TypeOK, ObjectsTypeOK, TemplateRec, Life
    <3>3. w \notin aged
      BY <3>1 DEF HeldInv, KnowsTemplate, AgedIsDeleted
    <3> QED BY <3>1, <3>2, <3>3
  <2>4. HelmsRules'
    BY <2>1, <2>3 DEF HelmsRules, OneStays, AllHeld, GhostsAreOld, SomebodyWaits, SomeCPHeld
  <2> QED
    BY <1>0, <2>1, <2>2, <2>4, HeldStep DEF HeldInv
<1>5. ASSUME NEW t \in Template, Age(t) PROVE HeldInv'
  <2>1. /\ UNCHANGED <<cluster, template, seen, uninstall>> /\ template[t].life = "deleting"
        /\ aged' = aged \union {t} /\ (uninstall => seen.cluster # "live")
    BY <1>5 DEF Age, apiVars
  <2>2. KnowsTemplate'
    BY <2>1 DEF HeldInv, KnowsTemplate, SeenHeld, AtIsRead, AgedIsDeleted, ClusterIsOlder
  <2>3. HelmsRules'
    BY <2>1 DEF HeldInv, HelmsRules, OneStays, AllHeld, GhostsAreOld, SomebodyWaits, SomeCPHeld
  <2> QED
    BY <1>0, <2>1, <2>2, <2>3, HeldStep DEF HeldInv
<1>6. ASSUME NEW t \in Template, Create(t) \/ Upgrade(t) \/ UninstallTemplate(t) PROVE HeldInv'
  <2>1. /\ UNCHANGED <<cluster, seen, aged, uninstall>>
        /\ \A u \in Template \ {t} : template'[u] = template[u]
        /\ template'[t].held = template[t].held
        /\ \/ template[t].life = "absent" /\ template'[t].life = "live" /\ ~uninstall
           \/ template[t].life = "live" /\ template'[t].life \in {"deleting", "gone"}
    BY <1>0, <1>6 DEF Create, Upgrade, UninstallTemplate, Marked, TemplateRec
  <2>2. \A u \in Template : template'[u].held = template[u].held
    BY <2>1
  <2>3. t \notin aged
    BY <2>1 DEF HeldInv, KnowsTemplate, AgedIsDeleted
  <2>4. KnowsTemplate'
    BY <1>0, <2>1, <2>2, <2>3 DEF HeldInv, KnowsTemplate, SeenHeld, AtIsRead, AgedIsDeleted, ClusterIsOlder
  <2>5. KeptForAnother' /\ NotMade' /\ EveryRoleIsHeld' /\ SomeCPHeld' = SomeCPHeld
    BY <1>0, <2>2, HeldStep
  <2>6. OneStays'
    <3>1. ASSUME ~uninstall, SomeCPHeld, template[t].life = "live"
          PROVE  \E w \in ControlPlane \ {t} : template[w].life = "live" /\ template[w].held
      <4>1. Upgrade(t)
        BY <1>6, <3>1 DEF Create, UninstallTemplate
      <4>2. CASE t \in ControlPlane
        BY <1>0, <4>1, <4>2 DEF Upgrade, Replaced, OneProfileEach
      <4>3. CASE t \notin ControlPlane
        BY <3>1, <4>3 DEF HeldInv, HelmsRules, OneStays
      <4> QED BY <4>2, <4>3
    <3> QED
      BY <1>0, <2>1, <2>5, <3>1 DEF HeldInv, HelmsRules, OneStays
  <2>7. AllHeld' /\ GhostsAreOld' /\ SomebodyWaits'
    BY <1>0, <2>1, <2>2, <2>5 DEF HeldInv, HelmsRules, AllHeld, GhostsAreOld, SomebodyWaits
  <2> QED
    BY <2>4, <2>5, <2>6, <2>7 DEF HeldInv, HelmsRules
<1> QED
  BY <1>1, <1>2, <1>3, <1>4, <1>5, <1>6 DEF Others, Due

LEMMA HeldInvHolds ==
    ASSUME OneProfileEach
    PROVE  Spec => []HeldInv
<1>1. Init => HeldInv
  <2> SUFFICES ASSUME Init PROVE HeldInv
    OBVIOUS
  <2>1. /\ pc = "idle" /\ seen.template = template /\ seen.cluster = cluster /\ aged = {} /\ ~uninstall
        /\ \A t \in Template : ~template[t].held
        /\ ControlPlane \subseteq Template /\ mainRole = {} /\ ~irsaRoles
    BY TemplateAssumption DEF Init, ObjectsInit
  <2>2. ~SomeCPHeld
    BY <2>1 DEF SomeCPHeld
  <2>3. KnowsTemplate
    BY <2>1 DEF KnowsTemplate, SeenHeld, AtIsRead, AgedIsDeleted, ClusterIsOlder
  <2>4. HelmsRules
    BY <2>1, <2>2 DEF HelmsRules, OneStays, AllHeld, GhostsAreOld, SomebodyWaits
  <2>5. KeptForAnother /\ NotMade /\ EveryRoleIsHeld
    BY <2>1 DEF KeptForAnother, Deletion, AfterLook, NotMade, EveryRoleIsHeld
  <2> QED
    BY <2>3, <2>4, <2>5 DEF HeldInv
<1>2. TypeOK /\ RoleInv /\ HeldInv /\ [Next]_vars => HeldInv'
  <2> SUFFICES ASSUME TypeOK, RoleInv, HeldInv, [Next]_vars PROVE HeldInv'
    OBVIOUS
  <2>1. ASSUME NEW t \in Template, Begin(t) PROVE HeldInv'
    <3>1. /\ UNCHANGED <<cluster, template, seen, aged, uninstall, mainRole, irsaRoles>>
          /\ pc' = "GetCluster" /\ at' = t /\ read'.template = seen.template[t]
          /\ seen.template[t].life \in {"live", "deleting"}
          /\ seen.template[t].life = "deleting" => t \in aged
      BY <2>1 DEF Begin, There, objectVars, apiVars, iamState, TypeOK
    <3>2. SeenHeld' /\ AgedIsDeleted' /\ ClusterIsOlder' /\ HelmsRules'
      BY <3>1, ObjectsStay DEF HeldInv
    <3>3. AtIsRead'
      BY <3>1 DEF HeldInv, KnowsTemplate, SeenHeld, AtIsRead, Normal, Deletion, AfterLook
    <3>4. KeptForAnother' /\ NotMade' /\ EveryRoleIsHeld'
      BY <3>1 DEF HeldInv, KeptForAnother, Deletion, AfterLook, NotMade, EveryRoleIsHeld
    <3> QED BY <3>2, <3>3, <3>4 DEF HeldInv, KnowsTemplate
  <2>2. CASE GetCluster
    <3>1. UNCHANGED <<cluster, template, seen, aged, uninstall, mainRole, irsaRoles>>
      BY <2>2 DEF GetCluster, objectVars, apiVars, iamState
    <3>2. CASE There(seen.cluster)
      <4>1. KeptForAnother' /\ AtIsRead'
        BY <2>2, <3>2, ClusterStep
      <4>2. /\ pc # "idle" /\ at' = at /\ read'.template = read.template
            /\ pc' # "ReconcileRolesForIRSA"
        BY <2>2, <3>2 DEF GetCluster, GotoWith, TypeOK
      <4> QED BY <3>1, <4>1, <4>2, GoOnStep
    <3>3. CASE ~There(seen.cluster)
      BY <2>2, <3>1, <3>3, ReturnStep DEF GetCluster, Return, Goto
    <3> QED BY <3>2, <3>3
  <2>3. CASE GetAWSCluster \/ GetAWSClusterAgain
    <3>1. UNCHANGED <<cluster, template, seen, aged, uninstall, mainRole, irsaRoles>>
      BY <2>3 DEF GetAWSCluster, GetAWSClusterAgain, objectVars, apiVars, iamState
    <3>2. CASE Found
      <4>1. /\ UNCHANGED <<at, read.template, read.clusterDeleting>>
            /\ \/ /\ pc = "GetAWSCluster"
                  /\ pc' = (IF read.template.life = "deleting" THEN "IsRoleUsedElsewhere"
                            ELSE "HoldTemplate")
               \/ pc = "GetAWSClusterAgain" /\ pc' = "ReleaseAWSCluster"
        BY <2>3, <3>2 DEF GetAWSCluster, GetAWSClusterAgain, GotoWith, TypeOK
      <4>2. AtIsRead'
        BY <3>1, <4>1 DEF HeldInv, KnowsTemplate, AtIsRead, Normal, Deletion, AfterLook
      <4>3. KeptForAnother'
        <5>1. Another(at)' = Another(at) /\ CPRole' = CPRole
          BY <3>1, <4>1 DEF Another, CPRole
        <5> QED BY <3>1, <4>1, <5>1 DEF HeldInv, KeptForAnother, Deletion, AfterLook
      <4> QED BY <3>1, <4>1, <4>2, <4>3, GoOnStep
    <3>3. CASE ~Found
      BY <2>3, <3>1, <3>3, ReturnStep DEF GetAWSCluster, GetAWSClusterAgain, Return, Goto
    <3> QED BY <3>2, <3>3
  <2>4. CASE AddTemplateFinalizer
    BY <2>4, HoldStep
  <2>5. CASE AddAWSClusterFinalizer
    <3>1. /\ UNCHANGED <<cluster, template, seen, aged, uninstall, mainRole, irsaRoles>>
          /\ pc = "HoldAWSCluster"
      BY <2>5 DEF AddAWSClusterFinalizer, PatchAWSCluster, objectVars, apiVars, iamState
    <3>2. CASE pc' = "idle"
      BY <3>1, <3>2, ReturnStep
    <3>3. CASE pc' = "ReconcileRole" /\ UNCHANGED <<at, read>>
      <4>1. AtIsRead' /\ KeptForAnother'
        BY <3>1, <3>3 DEF HeldInv, KnowsTemplate, AtIsRead, KeptForAnother, Normal, Deletion, AfterLook
      <4> QED BY <3>1, <3>3, <4>1, GoOnStep
    <3> QED BY <2>5, <3>2, <3>3 DEF AddAWSClusterFinalizer, Return, Goto
  <2>6. CASE ReconcileRole \/ ReconcileRolesForIRSA
    BY <2>6, ReconcileStep
  <2>7. CASE IsRoleUsedElsewhere
    <3>1. /\ UNCHANGED <<cluster, template, seen, aged, uninstall, mainRole, irsaRoles, at, read>>
          /\ pc = "IsRoleUsedElsewhere" /\ pc' \in {"GetAWSClusterAgain", "DeleteRole"}
      BY <2>7 DEF IsRoleUsedElsewhere, Step, Goto, objectVars, apiVars, iamState
    <3>2. AtIsRead'
      BY <3>1 DEF HeldInv, KnowsTemplate, AtIsRead, Normal, Deletion, AfterLook
    <3> QED BY <2>7, <3>1, <3>2, LookStep, GoOnStep
  <2>8. CASE DeleteRole \/ DeleteRolesForIRSA
    BY <2>8, DeleteRoleStep, DeleteRolesForIRSAStep
  <2>9. CASE RemoveAWSClusterFinalizer
    <3>1. /\ UNCHANGED <<cluster, template, seen, aged, uninstall, mainRole, irsaRoles>>
          /\ pc = "ReleaseAWSCluster"
      BY <2>9 DEF RemoveAWSClusterFinalizer, PatchAWSCluster, objectVars, apiVars, iamState
    <3>2. CASE pc' = "idle"
      BY <3>1, <3>2, ReturnStep
    <3>3. CASE /\ pc' \in {"ReleaseAWSCluster", "ReleaseTemplate"}
               /\ UNCHANGED <<at, read.template, read.clusterDeleting>>
      <4>1. AtIsRead'
        BY <3>1, <3>3 DEF HeldInv, KnowsTemplate, AtIsRead, Normal, Deletion, AfterLook
      <4>2. Another(at)' = Another(at) /\ CPRole' = CPRole
        BY <3>1, <3>3 DEF Another, CPRole
      <4>3. KeptForAnother'
        BY <3>1, <3>3, <4>2 DEF HeldInv, KeptForAnother, Deletion, AfterLook
      <4> QED BY <3>1, <3>3, <4>1, <4>3, GoOnStep
    <3> QED BY <2>9, <3>2, <3>3 DEF RemoveAWSClusterFinalizer, Refetch, GotoWith, Return, Goto, TypeOK
  <2>10. CASE RemoveTemplateFinalizer
    <3>1. pc = "ReleaseTemplate" /\ UNCHANGED <<mainRole, irsaRoles>>
      BY <2>10 DEF RemoveTemplateFinalizer, iamState
    <3>2. CASE ReleaseTemplate(at) /\ Goto("ReleaseConfigMap")
      BY <3>1, <3>2, ReleaseStep DEF Goto
    <3>3. CASE UNCHANGED objectVars
      <4>1. pc' = "idle" \/ (pc' = "ReleaseConfigMap" /\ UNCHANGED <<at, read>>)
        BY <2>10, <3>3 DEF RemoveTemplateFinalizer, Return, Goto
      <4>2. pc' = "ReleaseConfigMap" => AtIsRead'
        BY <3>1, <3>3, <4>1 DEF HeldInv, KnowsTemplate, AtIsRead, Normal, Deletion, AfterLook, objectVars, apiVars
      <4> QED BY <3>1, <3>3, <4>1, <4>2, ReturnStep DEF objectVars, apiVars
    <3> QED BY <2>10, <3>2, <3>3 DEF RemoveTemplateFinalizer
  <2>11. CASE RemoveConfigMapFinalizer
    BY <2>11, ReturnStep DEF RemoveConfigMapFinalizer, Step, Goto, objectVars, apiVars, iamState
  <2>12. CASE Fault
    <3>1. /\ UNCHANGED <<cluster, template, aged, uninstall, mainRole, irsaRoles>> /\ pc' = "idle"
          /\ seen'.template = template \/ seen'.template = seen.template
          /\ seen'.cluster = cluster \/ seen'.cluster = seen.cluster
      BY <2>12 DEF Fault, Return, Goto, apiVars, iamState
    <3>2. KnowsTemplate' /\ HelmsRules'
      BY <3>1, CacheHeldStep DEF KnowsTemplate
    <3>3. KeptForAnother' /\ NotMade' /\ EveryRoleIsHeld'
      BY <3>1 DEF HeldInv, KeptForAnother, Deletion, AfterLook, NotMade, EveryRoleIsHeld
    <3> QED BY <3>2, <3>3 DEF HeldInv
  <2>13. CASE Elsewhere
    BY <2>13, OthersHeldStep DEF Elsewhere, Besides, controllerVars, iamState
  <2>14. CASE UNCHANGED vars
    <3>1. UNCHANGED <<cluster, template, seen, aged, uninstall, pc, at, read, mainRole, irsaRoles>>
      BY <2>14 DEF vars, objectVars, apiVars, controllerVars, iamState
    <3> QED
      BY <3>1, ObjectsStay, HeldStep DEF HeldInv, KnowsTemplate, AtIsRead, TypeOK
  <2> QED
    BY <2>1, <2>2, <2>3, <2>4, <2>5, <2>6, <2>7, <2>8, <2>9, <2>10, <2>11, <2>12, <2>13, <2>14
       DEF Next, Working
<1> QED
  BY <1>1, <1>2, TypeCorrect, RoleInvHolds, PTL DEF Spec

\* No role outlives the last template that could still delete it.
THEOREM RolesAreHeld ==
    ASSUME OneProfileEach
    PROVE  Spec => []EveryRoleIsHeld
<1>1. HeldInv => EveryRoleIsHeld
  BY DEF HeldInv
<1> QED
  BY <1>1, HeldInvHolds, PTL
=============================================================================
