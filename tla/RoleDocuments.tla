---------------------------- MODULE RoleDocuments ----------------------------
(***************************************************************************)
(* The pure functions behind the documents of IAMService's jobs: which     *)
(* templates a role type has (pkg/iam/template.go), what its role and its  *)
(* service account are called (pkg/iam/iam.go), and which issuer domains   *)
(* the IRSA roles trust (pkg/key).  A template is the name of its          *)
(* constant; of its text only the parameters it asks for count.            *)
(***************************************************************************)
EXTENDS IAMService, FiniteSets

\* The role types of IAMService.New with a role of their own, and those of
\* the cluster-wide roles.
MainRoleTypes == {"bastion", "control-plane", "nodes"}

getIRSARoles == <<"route53-role", "cert-manager-role", "ALBController-Role",
                  "ebs-csi-driver-role", "efs-csi-driver-role",
                  "cluster-autoscaler-role">>

\* Without the cluster's name in front.
roleName(t) == CASE t = "route53-role" -> "Route53Manager-Role"
                 [] t = "cert-manager-role" -> "CertManager-Role"
                 [] OTHER -> t

NoTemplate == ""

\* reduced: the label of a node pool that asks for reduced permissions is "true".
getInlinePolicyTemplate(t, reduced) ==
    CASE t = "bastion" -> "bastionPolicyTemplate"
      [] t = "control-plane" -> "controlPlanePolicyTemplate"
      [] t = "nodes" -> IF reduced THEN "nodesReducedPermissionsTemplate"
                        ELSE "nodesFullPermissionsTemplate"
      [] t \in {"route53-role", "irsa-role"} -> "route53RolePolicyTemplate"
      [] t = "cert-manager-role" -> "route53RolePolicyTemplateForCertManager"
      [] t = "ALBController-Role" -> "ALBControllerPolicyTemplate"
      [] t = "ebs-csi-driver-role" -> "EBSCSIDriverPolicyTemplate"
      [] t = "efs-csi-driver-role" -> "EFSCSIDriverPolicyTemplate"
      [] t = "cluster-autoscaler-role" -> "clusterAutoscalerPolicyTemplate"
      [] OTHER -> NoTemplate

\* Mutant: the trust policy of EC2 for every role without one of its own.
TrustEC2ByDefault(t) ==
    CASE t = "route53-role" -> "externalDnsTrustIdentityPolicyIRSA"
      [] t \in {"cert-manager-role", "ebs-csi-driver-role"} -> "trustIdentityPolicyIRSA"
      [] t = "ALBController-Role" -> "albControllerTrustIdentityPolicyIRSA"
      [] OTHER -> "ec2TrustIdentityPolicyTemplate"

getTrustPolicyTemplate(t) ==
    CASE t \in MainRoleTypes -> "ec2TrustIdentityPolicyTemplate"
      [] t = "route53-role" -> "externalDnsTrustIdentityPolicyIRSA"
      [] t = "ALBController-Role" -> "albControllerTrustIdentityPolicyIRSA"
      [] t \in {"irsa-role", "cert-manager-role", "ebs-csi-driver-role",
                "efs-csi-driver-role", "cluster-autoscaler-role"} -> "trustIdentityPolicyIRSA"
      [] OTHER -> NoTemplate

\* "" stands for the error.
getServiceAccount(t) ==
    CASE t = "cert-manager-role" -> "cert-manager-app"
      [] t \in {"irsa-role", "route53-role"} -> "external-dns"
      [] t = "ALBController-Role" -> "aws-load-balancer-controller"
      [] t = "ebs-csi-driver-role" -> "ebs-csi-controller-sa"
      [] t = "efs-csi-driver-role" -> "efs-csi-sa"
      [] t = "cluster-autoscaler-role" -> "cluster-autoscaler"
      [] OTHER -> ""

\* What generatePolicyDocument is given, and what each template asks for: it
\* fails on a field that its parameters do not have.
MainParams == {"ClusterName", "EC2ServiceDomain", "AWSPartition", "ObjectLabels"}
Route53RoleParams == {"AWSPartition", "EC2ServiceDomain", "AccountID", "IRSATrustDomains",
                      "Namespace", "ServiceAccount", "PrincipalRoleARN"}

AskedOfControlPlane(template) ==
    CASE template = "ec2TrustIdentityPolicyTemplate" -> {"EC2ServiceDomain"}
      [] template = "controlPlanePolicyTemplate" -> {"ClusterName"}
      [] OTHER -> {}

AskedOfNodes(template) ==
    CASE template = "nodesReducedPermissionsTemplate" -> {"ObjectLabels"}
      [] template = "nodesFullPermissionsTemplate" -> {"ClusterName"}
      [] OTHER -> {}

AskedOfEBSCSIDriver(template) ==
    IF template = "EBSCSIDriverPolicyTemplate" THEN {"AWSPartition"} ELSE {}

\* The two with the wildcards trust a service account in every namespace.
AskedOfIRSA(template) ==
    LET anywhere == {"IRSATrustDomains", "AWSPartition", "AccountID", "ServiceAccount"} IN
    CASE template = "trustIdentityPolicyIRSA" -> anywhere \union {"Namespace"}
      [] template \in {"albControllerTrustIdentityPolicyIRSA",
                       "externalDnsTrustIdentityPolicyIRSA"} -> anywhere
      [] OTHER -> {}

\* The other templates are plain texts.
Asked(template) == AskedOfControlPlane(template) \union AskedOfNodes(template)
                     \union AskedOfEBSCSIDriver(template) \union AskedOfIRSA(template)

generatesDocument(template, params) == template # NoTemplate /\ Asked(template) \subseteq params

-----------------------------------------------------------------------------
(* The issuer domains of the IRSA roles.  An annotation is the sequence of *)
(* its comma-separated texts; a text is a domain, or nothing, with spaces  *)
(* around it or without.  The empty sequence is an annotation that is      *)
(* missing or empty.                                                       *)

NoDomain == ""
Text(domains) == [domain : domains \union {NoDomain}, padded : BOOLEAN]

Plain(domain) == [domain |-> domain, padded |-> FALSE]

\* Mutant: the spaces stay.
KeepSpace(text) == text

TrimSpace(text) == Plain(text.domain)

\* The AWSCluster's annotation; only without it the older one of the template,
\* which is one domain: its commas, if any, separate nothing.
annotated(template, cluster) == IF cluster # <<>> THEN cluster ELSE template

\* One round of the loop: an empty value and one that is there already add nothing.
addDomain(domains, value) ==
    IF value = Plain(NoDomain) \/ \E i \in DOMAIN domains : domains[i] = value
    THEN domains ELSE Append(domains, value)

GetIRSATrustDomains(template, cluster, primary) ==
    LET values == annotated(template, cluster)
        domains[n \in 0 .. Len(values)] ==   \* after n rounds
            IF n = 0 THEN <<primary>> ELSE addDomain(domains[n - 1], TrimSpace(values[n]))
    IN domains[Len(values)]

-----------------------------------------------------------------------------
CONSTANTS Domain,    \* issuer domains
          MaxParts   \* how many parts an annotation has

ASSUME DomainAssumption == Domain # {} /\ NoDomain \notin Domain /\ MaxParts \in Nat

\* One part that is empty is the empty annotation.
Annotation == UNION {[1 .. n -> Text(Domain)] : n \in 0 .. MaxParts}
                  \ {<<Plain(NoDomain)>>}
OldAnnotation == {a \in Annotation : Len(a) <= 1}

\* The types of the roles that a job treats, and what their templates are given.
roleTypes(j) == IF ForIRSA(j) THEN {getIRSARoles[i] : i \in DOMAIN getIRSARoles}
                ELSE {j.roleType}

paramsOf(j) == IF ForIRSA(j) THEN Route53RoleParams ELSE MainParams

\* A worker that has found what to do about its roles cannot stop half-way for
\* want of a document: each of them has both, from parameters that the job has,
\* for one kind of principal, which is EC2 for the machines' roles and for the
\* IRSA roles the service account that is known for them.  No two IRSA roles of
\* a cluster share a name, so that none overwrites another.
DocumentsAreComplete ==
    \A w \in Worker : pc[w] \in Reconciling =>
        /\ \A t \in roleTypes(job[w]) :
             /\ \A reduced \in BOOLEAN :
                  generatesDocument(getInlinePolicyTemplate(t, reduced), paramsOf(job[w]))
             /\ generatesDocument(getTrustPolicyTemplate(t), paramsOf(job[w]))
             /\ ForIRSA(job[w]) <=> "IRSATrustDomains" \in Asked(getTrustPolicyTemplate(t))
             /\ ForIRSA(job[w]) => getServiceAccount(t) # ""
        /\ ForIRSA(job[w]) =>
             Cardinality({roleName(t) : t \in roleTypes(job[w])}) = Len(getIRSARoles)

\* No role exists and no job is running.
Untouched == /\ \A r \in Role : ~Exists(r) /\ profile[r] = "none"
             /\ \A w \in Worker : pc[w] = "idle"

\* Where a domain comes first in a list of values.
FirstOf(values, d) == CHOOSE i \in DOMAIN values :
    values[i].domain = d /\ \A k \in 1 .. i - 1 : values[k].domain # d

\* The trusted domains are the primary one, then the annotated ones in their
\* order, without the spaces around them, none of them empty or twice, whether
\* they are padded alike or not; with the AWSCluster's annotation, which
\* "centrally defines" them (CHANGELOG.md, 0.28.0), every template of the
\* cluster asks for the same, so that old and new templates do not undo one
\* another's trust policies.  It is so in every state if it is so before the
\* first job.
TrustDomainsAreCentral == Untouched =>
    \A cluster \in Annotation, template \in OldAnnotation, primary \in Domain :
        LET result == GetIRSATrustDomains(template, cluster, Plain(primary))
            source == IF cluster # <<>> THEN cluster ELSE template
        IN /\ result[1].domain = primary
           /\ \A i \in DOMAIN result : ~result[i].padded
           /\ {result[i].domain : i \in DOMAIN result}
                = {primary} \union ({source[i].domain : i \in DOMAIN source} \ {NoDomain})
           /\ \A i, k \in 2 .. Len(result) : i < k =>
                FirstOf(source, result[i].domain) < FirstOf(source, result[k].domain)
           /\ \A i \in 2 .. Len(result) : result[i].domain # primary
=============================================================================
