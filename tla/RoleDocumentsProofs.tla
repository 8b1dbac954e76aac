------------------------- MODULE RoleDocumentsProofs -------------------------
(***************************************************************************)
(* Proofs about the documents of IAMService's jobs, for any workers, roles *)
(* and jobs: no job asks the tables of templates for one they do not have. *)
(***************************************************************************)
EXTENDS RoleDocuments, IAMServiceProofs, FiniteSetTheorems, WellFoundedInduction

\* A service for IRSA roles alone, which the AWSManagedControlPlane controller
\* builds, is asked for nothing but IRSA roles.
IRSAServicesServeIRSA == \A j \in Jobs : j.roleType = "irsa-role" => ForIRSA(j)

IRSARoleTypes == {"route53-role", "cert-manager-role", "ALBController-Role",
                  "ebs-csi-driver-role", "efs-csi-driver-role", "cluster-autoscaler-role"}

LEMMA IRSARolesAreSix ==
    /\ {getIRSARoles[i] : i \in DOMAIN getIRSARoles} = IRSARoleTypes
    /\ Len(getIRSARoles) = 6
<1>1. Len(getIRSARoles) = 6 /\ DOMAIN getIRSARoles = 1 .. 6
  BY DEF getIRSARoles
<1>2. /\ getIRSARoles[1] = "route53-role" /\ getIRSARoles[2] = "cert-manager-role"
      /\ getIRSARoles[3] = "ALBController-Role" /\ getIRSARoles[4] = "ebs-csi-driver-role"
      /\ getIRSARoles[5] = "efs-csi-driver-role" /\ getIRSARoles[6] = "cluster-autoscaler-role"
  BY DEF getIRSARoles
<1>3. 1 .. 6 = {1, 2, 3, 4, 5, 6}
  OBVIOUS
<1> QED
  BY <1>1, <1>2, <1>3 DEF IRSARoleTypes

\* roleName gives each of the IRSA roles a name of its own.
LEMMA IRSARoleNamesDiffer ==
    Cardinality({roleName(t) : t \in IRSARoleTypes}) = 6
<1> DEFINE S1 == {} \union {"Route53Manager-Role"}
           S2 == S1 \union {"CertManager-Role"}
           S3 == S2 \union {"ALBController-Role"}
           S4 == S3 \union {"ebs-csi-driver-role"}
           S5 == S4 \union {"efs-csi-driver-role"}
           S6 == S5 \union {"cluster-autoscaler-role"}
<1>1. {roleName(t) : t \in IRSARoleTypes} = S6
  <2>1. /\ roleName("route53-role") = "Route53Manager-Role"
        /\ roleName("cert-manager-role") = "CertManager-Role"
        /\ \A t \in IRSARoleTypes \ {"route53-role", "cert-manager-role"} : roleName(t) = t
    BY DEF roleName
  <2> QED BY <2>1 DEF IRSARoleTypes
<1>2. IsFiniteSet(S1) /\ Cardinality(S1) = 1
  BY FS_Singleton
<1>3. IsFiniteSet(S2) /\ Cardinality(S2) = 2
  BY <1>2, FS_AddElement
<1>4. IsFiniteSet(S3) /\ Cardinality(S3) = 3
  BY <1>3, FS_AddElement
<1>5. IsFiniteSet(S4) /\ Cardinality(S4) = 4
  BY <1>4, FS_AddElement
<1>6. IsFiniteSet(S5) /\ Cardinality(S5) = 5
  BY <1>5, FS_AddElement
<1>7. Cardinality(S6) = 6
  BY <1>6, FS_AddElement
<1> QED BY <1>1, <1>7

-----------------------------------------------------------------------------
\* What one role type's documents have to be for a job that treats it.
Complete(t, params, irsa) ==
    /\ \A reduced \in BOOLEAN : generatesDocument(getInlinePolicyTemplate(t, reduced), params)
    /\ generatesDocument(getTrustPolicyTemplate(t), params)
    /\ irsa <=> "IRSATrustDomains" \in Asked(getTrustPolicyTemplate(t))
    /\ irsa => getServiceAccount(t) # ""

LEMMA MainDocuments ==
    ASSUME NEW t \in MainRoleTypes
    PROVE  Complete(t, MainParams, FALSE)
BY DEF MainRoleTypes, Complete, generatesDocument, Asked, AskedOfControlPlane, AskedOfNodes,
       AskedOfEBSCSIDriver, AskedOfIRSA, getInlinePolicyTemplate,
       getTrustPolicyTemplate, NoTemplate, MainParams

LEMMA IRSADocuments ==
    ASSUME NEW t \in IRSARoleTypes
    PROVE  Complete(t, Route53RoleParams, TRUE)
<1> USE DEF Complete, generatesDocument, Asked, AskedOfControlPlane, AskedOfNodes,
            AskedOfEBSCSIDriver, AskedOfIRSA, getInlinePolicyTemplate, getTrustPolicyTemplate,
            getServiceAccount, NoTemplate, Route53RoleParams, MainRoleTypes
<1>1. CASE t = "route53-role"
  BY <1>1
<1>2. CASE t = "ALBController-Role"
  BY <1>2
<1>3. CASE t \in {"cert-manager-role", "ebs-csi-driver-role"}
  BY <1>3
<1>4. CASE t \in {"efs-csi-driver-role", "cluster-autoscaler-role"}
  BY <1>4
<1> QED
  BY <1>1, <1>2, <1>3, <1>4 DEF IRSARoleTypes

\* Whatever the jobs are, a worker that treats its roles has complete documents
\* for each of them, and no IRSA role of the cluster overwrites another.
THEOREM NoRoleWithoutDocuments ==
    ASSUME IRSAServicesServeIRSA
    PROVE  Spec => []DocumentsAreComplete
<1>1. TypeOK => DocumentsAreComplete
  <2> SUFFICES ASSUME TypeOK, NEW w \in Worker
               PROVE  /\ \A t \in roleTypes(job[w]) :
                            Complete(t, paramsOf(job[w]), ForIRSA(job[w]))
                      /\ ForIRSA(job[w]) =>
                            Cardinality({roleName(t) : t \in roleTypes(job[w])})
                              = Len(getIRSARoles)
    BY DEF DocumentsAreComplete, Complete
  <2>1. job[w] \in Jobs /\ job[w].roleType \in ServiceRoleType
    BY ServiceAssumption DEF TypeOK, WorkersTypeOK, Job
  <2>2. CASE ForIRSA(job[w])
    <3>1. roleTypes(job[w]) = IRSARoleTypes /\ paramsOf(job[w]) = Route53RoleParams
      BY <2>2, IRSARolesAreSix DEF roleTypes, paramsOf
    <3> QED
      BY <2>2, <3>1, IRSADocuments, IRSARolesAreSix, IRSARoleNamesDiffer DEF Complete
  <2>3. CASE ~ForIRSA(job[w])
    <3>1. /\ roleTypes(job[w]) = {job[w].roleType} /\ paramsOf(job[w]) = MainParams
          /\ job[w].roleType \in MainRoleTypes
      BY <2>1, <2>3 DEF roleTypes, paramsOf, IRSAServicesServeIRSA, ServiceRoleType, MainRoleTypes
    <3> QED
      BY <2>3, <3>1, MainDocuments DEF Complete
  <2> QED BY <2>2, <2>3
<1> QED
  BY <1>1, TypeCorrect, PTL

-----------------------------------------------------------------------------
(* Induction, in the one form the provers can use: about a set.            *)

LEMMA LeastNatural ==
    ASSUME NEW T, T \subseteq Nat, T # {}
    PROVE  \E x \in T : \A y \in T : x <= y
<1>1. PICK x \in T : \A y \in T : ~(<<y, x>> \in OpToRel(<, Nat))
  BY NatLessThanWellFounded, WFMin
<1>2. ASSUME NEW y \in T PROVE x <= y
  <2>1. x \in Nat /\ y \in Nat
    OBVIOUS
  <2>2. <<y, x>> \notin OpToRel(<, Nat)
    BY <1>1
  <2>3. ~(y < x)
    BY <2>1, <2>2 DEF OpToRel
  <2> QED BY <2>1, <2>3
<1> QED BY <1>2

LEMMA SetInduction ==
    ASSUME NEW S, 0 \in S, \A n \in Nat : n \in S => n + 1 \in S
    PROVE  Nat \subseteq S
<1> SUFFICES ASSUME Nat \ S # {} PROVE FALSE
  OBVIOUS
<1>1. PICK x \in Nat \ S : \A y \in Nat \ S : x <= y
  BY LeastNatural, Nat \ S \subseteq Nat
<1>2. x - 1 \in Nat /\ (x - 1) + 1 = x
  BY <1>1
<1>3. x - 1 \in S
  BY <1>1, <1>2
<1> QED BY <1>1, <1>2, <1>3

-----------------------------------------------------------------------------
(* The loop of GetIRSATrustDomains.                                        *)

\* What domains[n] is after each of the first m rounds.
Rounds(f, values, primary, m) ==
    f = [n \in 0 .. m |-> IF n = 0 THEN <<primary>>
                          ELSE addDomain(f[n - 1], TrimSpace(values[n]))]

LEMMA RoundsExist ==
    ASSUME NEW values, NEW primary
    PROVE  \A m \in Nat : \E f : Rounds(f, values, primary, m)
<1> DEFINE S == {m \in Nat : \E f : Rounds(f, values, primary, m)}
<1>1. 0 \in S
  <2>1. Rounds([n \in 0 .. 0 |-> <<primary>>], values, primary, 0)
    BY DEF Rounds
  <2> QED BY <2>1
<1>2. ASSUME NEW m \in Nat, m \in S PROVE m + 1 \in S
  <2>1. PICK f : Rounds(f, values, primary, m)
    BY <1>2
  <2> DEFINE next == addDomain(f[m], TrimSpace(values[m + 1]))
             g == [n \in 0 .. m + 1 |-> IF n = m + 1 THEN next ELSE f[n]]
  <2>2. \A n \in 0 .. m : f[n] = IF n = 0 THEN <<primary>>
                                 ELSE addDomain(f[n - 1], TrimSpace(values[n]))
    BY <2>1 DEF Rounds
  <2>3. g[m + 1] = next /\ \A n \in 0 .. m : g[n] = f[n]
    BY <1>2
  <2> HIDE DEF g
  <2>4. ASSUME NEW n \in 0 .. m + 1
        PROVE  g[n] = IF n = 0 THEN <<primary>> ELSE addDomain(g[n - 1], TrimSpace(values[n]))
    <3>1. CASE n = m + 1
      BY <2>3, <3>1, <1>2
    <3>2. CASE n \in 0 .. m
      <4>1. n # 0 => n - 1 \in 0 .. m
        BY <3>2
      <4> QED BY <2>2, <2>3, <3>2, <4>1
    <3> QED BY <3>1, <3>2
  <2>5. g = [n \in 0 .. m + 1 |-> g[n]]
    BY DEF g
  <2>6. Rounds(g, values, primary, m + 1)
    BY <2>4, <2>5 DEF Rounds
  <2> QED BY <2>6
<1> HIDE DEF S
<1>3. Nat \subseteq S
  BY <1>1, <1>2, SetInduction
<1> QED BY <1>3 DEF S

LEMMA LoopUnfolds ==
    ASSUME NEW template, NEW cluster, NEW primary,
           NEW values, values = annotated(template, cluster), Len(values) \in Nat
    PROVE  \E f : /\ Rounds(f, values, primary, Len(values))
                  /\ GetIRSATrustDomains(template, cluster, primary) = f[Len(values)]
<1> DEFINE f == CHOOSE f : Rounds(f, values, primary, Len(values))
<1>1. Rounds(f, values, primary, Len(values))
  BY RoundsExist
<1>2. GetIRSATrustDomains(template, cluster, primary) = f[Len(values)]
  BY DEF GetIRSATrustDomains, Rounds
<1> QED BY <1>1, <1>2

\* The domains as the loop leaves them.
Trimmed == {Plain(d) : d \in Domain}

\* The loop's invariant: the result has the primary domain in front, then the
\* domains of the first n values, each once and in the order of their first
\* occurrences.
Before(values, n, d, e) == \E p \in 1 .. n : /\ TrimSpace(values[p]) = d
                                             /\ \A q \in 1 .. p : TrimSpace(values[q]) # e

LoopInv(ds, values, primary, n) ==
    /\ ds \in Seq(Trimmed) /\ ds # <<>> /\ ds[1] = primary
    /\ \A i \in 2 .. Len(ds) : /\ ds[i] # primary
                               /\ \E p \in 1 .. n : TrimSpace(values[p]) = ds[i]
    /\ \A p \in 1 .. n : \/ TrimSpace(values[p]) = Plain(NoDomain)
                         \/ \E i \in DOMAIN ds : ds[i] = TrimSpace(values[p])
    /\ \A i, k \in 2 .. Len(ds) : i < k => Before(values, n, ds[i], ds[k])

LEMMA RoundKeepsLoopInv ==
    ASSUME NEW n \in Nat, NEW values, TrimSpace(values[n + 1]) \in Trimmed \union {Plain(NoDomain)},
           NEW primary, NEW ds, LoopInv(ds, values, primary, n)
    PROVE  LoopInv(addDomain(ds, TrimSpace(values[n + 1])), values, primary, n + 1)
<1> DEFINE d == TrimSpace(values[n + 1])
<1>1. /\ ds \in Seq(Trimmed) /\ ds # <<>> /\ ds[1] = primary
      /\ \A i \in 2 .. Len(ds) : /\ ds[i] # primary
                                 /\ \E p \in 1 .. n : TrimSpace(values[p]) = ds[i]
      /\ \A p \in 1 .. n : \/ TrimSpace(values[p]) = Plain(NoDomain)
                           \/ \E i \in DOMAIN ds : ds[i] = TrimSpace(values[p])
      /\ \A i, k \in 2 .. Len(ds) : i < k => Before(values, n, ds[i], ds[k])
  BY DEF LoopInv
<1>2. Len(ds) \in Nat \ {0} /\ DOMAIN ds = 1 .. Len(ds)
  BY <1>1, EmptySeq, LenProperties
<1>3. 1 .. n \subseteq 1 .. n + 1 /\ \A p \in 1 .. n + 1 : p \in 1 .. n \/ p = n + 1
  OBVIOUS
<1>4. \A x, y : Before(values, n, x, y) => Before(values, n + 1, x, y)
  BY <1>3 DEF Before
<1>5. CASE d = Plain(NoDomain) \/ \E i \in DOMAIN ds : ds[i] = d
  <2>1. addDomain(ds, d) = ds
    BY <1>5 DEF addDomain
  <2>2. \A p \in 1 .. n + 1 : \/ TrimSpace(values[p]) = Plain(NoDomain)
                              \/ \E i \in DOMAIN ds : ds[i] = TrimSpace(values[p])
    BY <1>1, <1>3, <1>5
  <2> QED BY <1>1, <1>3, <1>4, <2>1, <2>2 DEF LoopInv
<1>6. CASE d # Plain(NoDomain) /\ \A i \in DOMAIN ds : ds[i] # d
  <2> DEFINE es == Append(ds, d)
             l == Len(ds) + 1
  <2>1. addDomain(ds, d) = es /\ d \in Trimmed
    BY <1>6 DEF addDomain
  <2>2. /\ es \in Seq(Trimmed) /\ es # <<>> /\ Len(es) = l /\ es[l] = d
        /\ DOMAIN es = 1 .. l /\ \A i \in 1 .. Len(ds) : es[i] = ds[i]
    BY <1>1, <2>1, AppendProperties, LenProperties
  <2> HIDE DEF es
  <2>3. es[1] = primary
    BY <1>1, <1>2, <2>2
  <2>4. ASSUME NEW i \in 2 .. Len(es)
        PROVE  es[i] # primary /\ \E p \in 1 .. n + 1 : TrimSpace(values[p]) = es[i]
    <3>1. CASE i = l
      BY <1>1, <1>2, <1>6, <2>2, <3>1
    <3>2. CASE i \in 2 .. Len(ds)
      BY <1>1, <1>3, <2>2, <3>2
    <3> QED BY <1>2, <2>2, <3>1, <3>2
  <2>5. ASSUME NEW p \in 1 .. n + 1
        PROVE  \/ TrimSpace(values[p]) = Plain(NoDomain)
               \/ \E i \in DOMAIN es : es[i] = TrimSpace(values[p])
    <3>1. 1 .. Len(ds) \subseteq DOMAIN es /\ l \in DOMAIN es
      BY <1>2, <2>2
    <3> QED BY <1>1, <1>2, <1>3, <2>2, <3>1
  <2>6. ASSUME NEW i \in 2 .. Len(es), NEW k \in 2 .. Len(es), i < k
        PROVE  Before(values, n + 1, es[i], es[k])
    <3>1. i \in 2 .. Len(ds) /\ es[i] = ds[i]
      BY <1>2, <2>2, <2>6
    <3>2. CASE k \in 2 .. Len(ds)
      BY <1>1, <1>4, <2>2, <2>6, <3>1, <3>2
    <3>3. CASE k = l
      <4>1. PICK p \in 1 .. n : TrimSpace(values[p]) = ds[i]
        BY <1>1, <3>1
      <4>2. ASSUME NEW q \in 1 .. p PROVE TrimSpace(values[q]) # d
        BY <1>1, <1>6, <4>1, q \in 1 .. n
      <4> QED BY <1>3, <2>2, <3>1, <3>3, <4>1, <4>2 DEF Before
    <3> QED BY <1>2, <2>2, <3>2, <3>3
  <2> QED BY <2>1, <2>2, <2>3, <2>4, <2>5, <2>6 DEF LoopInv
<1> QED BY <1>5, <1>6

LEMMA LoopInvHolds ==
    ASSUME NEW values, NEW m \in Nat,
           \A n \in 1 .. m : TrimSpace(values[n]) \in Trimmed \union {Plain(NoDomain)},
           NEW primary \in Trimmed, NEW f, Rounds(f, values, primary, m)
    PROVE  LoopInv(f[m], values, primary, m)
<1> DEFINE S == {n \in Nat : n <= m => LoopInv(f[n], values, primary, n)}
<1>1. \A n \in 0 .. m : f[n] = IF n = 0 THEN <<primary>>
                               ELSE addDomain(f[n - 1], TrimSpace(values[n]))
  BY DEF Rounds
<1>2. 0 \in S
  <2>1. f[0] = <<primary>>
    BY <1>1
  <2>2. LoopInv(<<primary>>, values, primary, 0)
    BY DEF LoopInv
  <2> QED BY <2>1, <2>2
<1>3. ASSUME NEW n \in Nat, n \in S PROVE n + 1 \in S
  <2> SUFFICES ASSUME n + 1 <= m PROVE LoopInv(f[n + 1], values, primary, n + 1)
    OBVIOUS
  <2>1. f[n + 1] = addDomain(f[n], TrimSpace(values[n + 1]))
    BY <1>1
  <2>2. LoopInv(f[n], values, primary, n)
    BY <1>3
  <2> QED BY <2>1, <2>2, RoundKeepsLoopInv
<1> HIDE DEF S
<1>4. m \in S
  BY <1>2, <1>3, SetInduction
<1> QED BY <1>4 DEF S

\* Where a domain occurs there is a first place where it does.
LEMMA FirstOccurrence ==
    ASSUME NEW values, NEW n \in Nat, DOMAIN values = 1 .. n,
           NEW d, \E p \in 1 .. n : values[p].domain = d
    PROVE  /\ FirstOf(values, d) \in 1 .. n
           /\ values[FirstOf(values, d)].domain = d
           /\ \A k \in 1 .. FirstOf(values, d) - 1 : values[k].domain # d
<1> DEFINE T == {p \in 1 .. n : values[p].domain = d}
<1>1. PICK i \in T : \A y \in T : i <= y
  BY LeastNatural, T \subseteq Nat, T # {}
<1>2. ASSUME NEW k \in 1 .. i - 1 PROVE values[k].domain # d
  BY <1>1, k \in 1 .. n
<1> QED BY <1>1, <1>2 DEF FirstOf

LEMMA AnnotationType ==
    ASSUME NEW a \in Annotation
    PROVE  /\ Len(a) \in Nat /\ DOMAIN a = 1 .. Len(a)
           /\ \A i \in 1 .. Len(a) : a[i].domain \in Domain \union {NoDomain}
<1>1. PICK n \in 0 .. MaxParts : a \in [1 .. n -> Text(Domain)]
  BY DEF Annotation
<1>2. n \in Nat
  BY DomainAssumption
<1>3. a \in Seq(Text(Domain)) /\ Len(a) = n
  BY <1>1, <1>2, LenProperties
<1> QED BY <1>1, <1>2, <1>3 DEF Text

\* TrimSpace keeps the domain, and a text without spaces is its domain.
LEMMA PlainTexts ==
    /\ \A d : Plain(d).domain = d /\ ~Plain(d).padded
    /\ \A d, e : Plain(d) = Plain(e) <=> d = e
    /\ \A t \in Trimmed : t = Plain(t.domain) /\ t.domain \in Domain
<1>1. \A d : Plain(d).domain = d /\ ~Plain(d).padded
  BY DEF Plain
<1>2. \A d, e : Plain(d) = Plain(e) <=> d = e
  BY <1>1
<1> QED BY <1>1, <1>2 DEF Trimmed

\* What the loop returns, in terms of the domains alone.
DomainsInv(result, source, primary, m) ==
    /\ Len(result) \in Nat \ {0} /\ DOMAIN result = 1 .. Len(result)
    /\ result[1].domain = primary
    /\ \A i \in DOMAIN result : result[i].domain \in Domain /\ ~result[i].padded
    /\ \A i \in 2 .. Len(result) :
         /\ result[i].domain # primary
         /\ \E p \in 1 .. m : source[p].domain = result[i].domain
    /\ \A p \in 1 .. m : \/ source[p].domain = NoDomain
                         \/ \E i \in DOMAIN result : result[i].domain = source[p].domain
    /\ \A i, k \in 2 .. Len(result) : i < k =>
         \E p \in 1 .. m : /\ source[p].domain = result[i].domain
                           /\ \A q \in 1 .. p : source[q].domain # result[k].domain

LEMMA LoopResult ==
    ASSUME NEW source, NEW m \in Nat, NEW primary \in Domain, NEW result,
           LoopInv(result, source, Plain(primary), m)
    PROVE  DomainsInv(result, source, primary, m)
<1>1. /\ result \in Seq(Trimmed) /\ result # <<>> /\ result[1] = Plain(primary)
      /\ \A i \in 2 .. Len(result) : /\ result[i] # Plain(primary)
                                     /\ \E p \in 1 .. m : TrimSpace(source[p]) = result[i]
      /\ \A p \in 1 .. m : \/ TrimSpace(source[p]) = Plain(NoDomain)
                           \/ \E i \in DOMAIN result : result[i] = TrimSpace(source[p])
      /\ \A i, k \in 2 .. Len(result) : i < k => Before(source, m, result[i], result[k])
  BY DEF LoopInv
<1>2. Len(result) \in Nat \ {0} /\ DOMAIN result = 1 .. Len(result)
  BY <1>1, EmptySeq, LenProperties
<1>3. \A i \in DOMAIN result : /\ result[i] = Plain(result[i].domain)
                               /\ result[i].domain \in Domain /\ ~result[i].padded
  BY <1>1, <1>2, PlainTexts, ElementOfSeq
<1>4. \A i \in 2 .. Len(result) : i \in DOMAIN result
  BY <1>2
<1>5. \A i \in DOMAIN result : \A p : TrimSpace(source[p]) = result[i]
                                        <=> source[p].domain = result[i].domain
  BY <1>3, PlainTexts DEF TrimSpace
<1>6. \A p : TrimSpace(source[p]) = Plain(NoDomain) <=> source[p].domain = NoDomain
  BY PlainTexts DEF TrimSpace
<1>7. result[1].domain = primary
  BY <1>1, PlainTexts
<1>8. ASSUME NEW i \in 2 .. Len(result)
      PROVE  /\ result[i].domain # primary
             /\ \E p \in 1 .. m : source[p].domain = result[i].domain
  BY <1>1, <1>3, <1>4, <1>5
<1>9. ASSUME NEW p \in 1 .. m
      PROVE  \/ source[p].domain = NoDomain
             \/ \E i \in DOMAIN result : result[i].domain = source[p].domain
  BY <1>1, <1>5, <1>6
<1>10. ASSUME NEW i \in 2 .. Len(result), NEW k \in 2 .. Len(result), i < k
       PROVE  \E p \in 1 .. m : /\ source[p].domain = result[i].domain
                                /\ \A q \in 1 .. p : source[q].domain # result[k].domain
  BY <1>1, <1>4, <1>5, <1>10 DEF Before
<1> QED BY <1>2, <1>3, <1>7, <1>8, <1>9, <1>10 DEF DomainsInv

\* What TrustDomainsAreCentral says of one result.
Central(result, source, primary) ==
    /\ result[1].domain = primary
    /\ \A i \in DOMAIN result : ~result[i].padded
    /\ {result[i].domain : i \in DOMAIN result}
         = {primary} \union ({source[i].domain : i \in DOMAIN source} \ {NoDomain})
    /\ \A i, k \in 2 .. Len(result) : i < k =>
         FirstOf(source, result[i].domain) < FirstOf(source, result[k].domain)
    /\ \A i \in 2 .. Len(result) : result[i].domain # primary

LEMMA LoopIsCentral ==
    ASSUME NEW source, NEW m \in Nat, DOMAIN source = 1 .. m, NEW primary \in Domain,
           NEW result, LoopInv(result, source, Plain(primary), m)
    PROVE  Central(result, source, primary)
<1>3. DomainsInv(result, source, primary, m)
  BY LoopResult
<1>4. /\ result[1].domain = primary
      /\ \A i \in DOMAIN result : result[i].domain \in Domain /\ ~result[i].padded
      /\ \A i \in 2 .. Len(result) : /\ result[i].domain # primary
                                     /\ \E p \in 1 .. m : source[p].domain = result[i].domain
      /\ \A p \in 1 .. m : \/ source[p].domain = NoDomain
                           \/ \E i \in DOMAIN result : result[i].domain = source[p].domain
      /\ \A i, k \in 2 .. Len(result) : i < k =>
           \E p \in 1 .. m : /\ source[p].domain = result[i].domain
                             /\ \A q \in 1 .. p : source[q].domain # result[k].domain
  BY <1>3 DEF DomainsInv
<1>5. Len(result) \in Nat \ {0} /\ DOMAIN result = 1 .. Len(result)
  BY <1>3 DEF DomainsInv
<1>6. {result[i].domain : i \in DOMAIN result}
          = {primary} \union ({source[i].domain : i \in DOMAIN source} \ {NoDomain})
  <2>1. ASSUME NEW i \in DOMAIN result
        PROVE  \/ result[i].domain = primary
               \/ \E p \in DOMAIN source : source[p].domain = result[i].domain
    BY <1>4, <1>5, i = 1 \/ i \in 2 .. Len(result)
  <2>2. ASSUME NEW i \in DOMAIN result PROVE result[i].domain # NoDomain
    BY <1>4, DomainAssumption
  <2>3. 1 \in DOMAIN result /\ result[1].domain = primary
    BY <1>4, <1>5
  <2>4. ASSUME NEW p \in DOMAIN source, source[p].domain # NoDomain
        PROVE  \E i \in DOMAIN result : result[i].domain = source[p].domain
    BY <1>4, <2>4
  <2>5. ASSUME NEW d
        PROVE  (\E i \in DOMAIN result : result[i].domain = d)
                 <=> \/ d = primary
                     \/ d # NoDomain /\ \E p \in DOMAIN source : source[p].domain = d
    <3>1. primary # NoDomain
      BY <2>2, <2>3
    <3> QED BY <2>1, <2>2, <2>3, <2>4, <3>1
  <2> DEFINE A == {result[i].domain : i \in DOMAIN result}
             B == {primary} \union ({source[i].domain : i \in DOMAIN source} \ {NoDomain})
  <2>6. ASSUME NEW d PROVE d \in A <=> d \in B
    BY <2>5
  <2> HIDE DEF A, B
  <2>7. A = B
    BY <2>6
  <2> QED BY <2>7 DEF A, B
<1>7. ASSUME NEW i \in 2 .. Len(result)
      PROVE  /\ FirstOf(source, result[i].domain) \in 1 .. m
             /\ source[FirstOf(source, result[i].domain)].domain = result[i].domain
             /\ \A q \in 1 .. FirstOf(source, result[i].domain) - 1 :
                  source[q].domain # result[i].domain
  <2>1. \E p \in 1 .. m : source[p].domain = result[i].domain
    BY <1>4
  <2> QED BY <2>1, FirstOccurrence
<1>8. ASSUME NEW i \in 2 .. Len(result), NEW k \in 2 .. Len(result), i < k
      PROVE  FirstOf(source, result[i].domain) < FirstOf(source, result[k].domain)
  <2>1. PICK p \in 1 .. m : /\ source[p].domain = result[i].domain
                            /\ \A q \in 1 .. p : source[q].domain # result[k].domain
    BY <1>4, <1>8
  <2> DEFINE fi == FirstOf(source, result[i].domain)
             fk == FirstOf(source, result[k].domain)
  <2>2. fi \in 1 .. m /\ \A q \in 1 .. fi - 1 : source[q].domain # result[i].domain
    BY <1>7
  <2>3. fk \in 1 .. m /\ source[fk].domain = result[k].domain
    BY <1>7
  <2> HIDE DEF fi, fk
  <2>4. fi <= p
    BY <2>1, <2>2
  <2>5. p < fk
    BY <2>1, <2>3
  <2>6. fi < fk
    BY <2>2, <2>3, <2>4, <2>5
  <2> QED BY <2>6 DEF fi, fk
<1> QED BY <1>4, <1>6, <1>8 DEF Central

\* However many domains the annotations list, padded, empty or repeated, and
\* however long they are, the trust policies name the primary domain first, then
\* each listed one once and in order, without the spaces around it, and the
\* AWSCluster's annotation counts alone.
THEOREM DomainsAreCentral == Spec => []TrustDomainsAreCentral
<1>1. TrustDomainsAreCentral
  <2> SUFFICES ASSUME NEW cluster \in Annotation, NEW template \in OldAnnotation,
                      NEW primary \in Domain
               PROVE  Central(GetIRSATrustDomains(template, cluster, Plain(primary)),
                              IF cluster # <<>> THEN cluster ELSE template, primary)
    BY Zenon DEF TrustDomainsAreCentral, Central
  <2> DEFINE source == annotated(template, cluster)
             result == GetIRSATrustDomains(template, cluster, Plain(primary))
             m == Len(source)
  <2>1. source \in Annotation /\ source = IF cluster # <<>> THEN cluster ELSE template
    BY DEF OldAnnotation, annotated
  <2>2. /\ m \in Nat /\ DOMAIN source = 1 .. m
        /\ \A i \in 1 .. m : TrimSpace(source[i]) \in Trimmed \union {Plain(NoDomain)}
    BY <2>1, AnnotationType DEF TrimSpace, Trimmed
  <2>3. PICK f : Rounds(f, source, Plain(primary), m) /\ result = f[m]
    BY <2>2, LoopUnfolds
  <2>4. Plain(primary) \in Trimmed
    BY DEF Trimmed
  <2> HIDE DEF source, result, m
  <2>5. LoopInv(result, source, Plain(primary), m)
    BY <2>2, <2>3, <2>4, LoopInvHolds
  <2>6. Central(result, source, primary)
    BY <2>2, <2>5, LoopIsCentral
  <2> QED BY <2>1, <2>6 DEF result
<1> QED BY <1>1, PTL
=============================================================================
