---------------------------- MODULE ValidatorProofs ----------------------------
(***************************************************************************)
(* _enforce_policy demands what the policy requires, and validate accepts  *)
(* only an unbroken chain of trust, for every policy, response and token.  *)
(***************************************************************************)
EXTENDS Validator, WellFoundedInduction, TLAPS

USE DEF vars, arguments

-----------------------------------------------------------------------------
(* Policies as sets. *)

\* Each section of _enforce_policy demands its share of the requirements.
LEMMA HardwareDemands ==
  ASSUME NEW p, NEW c, HardwareOk(p, c), p.hw_model # Absent
  PROVE  <<"hwmodel", p.hw_model>> \in Facts(c)
<1>1. p.hw_model \in {c.hwmodel} \cap Supported
  BY DEF HardwareOk
<1>2. {<<"hwmodel", m>> : m \in {c.hwmodel} \cap Supported} \subseteq Facts(c)
  BY DEF Facts
<1>. QED  BY <1>1, <1>2

LEMMA DigestDemands ==
  ASSUME NEW p, NEW c, WorkloadOk(p, c), p.workload # Absent,
         NEW d \in {p.workload.image_hash} \ {Absent}
  PROVE  <<"image_digest", d>> \in Facts(c)
<1>1. d = c.image_digest
  BY DEF WorkloadOk
<1>2. {<<"image_digest", c.image_digest>>} \subseteq Facts(c)
  BY DEF Facts
<1>. QED  BY <1>1, <1>2

LEMMA SignaturesDemand ==
  ASSUME NEW p, NEW c, WorkloadOk(p, c), p.workload # Absent,
         NEW k \in p.workload.image_signatures \cup ({p.workload.signing_key_id} \ {Absent})
  PROVE  <<"signature", k>> \in Facts(c)
<1> DEFINE w == p.workload
           Ids == {<<"signature", s.key_id>> : s \in c.signatures}
           Pairs == {<<"signature", <<s.alg, s.key_id>> >> : s \in c.signatures}
<1>1. SignaturesOk(w, c) /\ (w.signing_key_id # Absent \/ w.image_signatures # {})
  BY DEF WorkloadOk
<1>2. c.signatures # Malformed
  BY <1>1 DEF SignaturesOk
<1>3. Ids \cup Pairs \subseteq Facts(c)
  BY <1>2 DEF Facts
<1>4. k \in KeyIdsOf(c) \/ k \in ExactOf(c)
  BY <1>1 DEF SignaturesOk
<1>5. CASE k \in KeyIdsOf(c)
  <2>1. PICK s \in c.signatures : s.key_id = k
    BY <1>5 DEF KeyIdsOf
  <2>. QED  BY <2>1, <1>3
<1>6. CASE k \in ExactOf(c)
  <2>1. PICK s \in c.signatures : <<s.alg, s.key_id>> = k
    BY <1>6 DEF ExactOf
  <2>. QED  BY <2>1, <1>3
<1>. QED  BY <1>4, <1>5, <1>6

LEMMA InstanceDemands ==
  ASSUME NEW p, NEW c, InstanceOk(p, c), p.gce_instance # Absent,
         NEW f \in Fields, p.gce_instance[f] # Absent
  PROVE  <<f, p.gce_instance[f]>> \in Facts(c)
<1>1. p.gce_instance[f] = c.gce[f]
  BY DEF InstanceOk
<1>2. {<<g, c.gce[g]>> : g \in Fields} \subseteq Facts(c)
  BY DEF Facts
<1>. QED  BY <1>1, <1>2

LEMMA SpaceDemands ==
  ASSUME NEW p, NEW c, SpaceOk(p, c), p.confidential_space # Absent
  PROVE  LET s == p.confidential_space
         IN  /\ <<"confidential_space">> \in Facts(c)
             /\ \A a \in s.attributes : <<"attribute", a>> \in Facts(c)
             /\ \A x \in {TRUE} \cap {s.debug_disabled} : <<"debug_disabled">> \in Facts(c)
             /\ \A x \in {TRUE} \cap {s.secboot} : <<"secboot">> \in Facts(c)
<1> DEFINE s == p.confidential_space
<1>1. <<"confidential_space">> \in Facts(c)
  <2>1. {<<"confidential_space">> : x \in {TRUE} \cap {c.swname}} \subseteq Facts(c)
    BY DEF Facts
  <2>. QED  BY <2>1 DEF SpaceOk
<1>2. ASSUME NEW a \in s.attributes  PROVE <<"attribute", a>> \in Facts(c)
  <2>1. c.attributes # Malformed /\ a \in c.attributes
    BY DEF SpaceOk
  <2>2. {<<"attribute", b>> : b \in c.attributes} \subseteq Facts(c)
    BY <2>1 DEF Facts
  <2>. QED  BY <2>1, <2>2
<1>3. ASSUME NEW x \in {TRUE} \cap {s.debug_disabled}  PROVE <<"debug_disabled">> \in Facts(c)
  <2>1. {<<"debug_disabled">> : y \in {TRUE} \cap {c.dbgstat}} \subseteq Facts(c)
    BY DEF Facts
  <2>. QED  BY <2>1, <1>3 DEF SpaceOk
<1>4. ASSUME NEW x \in {TRUE} \cap {s.secboot}  PROVE <<"secboot">> \in Facts(c)
  <2>1. {<<"secboot">> : y \in {TRUE} \cap {c.secboot}} \subseteq Facts(c)
    BY DEF Facts
  <2>. QED  BY <2>1, <1>4 DEF SpaceOk
<1>. QED  BY <1>1, <1>2, <1>3, <1>4

THEOREM PolicyIsDemanded ==
  ASSUME NEW p, NEW c, PolicyOk(p, c)
  PROVE  c.nested /\ Requirements(p) \subseteq Facts(c)
<1> SUFFICES ASSUME NEW x \in Requirements(p)  PROVE x \in Facts(c)
  BY DEF PolicyOk
<1> DEFINE w == p.workload
           g == p.gce_instance
           s == p.confidential_space
<1>1. \/ p.hw_model # Absent /\ x = <<"hwmodel", p.hw_model>>
      \/ w # Absent /\ \E d \in {w.image_hash} \ {Absent} : x = <<"image_digest", d>>
      \/ w # Absent /\ \E k \in w.image_signatures \cup ({w.signing_key_id} \ {Absent}) :
                          x = <<"signature", k>>
      \/ g # Absent /\ \E f \in Fields : g[f] # Absent /\ x = <<f, g[f]>>
      \/ s # Absent /\ \/ x = <<"confidential_space">>
                       \/ \E a \in s.attributes : x = <<"attribute", a>>
                       \/ \E y \in {TRUE} \cap {s.debug_disabled} : x = <<"debug_disabled">>
                       \/ \E y \in {TRUE} \cap {s.secboot} : x = <<"secboot">>
  BY DEF Requirements
<1>. QED
  BY <1>1, HardwareDemands, DigestDemands, SignaturesDemand, InstanceDemands, SpaceDemands
     DEF PolicyOk

\* What each kind of fact comes from.
LEMMA FactsAre ==
  ASSUME NEW c, NEW x \in Facts(c)
  PROVE  \/ \E m \in {c.hwmodel} \cap Supported : x = <<"hwmodel", m>>
         \/ x = <<"image_digest", c.image_digest>>
         \/ \E f \in Fields : x = <<f, c.gce[f]>>
         \/ c.signatures # Malformed /\ \E s \in c.signatures :
              x = <<"signature", s.key_id>> \/ x = <<"signature", <<s.alg, s.key_id>> >>
         \/ c.attributes # Malformed /\ \E a \in c.attributes : x = <<"attribute", a>>
         \/ c.swname /\ x = <<"confidential_space">>
         \/ c.dbgstat /\ x = <<"debug_disabled">>
         \/ c.secboot /\ x = <<"secboot">>
  BY DEF Facts

LEMMA PairFact ==
  ASSUME NEW c, NEW n, NEW v, <<n, v>> \in Facts(c)
  PROVE  \/ n = "hwmodel" /\ v \in {c.hwmodel} \cap Supported
         \/ n = "image_digest" /\ v = c.image_digest
         \/ n \in Fields /\ v = c.gce[n]
         \/ n = "signature" /\ c.signatures # Malformed /\ \E s \in c.signatures :
              v = s.key_id \/ v = <<s.alg, s.key_id>>
         \/ n = "attribute" /\ c.attributes # Malformed /\ v \in c.attributes
<1>1. \A a : <<n, v>> # <<a>>
  <2> SUFFICES ASSUME NEW a, <<n, v>> = <<a>>  PROVE FALSE
    OBVIOUS
  <2>1. Len(<<n, v>>) = 2 /\ Len(<<a>>) = 1
    OBVIOUS
  <2>. QED  BY <2>1
<1>2. \A a, b : <<n, v>> = <<a, b>> => n = a /\ v = b
  OBVIOUS
<1> DEFINE x == <<n, v>>
<1>3. CASE \E m \in {c.hwmodel} \cap Supported : x = <<"hwmodel", m>>
  BY <1>2, <1>3
<1>4. CASE x = <<"image_digest", c.image_digest>>
  BY <1>2, <1>4
<1>5. CASE \E f \in Fields : x = <<f, c.gce[f]>>
  BY <1>2, <1>5
<1>6. CASE c.signatures # Malformed /\ \E s \in c.signatures :
             x = <<"signature", s.key_id>> \/ x = <<"signature", <<s.alg, s.key_id>> >>
  BY <1>2, <1>6
<1>7. CASE c.attributes # Malformed /\ \E a \in c.attributes : x = <<"attribute", a>>
  BY <1>2, <1>7
<1>. QED  BY <1>1, <1>3, <1>4, <1>5, <1>6, <1>7, FactsAre

LEMMA SingleFact ==
  ASSUME NEW c, NEW n, <<n>> \in Facts(c)
  PROVE  \/ n = "confidential_space" /\ c.swname
         \/ n = "debug_disabled" /\ c.dbgstat
         \/ n = "secboot" /\ c.secboot
<1>1. \A a, b : <<n>> # <<a, b>>
  <2> SUFFICES ASSUME NEW a, NEW b, <<n>> = <<a, b>>  PROVE FALSE
    OBVIOUS
  <2>1. Len(<<n>>) = 1 /\ Len(<<a, b>>) = 2
    OBVIOUS
  <2>. QED  BY <2>1
<1>2. \A a : <<n>> = <<a>> => n = a
  OBVIOUS
<1>3. \/ c.swname /\ <<n>> = <<"confidential_space">>
      \/ c.dbgstat /\ <<n>> = <<"debug_disabled">>
      \/ c.secboot /\ <<n>> = <<"secboot">>
  BY <1>1, FactsAre
<1>. QED  BY <1>2, <1>3

LEMMA HardwareSuffices ==
  ASSUME NEW p, NEW c, Requirements(p) \subseteq Facts(c)
  PROVE  HardwareOk(p, c)
<1> SUFFICES ASSUME p.hw_model # Absent  PROVE p.hw_model \in Supported /\ c.hwmodel = p.hw_model
  BY DEF HardwareOk
<1>1. <<"hwmodel", p.hw_model>> \in Facts(c)
  BY DEF Requirements
<1>. QED  BY <1>1, PairFact DEF Fields

LEMMA SignatureFact ==
  ASSUME NEW c \in Claims, NEW k \in KeyIds \cup Algs \X KeyIds,
         <<"signature", k>> \in Facts(c)
  PROVE  c.signatures # Malformed /\ k \in IF k \in KeyIds THEN KeyIdsOf(c) ELSE ExactOf(c)
<1>1. /\ c.signatures # Malformed
      /\ \E s \in c.signatures : k = s.key_id \/ k = <<s.alg, s.key_id>>
  BY PairFact DEF Fields
<1>2. PICK s \in c.signatures : k = s.key_id \/ k = <<s.alg, s.key_id>>
  BY <1>1
<1>3. s.key_id \in Opt(KeyIds) /\ s.alg \in Opt(Algs)
  <2>1. c.signatures \in (SUBSET Signed) \cup {Malformed}
    BY DEF Claims
  <2>2. s \in Signed
    BY <2>1, <1>1, <1>2
  <2>. QED  BY <2>2 DEF Signed
<1>4. k # Absent
  BY AbsentAssumption, KeyIdAssumption
<1>5. CASE k \in KeyIds
  <2>1. k = s.key_id
    BY <1>2, <1>3, <1>5, KeyIdAssumption
  <2>. QED  BY <2>1, <1>1, <1>2, <1>4, <1>5 DEF KeyIdsOf
<1>6. CASE k \notin KeyIds
  <2>1. k = <<s.alg, s.key_id>> /\ k \in Algs \X KeyIds
    BY <1>2, <1>3, <1>4, <1>6 DEF Opt
  <2>2. s.alg \in Algs /\ s.key_id \in KeyIds
    BY <2>1
  <2>3. s.alg # Absent /\ s.key_id # Absent
    BY <2>2, AbsentAssumption
  <2>. QED  BY <2>1, <2>3, <1>1, <1>2, <1>6 DEF ExactOf
<1>. QED  BY <1>5, <1>6

LEMMA WorkloadSuffices ==
  ASSUME NEW p \in Policy, NEW c \in Claims, Requirements(p) \subseteq Facts(c)
  PROVE  WorkloadOk(p, c)
<1> DEFINE w == p.workload
<1> SUFFICES ASSUME w # Absent
    PROVE  (w.image_hash # Absent => c.image_digest = w.image_hash) /\ SignaturesOk(w, c)
  BY DEF WorkloadOk
<1>1. w \in Workload
  BY DEF Policy, Opt
<1>2. ASSUME w.image_hash # Absent  PROVE c.image_digest = w.image_hash
  <2>1. <<"image_digest", w.image_hash>> \in Facts(c)
    BY <1>2 DEF Requirements
  <2>. QED  BY <2>1, PairFact DEF Fields
<1>3. ASSUME NEW k \in w.image_signatures \cup ({w.signing_key_id} \ {Absent})
      PROVE  c.signatures # Malformed /\ k \in IF k \in KeyIds THEN KeyIdsOf(c) ELSE ExactOf(c)
  <2>1. <<"signature", k>> \in Requirements(p)
    BY <1>3 DEF Requirements
  <2>2. k \in KeyIds \cup Algs \X KeyIds
    BY <1>1, <1>3 DEF Workload, Opt
  <2>. QED  BY <2>1, <2>2, SignatureFact
<1>4. w.signing_key_id \in Opt(KeyIds)
  BY <1>1 DEF Workload
<1>. QED  BY <1>2, <1>3, <1>4 DEF SignaturesOk, Opt

LEMMA InstanceSuffices ==
  ASSUME NEW p, NEW c, Requirements(p) \subseteq Facts(c)
  PROVE  InstanceOk(p, c)
<1> SUFFICES ASSUME p.gce_instance # Absent, NEW f \in Fields, p.gce_instance[f] # Absent
    PROVE  c.gce[f] = p.gce_instance[f]
  BY DEF InstanceOk
<1>1. <<f, p.gce_instance[f]>> \in Facts(c)
  BY DEF Requirements
<1>. QED  BY <1>1, PairFact DEF Fields

LEMMA SpaceSuffices ==
  ASSUME NEW p \in Policy, NEW c \in Claims, Requirements(p) \subseteq Facts(c)
  PROVE  SpaceOk(p, c)
<1> DEFINE s == p.confidential_space
<1> SUFFICES ASSUME s # Absent
    PROVE  /\ c.swname
           /\ s.debug_disabled => c.dbgstat
           /\ s.secboot => c.secboot
           /\ s.attributes # {} => c.attributes # Malformed /\ s.attributes \subseteq c.attributes
  BY DEF SpaceOk
<1>1. c.swname
  <2>1. <<"confidential_space">> \in Facts(c)
    BY DEF Requirements
  <2>. QED  BY <2>1, SingleFact
<1>2. ASSUME s.debug_disabled  PROVE c.dbgstat
  <2>1. <<"debug_disabled">> \in Facts(c)
    BY <1>2 DEF Requirements, Policy, Space, Opt
  <2>. QED  BY <2>1, SingleFact
<1>3. ASSUME s.secboot  PROVE c.secboot
  <2>1. <<"secboot">> \in Facts(c)
    BY <1>3 DEF Requirements, Policy, Space, Opt
  <2>. QED  BY <2>1, SingleFact
<1>4. ASSUME NEW a \in s.attributes  PROVE c.attributes # Malformed /\ a \in c.attributes
  <2>1. <<"attribute", a>> \in Facts(c)
    BY <1>4 DEF Requirements
  <2>. QED  BY <2>1, PairFact DEF Fields
<1>. QED  BY <1>1, <1>2, <1>3, <1>4

\* ... and demands nothing else.
THEOREM OnlyPolicyIsDemanded ==
  ASSUME NEW p \in Policy, NEW c \in Claims, c.nested, Requirements(p) \subseteq Facts(c)
  PROVE  PolicyOk(p, c)
BY HardwareSuffices, WorkloadSuffices, InstanceSuffices, SpaceSuffices DEF PolicyOk

-----------------------------------------------------------------------------
(* validate, check by check. *)

\* next() over the evidence: there is a first GCA bundle when there is any.
LEMMA FirstIsGca ==
  ASSUME response \in Response, Gca # {}
  PROVE  First(Gca) \in Gca /\ response.evidence[First(Gca)] \in Evidence
<1>1. response.evidence \in Seq(Evidence)
  BY DEF Response
<1>2. Gca \subseteq DOMAIN response.evidence /\ Gca \subseteq Nat
  BY <1>1 DEF Gca
<1>3. PICK i \in Gca : \A j \in Gca : <<j, i>> \notin OpToRel(<, Nat)
  BY <1>2, NatLessThanWellFounded, WFMin
<1>4. ASSUME NEW j \in Gca  PROVE i <= j
  <2>1. ~(j < i)
    BY <1>2, <1>3, <1>4 DEF OpToRel
  <2>. QED  BY <2>1, <1>2, <1>4
<1>5. First(Gca) \in Gca
  BY <1>4 DEF First
<1>. QED  BY <1>1, <1>2, <1>5

LEMMA TypeInit == Init => TypeOK
  BY DEF Init, TypeOK, Checks, Opt

LEMMA TypeNext == ASSUME TypeOK, Next  PROVE TypeOK'
<1> USE DEF TypeOK, Proceed, Fail, Checks, Errors, Opt
<1>1. CASE Discover
  BY <1>1 DEF Discover
<1>2. CASE ExtractBundle
  BY <1>2, FirstIsGca DEF ExtractBundle, Evidence
<1>3. CASE ValidateToken
  BY <1>3 DEF ValidateToken
<1>4. CASE EnforcePolicy
  BY <1>4 DEF EnforcePolicy
<1>5. CASE VerifyBinding
  BY <1>5 DEF VerifyBinding
<1>6. CASE VerifySession
  BY <1>6 DEF VerifySession
<1>. QED  BY <1>1, <1>2, <1>3, <1>4, <1>5, <1>6 DEF Next

\* Every check leaves the variables in their types, and a token once there is one.
THEOREM TypeCorrect == Spec => []TypeOK
<1>1. TypeOK /\ [Next]_vars => TypeOK'
  <2> SUFFICES ASSUME TypeOK, UNCHANGED vars  PROVE TypeOK'
    BY TypeNext
  <2>. QED  BY DEF TypeOK
<1>. QED  BY TypeInit, <1>1, PTL DEF Spec

\* What is known once a check is passed.
Judged ==
  /\ step \in {"token", "policy", "binding", "session", "accepted"} =>
       Gca # {} /\ bundle = response.evidence[First(Gca)].token /\ bundle # Absent
  /\ step \in {"policy", "binding", "session", "accepted", "PolicyViolationError"} =>
       policy # NoPolicy /\ bundle # Absent /\ bundle.genuine /\ bundle.aud = ExpectedAudience
  /\ step \in {"binding", "session", "accepted"} => PolicyOk(policy, bundle.claims)
  /\ step = "PolicyViolationError" => ~PolicyOk(policy, bundle.claims)
  /\ step \in {"session", "accepted"} =>
       bundle.claims.eat_nonce # Malformed /\ Bound(bundle.claims.eat_nonce)
  /\ step = "accepted" =>
       /\ Verifies(response.sig, response.ecdsa, EcKeys)
       /\ Verifies(response.pqcSig, response.pqc, MlDsaKeys)

LEMMA JudgedInit == Init => Judged
  BY DEF Init, Judged

LEMMA JudgedNext == ASSUME Judged, Next  PROVE Judged'
<1> USE DEF Judged, Proceed, Fail
<1>1. UNCHANGED arguments
  BY DEF Next, Discover, ExtractBundle, ValidateToken, EnforcePolicy, VerifyBinding, VerifySession
<1>2. /\ Gca' = Gca /\ ExpectedAudience' = ExpectedAudience
      /\ \A c : PolicyOk(policy, c)' = PolicyOk(policy, c)
      /\ \A n : Bound(n)' = Bound(n)
  BY <1>1 DEF Gca, ExpectedAudience, Bound
<1>3. CASE Discover
  BY <1>3 DEF Discover
<1>4. CASE ExtractBundle
  BY <1>4, <1>1, <1>2 DEF ExtractBundle
<1>5. CASE ValidateToken
  BY <1>5, <1>1, <1>2 DEF ValidateToken
<1>6. CASE EnforcePolicy
  BY <1>6, <1>1, <1>2 DEF EnforcePolicy
<1>7. CASE VerifyBinding
  BY <1>7, <1>1, <1>2 DEF VerifyBinding
<1>8. CASE VerifySession
  BY <1>8, <1>1, <1>2 DEF VerifySession, Verifies
<1>. QED  BY <1>3, <1>4, <1>5, <1>6, <1>7, <1>8 DEF Next

LEMMA JudgedStep == Judged /\ [Next]_vars => Judged'
<1> SUFFICES ASSUME Judged, UNCHANGED vars  PROVE Judged'
  BY JudgedNext
<1>. QED  BY DEF Judged, Gca, ExpectedAudience, Bound, Verifies

LEMMA JudgedAlways == Spec => [](TypeOK /\ Judged)
  BY TypeCorrect, JudgedInit, JudgedStep, PTL DEF Spec

\* The token of an accepted response is one that was presented, and completes the
\* chain of trust.
LEMMA JudgedIsEndorsed == TypeOK /\ Judged => AcceptsOnlyEndorsed
<1> SUFFICES ASSUME TypeOK, Judged, step = "accepted"
    PROVE  bundle \in Presented \ {Absent} /\ Chain(bundle)
  BY DEF AcceptsOnlyEndorsed
<1> USE DEF Judged
<1>1. bundle \in Presented \ {Absent}
  BY FirstIsGca DEF Presented, TypeOK
<1>2. Satisfies(bundle)
  BY PolicyIsDemanded DEF Satisfies
<1>. QED
  BY <1>1, <1>2 DEF Chain, Bound, Verifies, ExpectedAudience

\* validate accepts only a response with an unbroken chain of trust.
THEOREM AcceptedIsEndorsed == Spec => []AcceptsOnlyEndorsed
  BY JudgedAlways, JudgedIsEndorsed, PTL

\* What validator.py:397 comes to: a client without a policy accepts nothing,
\* where the document promises that it skips the policy; see the run no_policy.
THEOREM NoPolicyAcceptsNothing == Spec => [](policy = NoPolicy => step # "accepted")
<1>1. TypeOK /\ Judged => (policy = NoPolicy => step # "accepted")
  BY DEF Judged
<1>. QED  BY <1>1, JudgedAlways, PTL

\* The token is a token, and the policy a policy, when the claims were looked at.
LEMMA ClaimsType ==
  ASSUME TypeOK, bundle # Absent
  PROVE  bundle.claims \in Claims
BY DEF TypeOK, Opt, Token

\* A PolicyViolationError is raised only for claims that were verified and that
\* do violate the policy.
THEOREM ViolationsAreReal == Spec => []ViolationsAreVerified
<1>1. TypeOK /\ Judged => ViolationsAreVerified
  <2> SUFFICES ASSUME TypeOK, Judged, step = "PolicyViolationError", Satisfies(bundle)
      PROVE  FALSE
    BY DEF ViolationsAreVerified, Judged
  <2>1. policy \in Policy /\ bundle.claims \in Claims /\ ~PolicyOk(policy, bundle.claims)
    BY ClaimsType DEF Judged, TypeOK
  <2>. QED  BY <2>1, OnlyPolicyIsDemanded DEF Satisfies
<1>. QED  BY JudgedAlways, <1>1, PTL

\* What the chain of trust is about does not change.
LEMMA SameChain ==
  ASSUME UNCHANGED arguments
  PROVE  Presented' = Presented /\ \A t : Chain(t)' <=> Chain(t)
<1>1. Presented' = Presented
  BY DEF Presented, Gca
<1>2. ASSUME NEW t  PROVE Satisfies(t)' <=> Satisfies(t)
  BY DEF Satisfies
<1>3. ASSUME NEW t  PROVE Chain(t)' <=> Chain(t)
  BY <1>2 DEF Chain
<1>. QED  BY <1>1, <1>3

\* Each check fails only a response whose chain is broken there.
LEMMA EndorsedNext ==
  ASSUME TypeOK, Judged, EndorsedIsAccepted, Next, ekm \in Ekms
  PROVE  EndorsedIsAccepted'
<1> SUFFICES ASSUME step' \in Errors, ~outage', policy # NoPolicy,
                    NEW t \in Presented \ {Absent}, Presented = {t}, Chain(t)
    PROVE  FALSE
  <2>1. UNCHANGED arguments
    BY DEF Next, Discover, ExtractBundle, ValidateToken, EnforcePolicy, VerifyBinding,
           VerifySession, Proceed, Fail
  <2>. QED
    BY <2>1, SameChain DEF EndorsedIsAccepted
<1> USE DEF Proceed, Fail, Errors
<1>1. step \in {"token", "policy", "binding", "session"} => bundle = t /\ bundle # Absent
  BY FirstIsGca DEF Judged, Presented, TypeOK
<1>2. CASE Discover
  BY <1>2 DEF Discover
<1>3. CASE ExtractBundle
  <2>1. Gca # {}
    BY DEF Presented
  <2>2. response.evidence[First(Gca)].token = t
    BY <2>1, FirstIsGca DEF Presented, TypeOK
  <2>. QED  BY <1>3, <2>1, <2>2 DEF ExtractBundle
<1>4. CASE ValidateToken
  BY <1>1, <1>4 DEF ValidateToken, Chain, ExpectedAudience
<1>5. CASE EnforcePolicy
  <2>1. policy \in Policy /\ t.claims \in Claims
    BY <1>1, <1>5, ClaimsType DEF EnforcePolicy, TypeOK
  <2>2. PolicyOk(policy, t.claims)
    BY <2>1, OnlyPolicyIsDemanded DEF Chain, Satisfies
  <2>. QED  BY <1>1, <1>5, <2>2 DEF EnforcePolicy
<1>6. CASE VerifyBinding
  <2>1. response.ecdsa # Absent /\ response.pqc # Absent
    BY KeyAssumption, AbsentAssumption DEF Chain
  <2>2. t.claims.eat_nonce # Malformed /\ Bound(t.claims.eat_nonce)
    BY DEF Chain, Bound
  <2>. QED  BY <1>1, <1>6, <2>1, <2>2 DEF VerifyBinding
<1>7. CASE VerifySession
  <2>1. response.sig # Absent /\ response.pqcSig # Absent
    <3>1. t \in Token
      BY <1>1, <1>7 DEF VerifySession, TypeOK, Opt
    <3>2. response.sig \in Signature /\ response.pqcSig \in Signature
      BY <3>1, KeyAssumption DEF Chain, Judged, Signature, Opt
    <3>. QED  BY <3>2, AbsentAssumption
  <2>. QED  BY <1>1, <1>7, <2>1 DEF VerifySession, Verifies, Chain
<1>. QED  BY <1>2, <1>3, <1>4, <1>5, <1>6, <1>7 DEF Next

\* A response whose chain is unbroken is accepted when the issuer can be reached.
THEOREM EndorsedAreAccepted == Spec => []EndorsedIsAccepted
<1>1. Init => EndorsedIsAccepted
  BY DEF Init, EndorsedIsAccepted, Errors
<1>2. Init => ekm \in Ekms
  BY DEF Init
<1>3. ekm \in Ekms /\ [Next]_vars => (ekm \in Ekms)'
  BY DEF Next, Discover, ExtractBundle, ValidateToken, EnforcePolicy, VerifyBinding,
         VerifySession, Proceed, Fail
<1>4. TypeOK /\ Judged /\ ekm \in Ekms /\ EndorsedIsAccepted /\ [Next]_vars
        => EndorsedIsAccepted'
  <2> SUFFICES ASSUME EndorsedIsAccepted, UNCHANGED vars  PROVE EndorsedIsAccepted'
    BY EndorsedNext
  <2>. QED  BY SameChain DEF EndorsedIsAccepted
<1>. QED  BY JudgedAlways, <1>1, <1>2, <1>3, <1>4, PTL DEF Spec


\* A policy with one requirement less is satisfied by whatever satisfies it.
LEMMA RelaxedDemandsLess ==
  ASSUME NEW p \in Policy, NEW c, PolicyOk(p, c), NEW q \in Relaxed(p)
  PROVE  PolicyOk(q, c)
<1> USE DEF PolicyOk, HardwareOk, WorkloadOk, InstanceOk, SpaceOk, SignaturesOk
<1>0. /\ p.workload \in Opt(Workload) /\ p.gce_instance \in Opt(Instance)
      /\ p.confidential_space \in Opt(Space)
  BY DEF Policy
<1>1. CASE q \in {[p EXCEPT !.hw_model = Absent], [p EXCEPT !.workload = Absent],
                  [p EXCEPT !.gce_instance = Absent], [p EXCEPT !.confidential_space = Absent]}
  BY <1>1 DEF Policy
<1>2. CASE p.workload # Absent /\ q = [p EXCEPT !.workload.image_hash = Absent]
  BY <1>0, <1>2 DEF Policy, Workload, Opt
<1>3. CASE p.workload # Absent /\ q = [p EXCEPT !.workload.signing_key_id = Absent]
  BY <1>0, <1>3 DEF Policy, Workload, Opt
<1>4. CASE p.workload # Absent /\ \E r \in p.workload.image_signatures :
             q = [p EXCEPT !.workload.image_signatures = @ \ {r}]
  BY <1>0, <1>4 DEF Policy, Workload, Opt
<1>5. CASE p.gce_instance # Absent /\ \E f \in Fields : q = [p EXCEPT !.gce_instance[f] = Absent]
  BY <1>0, <1>5 DEF Policy, Instance, Opt
<1>6. CASE p.confidential_space # Absent
             /\ q \in {[p EXCEPT !.confidential_space.debug_disabled = FALSE],
                       [p EXCEPT !.confidential_space.secboot = FALSE]}
  BY <1>0, <1>6 DEF Policy, Space, Opt
<1>7. CASE p.confidential_space # Absent /\ \E a \in p.confidential_space.attributes :
             q = [p EXCEPT !.confidential_space.attributes = @ \ {a}]
  BY <1>0, <1>7 DEF Policy, Space, Opt
<1>. QED  BY <1>1, <1>2, <1>3, <1>4, <1>5, <1>6, <1>7 DEF Relaxed

\* Leaving a field of the policy unset never refuses more.
THEOREM WeakerPoliciesAcceptMore == Spec => []WeakerAcceptsMore
<1>1. TypeOK /\ Judged => WeakerAcceptsMore
  BY RelaxedDemandsLess DEF TypeOK, Judged, WeakerAcceptsMore
<1>. QED  BY JudgedAlways, <1>1, PTL
=============================================================================
