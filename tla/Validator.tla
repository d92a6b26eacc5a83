------------------------------ MODULE Validator ------------------------------
(***************************************************************************)
(* The client's judgement of one attestation response                      *)
(* (client/validator.py): AttestationValidator.validate, with the OIDC     *)
(* validator it builds, _enforce_policy and the two bindings it verifies.  *)
(*                                                                         *)
(* Keys, keying material and claim values are names.  A fingerprint is the *)
(* name of its key, and a signature says who signed what, as a perfect     *)
(* hash and a perfect signature scheme would have it.  Key ids contain no  *)
(* colon (attestation.proto calls them hex digests), so a qualified        *)
(* requirement is a pair <<algorithm, key id>> and a plain one an id.      *)
(* An ML-DSA keyset is one name too: a server's holds one key (keys.py).   *)
(* One with more, any of which may verify, has a fingerprint of its own,   *)
(* so the token would have to bind all of them together.                   *)
(***************************************************************************)
EXTENDS Naturals, Sequences

CONSTANTS
  Keys,             \* public keys
  EcKeys,           \* those that load as elliptic curve keys
  MlDsaKeys,        \* those that parse as ML-DSA keysets
  Ekms,             \* keying material of TLS sessions
  Challenge,        \* the nonce of a caller that asks for freshness
  Audiences,        \* values of the aud claim
  DefaultAudience,  \* constants.DEFAULT_AUDIENCE
  Models,           \* members of the enum HardwareModel
  Supported,        \* those _GCA_STRING_BY_HW_MODEL knows
  Values,           \* image digests and properties of GCE instances
  KeyIds, Algs,     \* of image signatures
  Attrs,            \* support attributes
  Absent,           \* an unset field, a missing claim, an empty string
  Malformed,        \* a claim of another type than the code expects
  NoPolicy          \* policy=None

Fields == {"project_id", "zone", "instance_id", "instance_name"}
Opt(S) == S \cup {Absent}
Instance == [Fields -> Opt(Values)]

\* AttestationPolicy of attestation.proto.
Workload == [image_hash: Opt(Values), signing_key_id: Opt(KeyIds),
             image_signatures: SUBSET (KeyIds \cup Algs \X KeyIds)]
Space == [debug_disabled: BOOLEAN, secboot: BOOLEAN, attributes: SUBSET Attrs]
Policy == [hw_model: Opt(Models), workload: Opt(Workload),
           gce_instance: Opt(Instance), confidential_space: Opt(Space),
           expected_audience: Opt(Audiences)]

\* What the code reads of a token: whether its signature and its times verify
\* and the JWKS names its issuer, and its claims.  `nested' is whether submods,
\* container and gce are mappings.
Signed == [key_id: Opt(KeyIds), alg: Opt(Algs)]
Claims == [eat_nonce: (SUBSET (Keys \cup {Challenge})) \cup {Malformed},
           nested: BOOLEAN, hwmodel: Opt(Models), image_digest: Opt(Values),
           signatures: (SUBSET Signed) \cup {Malformed}, gce: Instance,
           swname: BOOLEAN, dbgstat: BOOLEAN, secboot: BOOLEAN,
           attributes: (SUBSET Attrs) \cup {Malformed}]
Token == [genuine: BOOLEAN, aud: Audiences, claims: Claims]

\* AttestConnectionResponse of attestation.proto.
Signature == [by: Keys, ekm: Ekms, token: Opt(Token)]
Evidence == [gca: BOOLEAN, token: Opt(Token)]
Response == [evidence: Seq(Evidence), ecdsa: Opt(Keys), pqc: Opt(Keys),
             sig: Opt(Signature), pqcSig: Opt(Signature)]

ASSUME KeyAssumption == EcKeys \subseteq Keys /\ MlDsaKeys \subseteq Keys
ASSUME ClaimAssumption == DefaultAudience \in Audiences /\ Supported \subseteq Models
ASSUME AbsentAssumption ==
  Absent \notin Policy \cup Token \cup Keys \cup Signature \cup Models \cup Values
           \cup KeyIds \cup Algs \cup Audiences \cup Workload \cup Instance \cup Space

ASSUME KeyIdAssumption ==  \* no key id is a pair: it contains no colon
  KeyIds \cap (Opt(Algs) \X Opt(KeyIds)) = {} /\ Absent \notin Algs \X KeyIds

VARIABLES
  policy, response, ekm, nonce,  \* the arguments
  step,     \* the check that is due, or the outcome
  bundle,   \* the token of the first GCA bundle
  outage    \* history: discovery or the JWKS could not be read

arguments == <<policy, response, ekm, nonce>>
vars == <<arguments, step, bundle, outage>>

Checks == {"discover", "evidence", "token", "policy", "binding", "session"}
Errors == {"AttestationVerificationError", "PolicyViolationError",
           "AttributeError", "TypeError"}

Init ==
  /\ policy \in Policy \cup {NoPolicy} /\ response \in Response
  /\ ekm \in Ekms /\ nonce \in Opt({Challenge})
  /\ step = "discover" /\ bundle = Absent /\ outage = FALSE

Proceed(next) == step' = next /\ UNCHANGED <<arguments, bundle, outage>>
Fail == Proceed("AttestationVerificationError")

-----------------------------------------------------------------------------
(* _enforce_policy, section by section. *)

HardwareOk(p, c) ==
  p.hw_model # Absent => p.hw_model \in Supported /\ c.hwmodel = p.hw_model

\* _parse_image_signatures
KeyIdsOf(c) == {s.key_id : s \in c.signatures} \ {Absent}
ExactOf(c) == {<<s.alg, s.key_id>> :
                 s \in {t \in c.signatures : t.key_id # Absent /\ t.alg # Absent}}

SignaturesOk(w, c) ==
  w.signing_key_id # Absent \/ w.image_signatures # {} =>
    /\ c.signatures # Malformed
    /\ w.signing_key_id # Absent => w.signing_key_id \in KeyIdsOf(c)
    /\ \A r \in w.image_signatures :
         r \in IF r \in KeyIds THEN KeyIdsOf(c) ELSE ExactOf(c)

WorkloadOk(p, c) ==
  p.workload # Absent =>
    /\ p.workload.image_hash # Absent => c.image_digest = p.workload.image_hash
    /\ SignaturesOk(p.workload, c)

\* Mutant of InstanceOk: an unset field must be unset in the token too.
InstanceEqual(p, c) == p.gce_instance # Absent => c.gce = p.gce_instance

InstanceOk(p, c) ==
  p.gce_instance # Absent =>
    \A f \in Fields : p.gce_instance[f] # Absent => c.gce[f] = p.gce_instance[f]

\* _validate_confidential_space_policy, _parse_support_attributes
SpaceOk(p, c) ==
  p.confidential_space # Absent =>
    /\ c.swname
    /\ p.confidential_space.debug_disabled => c.dbgstat
    /\ p.confidential_space.secboot => c.secboot
    /\ p.confidential_space.attributes # {} =>
         /\ c.attributes # Malformed
         /\ p.confidential_space.attributes \subseteq c.attributes

PolicyOk(p, c) ==
  c.nested /\ HardwareOk(p, c) /\ WorkloadOk(p, c) /\ InstanceOk(p, c) /\ SpaceOk(p, c)

-----------------------------------------------------------------------------
(* validate, check by check. *)

\* OIDCTokenValidator(): discovery, or its fallback, configures the issuer and
\* the JWKS; an answer that is not an object ends the call.
Discover ==
  /\ step = "discover"
  /\ \/ Proceed("evidence")
     \/ /\ step' = "AttributeError" /\ outage' = TRUE
        /\ UNCHANGED <<arguments, bundle>>

\* The positions of the GCA bundles.
Gca == {i \in DOMAIN response.evidence : response.evidence[i].gca}
First(S) == CHOOSE i \in S : \A j \in S : i <= j

\* Mutant of ExtractBundle: an empty token is not refused.
ExtractBundleUnchecked ==
  /\ step = "evidence"
  /\ \/ /\ Gca # {}
        /\ bundle' = response.evidence[First(Gca)].token
        /\ step' = "token"
        /\ UNCHANGED <<arguments, outage>>
     \/ Gca = {} /\ Fail

ExtractBundle ==
  /\ step = "evidence"
  /\ \/ /\ Gca # {} /\ response.evidence[First(Gca)].token # Absent
        /\ bundle' = response.evidence[First(Gca)].token
        /\ step' = "token"
        /\ UNCHANGED <<arguments, outage>>
     \/ ~(Gca # {} /\ response.evidence[First(Gca)].token # Absent) /\ Fail

\* Mutant of ExpectedAudience: the policy's audience is not passed on.
ExpectedAudienceDefault == DefaultAudience

ExpectedAudience ==
  IF policy.expected_audience # Absent THEN policy.expected_audience ELSE DefaultAudience

\* Mutant of ValidateToken: claims are decoded without verifying the token.
ValidateTokenDecoding ==
  /\ step = "token" /\ policy # NoPolicy
  /\ Proceed(IF bundle.aud = ExpectedAudience THEN "policy"
             ELSE "AttestationVerificationError")

\* _validate_oidc_token; the policy is read for its audience.
ValidateToken ==
  /\ step = "token"
  /\ \/ policy = NoPolicy /\ Proceed("AttributeError")
     \/ /\ policy # NoPolicy
        /\ \/ bundle.genuine /\ bundle.aud = ExpectedAudience /\ Proceed("policy")
           \/ ~(bundle.genuine /\ bundle.aud = ExpectedAudience) /\ Fail
           \/ /\ step' = "AttestationVerificationError" /\ outage' = TRUE
              /\ UNCHANGED <<arguments, bundle>>

EnforcePolicy ==
  /\ step = "policy"
  /\ Proceed(IF PolicyOk(policy, bundle.claims) THEN "binding" ELSE "PolicyViolationError")

Bound(nonces) ==
  {response.ecdsa, response.pqc} \subseteq nonces /\ (nonce # Absent => nonce \in nonces)

\* _verify_instance_key_binding
VerifyBinding ==
  /\ step = "binding"
  /\ LET present == response.ecdsa # Absent /\ response.pqc # Absent
         nonces == bundle.claims.eat_nonce
     IN  \/ present /\ nonces = Malformed /\ Proceed("TypeError")
         \/ present /\ nonces # Malformed /\ Bound(nonces) /\ Proceed("session")
         \/ ~(present /\ (nonces # Malformed => Bound(nonces))) /\ Fail

\* Mutant of Verifies: the payload leaves out the token.
VerifiesEkm(s, key, kind) == s # Absent /\ key \in kind /\ s.by = key /\ s.ekm = ekm

\* A signature over the payload made of our keying material and the token.
Verifies(s, key, kind) ==
  s # Absent /\ key \in kind /\ s = [by |-> key, ekm |-> ekm, token |-> bundle]

\* _verify_session_signature, _verify_session_signature_mldsa
VerifySession ==
  /\ step = "session"
  /\ LET verified == /\ Verifies(response.sig, response.ecdsa, EcKeys)
                     /\ Verifies(response.pqcSig, response.pqc, MlDsaKeys)
     IN  Proceed(IF verified THEN "accepted" ELSE "AttestationVerificationError")

Next ==
  \/ Discover \/ ExtractBundle \/ ValidateToken \/ EnforcePolicy
  \/ VerifyBinding \/ VerifySession

Spec == Init /\ [][Next]_vars

-----------------------------------------------------------------------------
(* Properties. *)

\* Type invariant; from the first check of a token on there is one.
TypeOK ==
  /\ policy \in Policy \cup {NoPolicy} /\ response \in Response
  /\ ekm \in Opt(Ekms) /\ nonce \in Opt({Challenge})
  /\ step \in Checks \cup Errors \cup {"accepted"}
  /\ bundle \in Opt(Token)
  /\ step \in {"token", "policy", "binding", "session", "accepted"} => bundle # Absent
  /\ outage \in BOOLEAN

\* What a policy requires and what claims state, as sets: the reference that
\* _enforce_policy is compared with.
Requirements(p) ==
  LET w == p.workload
      g == p.gce_instance
      s == p.confidential_space
  IN  UNION {
        IF p.hw_model = Absent THEN {} ELSE {<<"hwmodel", p.hw_model>>},
        IF w = Absent THEN {} ELSE
          {<<"image_digest", d>> : d \in {w.image_hash} \ {Absent}}
            \cup {<<"signature", k>> :
                     k \in w.image_signatures \cup ({w.signing_key_id} \ {Absent})},
        IF g = Absent THEN {} ELSE
          {<<f, g[f]>> : f \in {e \in Fields : g[e] # Absent}},
        IF s = Absent THEN {} ELSE
          {<<"confidential_space">>} \cup {<<"attribute", a>> : a \in s.attributes}
            \cup {<<"debug_disabled">> : x \in {TRUE} \cap {s.debug_disabled}}
            \cup {<<"secboot">> : x \in {TRUE} \cap {s.secboot}}}

Facts(c) ==
  UNION {
    {<<"hwmodel", m>> : m \in {c.hwmodel} \cap Supported},
    {<<"image_digest", c.image_digest>>},
    {<<f, c.gce[f]>> : f \in Fields},
    IF c.signatures = Malformed THEN {} ELSE
      {<<"signature", s.key_id>> : s \in c.signatures}
        \cup {<<"signature", <<s.alg, s.key_id>> >> : s \in c.signatures},
    IF c.attributes = Malformed THEN {} ELSE {<<"attribute", a>> : a \in c.attributes},
    {<<"confidential_space">> : x \in {TRUE} \cap {c.swname}},
    {<<"debug_disabled">> : x \in {TRUE} \cap {c.dbgstat}},
    {<<"secboot">> : x \in {TRUE} \cap {c.secboot}}}

Satisfies(t) == t.claims.nested /\ Requirements(policy) \subseteq Facts(t.claims)

\* ARCHITECTURE.md, "Chain of Trust": the issuer vouches for the workload and
\* for two keys of the right kinds, and both signed our session and this token.
Chain(t) ==
  /\ t.genuine /\ Satisfies(t)
  /\ t.aud = IF policy.expected_audience = Absent
               THEN DefaultAudience ELSE policy.expected_audience
  /\ t.claims.eat_nonce # Malformed
  /\ ({nonce} \ {Absent}) \subseteq t.claims.eat_nonce
  /\ response.ecdsa \in EcKeys \cap t.claims.eat_nonce
  /\ response.pqc \in MlDsaKeys \cap t.claims.eat_nonce
  /\ response.sig = [by |-> response.ecdsa, ekm |-> ekm, token |-> t]
  /\ response.pqcSig = [by |-> response.pqc, ekm |-> ekm, token |-> t]
Presented == {response.evidence[i].token : i \in Gca}

\* validate accepts only a response with an unbroken chain of trust, whichever
\* of its pieces the server mixed from elsewhere.
AcceptsOnlyEndorsed ==
  step = "accepted" => \E t \in Presented \ {Absent} : Chain(t)

\* A response whose only GCA bundle completes the chain is accepted, unless the
\* issuer could not be reached.
EndorsedIsAccepted ==
  step \in Errors /\ ~outage /\ policy # NoPolicy =>
    ~\E t \in Presented \ {Absent} : Presented = {t} /\ Chain(t)

\* A PolicyViolationError reports what a verified token says, never what an
\* unverified one does, and never a policy that was satisfied.
ViolationsAreVerified ==
  step = "PolicyViolationError" => bundle.genuine /\ ~Satisfies(bundle)

\* A policy with one requirement less.
Relaxed(p) ==
  {[p EXCEPT !.hw_model = Absent], [p EXCEPT !.workload = Absent],
   [p EXCEPT !.gce_instance = Absent], [p EXCEPT !.confidential_space = Absent]}
    \cup (IF p.workload = Absent THEN {} ELSE
            {[p EXCEPT !.workload.image_hash = Absent],
             [p EXCEPT !.workload.signing_key_id = Absent]}
              \cup {[p EXCEPT !.workload.image_signatures = @ \ {r}] :
                       r \in p.workload.image_signatures})
    \cup (IF p.gce_instance = Absent THEN {} ELSE
            {[p EXCEPT !.gce_instance[f] = Absent] : f \in Fields})
    \cup (IF p.confidential_space = Absent THEN {} ELSE
            {[p EXCEPT !.confidential_space.debug_disabled = FALSE],
             [p EXCEPT !.confidential_space.secboot = FALSE]}
              \cup {[p EXCEPT !.confidential_space.attributes = @ \ {a}] :
                       a \in p.confidential_space.attributes})

\* "Strict validation" of _enforce_policy: a field that is not set demands
\* nothing, so a token that satisfies a policy satisfies every weaker one.
WeakerAcceptsMore ==
  step = "binding" => \A p \in Relaxed(policy) : PolicyOk(p, bundle.claims)

\* client/validator.py:397, "No attestation policy configured; skipping
\* enforcement.": a connection without a policy is validated without one.
PolicyIsOptional ==
  policy = NoPolicy /\ ~outage => step # "AttributeError"
=============================================================================
