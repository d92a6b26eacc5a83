----------------------------- MODULE MCValidator -----------------------------
\* Inputs of validate for TLC: first each section of the policy against every
\* claim it reads, then one policy against every mix of evidence, keys and
\* signatures, then whole handshakes.  Each is a bounded part of Init.
EXTENDS Handshake

CONSTANTS ec, ec2, mldsa, mldsa2, sev, tdx, default, custom, v1, v2, id1, id2, alg,
  stable, latest, s1, s2, n1, n2
ekm1 == [session |-> s1, context |-> n1]
ekm2 == [session |-> s2, context |-> n1]

Permissive == [hw_model |-> Absent, workload |-> Absent, gce_instance |-> Absent,
               confidential_space |-> Absent, expected_audience |-> Absent]
Plain == [eat_nonce |-> {ec, mldsa, Challenge}, nested |-> TRUE, hwmodel |-> sev,
          image_digest |-> v1, signatures |-> {}, gce |-> [f \in Fields |-> v1],
          swname |-> TRUE, dbgstat |-> TRUE, secboot |-> TRUE, attributes |-> {stable}]
Good == [genuine |-> TRUE, aud |-> default, claims |-> Plain]
Bundle(t) == [gca |-> TRUE, token |-> t]

\* The response of an honest server whose token is t, on the session ekm1.
Honest(t) ==
  response = [evidence |-> <<Bundle(t)>>, ecdsa |-> ec, pqc |-> mldsa,
              sig |-> [by |-> ec, ekm |-> ekm1, token |-> t],
              pqcSig |-> [by |-> mldsa, ekm |-> ekm1, token |-> t]]
HonestClaims(c) == Honest([Good EXCEPT !.claims = c])

\* validate is called with what any server answered.
Called(n) ==
  /\ ekm = ekm1 /\ nonce \in n /\ step = "discover" /\ bundle = Absent /\ outage = FALSE
  /\ mine = Absent /\ asked = Absent /\ ends = Absent /\ identity = Absent
  /\ phase = "validate" /\ material = Absent

WithoutPolicy == policy = NoPolicy /\ Honest(Good)

Hardware ==
  \E m \in Opt(Models), a \in Opt(Audiences), n \in Opt(Models), x \in BOOLEAN :
    /\ policy = [Permissive EXCEPT !.hw_model = m, !.expected_audience = a]
    /\ \E b \in Audiences :
         Honest([Good EXCEPT !.aud = b, !.claims.hwmodel = n, !.claims.nested = x])

WorkloadPolicy ==
  /\ \E w \in [image_hash: {Absent, v1}, signing_key_id: {Absent, id1},
               image_signatures: SUBSET {id1, id2, <<alg, id1>>}] :
       policy = [Permissive EXCEPT !.workload = w]
  /\ \E d \in Opt(Values), s \in SUBSET Signed \cup {Malformed} :
       HonestClaims([Plain EXCEPT !.image_digest = d, !.signatures = s])

GceInstance ==
  /\ \E g \in [Fields -> {Absent, v1}] : policy = [Permissive EXCEPT !.gce_instance = g]
  /\ \E h \in Instance : HonestClaims([Plain EXCEPT !.gce = h])

ConfidentialSpace ==
  /\ \E s \in Space : policy = [Permissive EXCEPT !.confidential_space = s]
  /\ \E n \in BOOLEAN, d \in BOOLEAN, b \in BOOLEAN, a \in SUBSET Attrs \cup {Malformed} :
       HonestClaims([Plain EXCEPT !.swname = n, !.dbgstat = d, !.secboot = b,
                                  !.attributes = a])

\* A good token, one whose claims violate the policy, one that is forged too,
\* and one whose nonces are not strings.
Tokens == {Good, [Good EXCEPT !.claims.hwmodel = tdx, !.claims.eat_nonce = {ec}],
           [Good EXCEPT !.genuine = FALSE, !.claims.hwmodel = tdx],
           [Good EXCEPT !.claims.eat_nonce = {ec}],
           [Good EXCEPT !.claims.eat_nonce = Malformed]}
Foreign == [gca |-> FALSE, token |-> Absent]
Lists == {<< >>, <<Foreign>>} \cup
  UNION {{<<Bundle(t)>>, <<Foreign, Bundle(t)>>, <<Bundle(t), Bundle(Good)>>} :
           t \in Opt(Tokens)}

Binding ==
  /\ policy = [Permissive EXCEPT !.hw_model = sev]
  /\ \E l \in Lists, e \in Opt({ec, mldsa}), p \in Opt({ec, mldsa}) :
     \E s, q \in Opt([by: {ec, mldsa}, ekm: {ekm1, ekm2},
                      token: {Good, [Good EXCEPT !.claims.eat_nonce = {ec}]}]) :
       response = [evidence |-> l, ecdsa |-> e, pqc |-> p, sig |-> s, pqcSig |-> q]

\* A handshake of our client, with the answer to this or to another request.
Mine == [session |-> s1, nonce |-> n1]
Ours(t, w) == [session |-> s1, nonce |-> n1, wellFormed |-> w, types |-> t]
Connected == <<"SSLSocket", "_SSLSocket">>
Shaken ==
  /\ mine = Mine /\ phase = "request" /\ material = Absent
  /\ response = Blank /\ ekm = Absent /\ nonce = Absent
  /\ step = "discover" /\ bundle = Absent /\ outage = FALSE
  /\ policy = [Permissive EXCEPT !.hw_model = sev]

\* Every request and every pair of SSL objects, with one good identity ...
Transports ==
  /\ \/ \E t \in SUBSET {GCA, OtherType}, w \in BOOLEAN : asked = Ours(t, w)
     \/ \E s \in TlsSessions, n \in Nonces :
          asked = [Ours({GCA}, TRUE) EXCEPT !.session = s, !.nonce = n]
  /\ ends \in [server: Injected, native: Native, client: {<< >>, Connected}]
  /\ identity = [ecdsaPub |-> ec, pqcPub |-> mldsa, ecdsaPriv |-> ec, pqcPriv |-> mldsa,
                 token |-> Good]

\* ... and every identity that rotations, failures and restarts can leave.
Identities ==
  /\ asked = Ours({GCA}, TRUE)
  /\ ends = [server |-> <<"SSLObject", "_SSLSocket">>, native |-> "missing",
             client |-> Connected]
  /\ identity \in [ecdsaPub: Opt(EcKeys), pqcPub: Opt(MlDsaKeys),
                   ecdsaPriv: Opt(EcKeys), pqcPriv: Opt(MlDsaKeys),
                   token: {Absent, Malformed, Good,
                           [Good EXCEPT !.claims.eat_nonce = {ec2, mldsa2}],
                           [Good EXCEPT !.aud = custom], [Good EXCEPT !.claims.hwmodel = tdx],
                           [Good EXCEPT !.genuine = FALSE]}]

MCInit ==
  \/ (WithoutPolicy \/ Hardware \/ WorkloadPolicy \/ GceInstance \/ ConfidentialSpace)
       /\ Called({Absent})
  \/ Binding /\ Called({Absent, Challenge})
  \/ (Transports \/ Identities) /\ Shaken

MCSpec == MCInit /\ [][HandshakeNext]_<<handshake, vars>>
NoPolicySpec ==
  WithoutPolicy /\ Called({Absent}) /\ [][HandshakeNext]_<<handshake, vars>>
=============================================================================
