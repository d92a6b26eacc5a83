---------------------------- MODULE HandshakeProofs ----------------------------
(***************************************************************************)
(* A handshake ends in acceptance if and only if it is sound, and what is  *)
(* accepted was made for it, whichever policies, sessions, nonces, keys    *)
(* and tokens there are.                                                   *)
(***************************************************************************)
EXTENDS Handshake, ValidatorProofs

USE DEF vars, arguments, handshake, given, judgement

Asked == [session |-> asked.session, context |-> asked.nonce]
Mine == [session |-> mine.session, context |-> mine.nonce]

\* The material each end has, by the phase, and that an accepted signature covers
\* the client's.
Fresh ==
  /\ phase \in {"sign", "answered", "read", "validate"} => material = Asked
  /\ phase \in {"answered", "read", "validate"} => response.sig.ekm = material
  /\ phase = "validate" => ekm = Mine
  /\ phase # "validate" => step = "discover"
  /\ step = "accepted" => response.sig.ekm = ekm

LEMMA FreshInit == HandshakeInit => Fresh
  BY DEF HandshakeInit, Fresh

LEMMA FreshServer ==
  ASSUME Fresh, TakeRequest \/ ExportNatively \/ ExportByExtension \/ Sign
  PROVE  Fresh'
<1> USE DEF Fresh, Asked, Mine, Goes, Refuse
<1>1. CASE TakeRequest
  BY <1>1 DEF TakeRequest
<1>2. CASE ExportNatively
  BY <1>2 DEF ExportNatively
<1>3. CASE ExportByExtension
  BY <1>3 DEF ExportByExtension, Extension
<1>4. CASE Sign
  <2>1. CASE phase' = "answered"
    BY <1>4, <2>1 DEF Sign
  <2>2. CASE phase' # "answered"
    BY <1>4, <2>2 DEF Sign
  <2>. QED  BY <2>1, <2>2
<1>. QED  BY <1>1, <1>2, <1>3, <1>4

LEMMA FreshClient ==
  ASSUME Fresh, ReadAnswer \/ ExportOwn
  PROVE  Fresh'
<1> USE DEF Fresh, Asked, Mine, Goes
<1>1. CASE ReadAnswer
  BY <1>1 DEF ReadAnswer
<1>2. CASE ExportOwn
  BY <1>2 DEF ExportOwn, Extension
<1>. QED  BY <1>1, <1>2

\* validate only ends in acceptance after it has verified the signature.
LEMMA FreshValidation ==
  ASSUME Fresh, phase = "validate", Next, UNCHANGED handshake
  PROVE  Fresh'
<1> USE DEF Proceed, Fail
<1>1. UNCHANGED arguments /\ (step' = "accepted" => response.sig.ekm = ekm)
  <2>1. CASE VerifySession
    BY <2>1 DEF VerifySession, Verifies
  <2>2. CASE Discover \/ ExtractBundle \/ ValidateToken \/ EnforcePolicy \/ VerifyBinding
    BY <2>2 DEF Discover, ExtractBundle, ValidateToken, EnforcePolicy, VerifyBinding
  <2>. QED  BY <2>1, <2>2 DEF Next
<1>. QED  BY <1>1 DEF Fresh, Asked, Mine

LEMMA FreshStep == Fresh /\ [HandshakeNext]_<<handshake, vars>> => Fresh'
<1> SUFFICES ASSUME Fresh, [HandshakeNext]_<<handshake, vars>>  PROVE Fresh'
  OBVIOUS
<1>1. CASE HandshakeNext
  BY <1>1, FreshServer, FreshClient, FreshValidation DEF HandshakeNext
<1>2. CASE UNCHANGED <<handshake, vars>>
  BY <1>2 DEF Fresh, Asked, Mine
<1>. QED  BY <1>1, <1>2

\* An answer made for another session, or for another nonce, is never accepted.
THEOREM AcceptedAnswersAreFresh == HandshakeSpec => []AcceptanceIsFresh
<1>1. Fresh => AcceptanceIsFresh
  <2> SUFFICES ASSUME Fresh, step = "accepted"
      PROVE  asked.session = mine.session /\ asked.nonce = mine.nonce
    BY DEF AcceptanceIsFresh
  <2>1. Asked = Mine
    BY DEF Fresh
  <2>2. Asked.session = Mine.session /\ Asked.context = Mine.context
    BY <2>1
  <2>. QED  BY <2>2 DEF Asked, Mine
<1>. QED  BY FreshInit, FreshStep, <1>1, PTL DEF HandshakeSpec

-----------------------------------------------------------------------------
(* The whole handshake. *)

\* What no step changes.
Inputs ==
  /\ mine \in [session: TlsSessions, nonce: Nonces]
  /\ asked \in [session: TlsSessions, nonce: Nonces, wellFormed: BOOLEAN,
                types: SUBSET {GCA, OtherType}]
  /\ ends \in [server: Injected, native: Native, client: Injected]
  /\ identity \in Identity
  /\ nonce = Absent

\* What attest_connection answers.
Answer ==
  LET i == identity
      SignedBy(k) == [by |-> k, ekm |-> Asked, token |-> i.token]
  IN  [evidence |-> << [gca |-> TRUE, token |-> i.token] >>,
       ecdsa |-> i.ecdsaPub, pqc |-> i.pqcPub,
       sig |-> SignedBy(i.ecdsaPriv), pqcSig |-> SignedBy(i.pqcPriv)]

Complete ==
  /\ identity.ecdsaPub \in Keys /\ identity.pqcPub \in Keys
  /\ identity.ecdsaPriv \in Keys /\ identity.pqcPriv \in Keys
  /\ identity.token \in Opt(Token) \ {Malformed}

\* Each phase is reached with the parts before it sound, and given up with one
\* that is not.
Progress ==
  /\ phase \in Phases /\ material \in Opt(Material)
  /\ phase \notin {"request", "refused", "failed"} =>
       asked.wellFormed /\ ends.server # << >> /\ asked.types # {}
  /\ phase = "extension" => ends.native # "works"
  /\ phase \in {"sign", "answered", "read", "validate"} =>
       ends.native = "works" \/ Innermost(ends.server) = "_SSLSocket"
  /\ phase \in {"answered", "read", "validate"} =>
       asked.types = {GCA} /\ Complete /\ response = Answer
  /\ phase = "validate" => Innermost(ends.client) = "_SSLSocket"
  /\ phase \in {"refused", "failed"} => ~Sound

Inv == Inputs /\ TypeOK /\ Judged /\ EndorsedIsAccepted /\ Fresh /\ Progress

LEMMA MaterialTypes == Inputs => Asked \in Material /\ Mine \in Material
  BY DEF Inputs, Material, Asked, Mine

LEMMA InvInit == HandshakeInit => Inv
<1> SUFFICES ASSUME HandshakeInit  PROVE Inv
  OBVIOUS
<1>1. Blank \in Response
  BY DEF Blank, Response, Opt
<1>2. Inputs /\ TypeOK
  BY <1>1 DEF HandshakeInit, Inputs, TypeOK, Checks, Opt
<1>3. Judged /\ EndorsedIsAccepted /\ Progress
  BY DEF HandshakeInit, Judged, EndorsedIsAccepted, Errors, Progress, Phases, Opt
<1>. QED  BY <1>2, <1>3, FreshInit DEF Inv

\* Nothing before the validation touches the judgement, or what it is about.
LEMMA SameSound ==
  ASSUME UNCHANGED <<given, policy>>
  PROVE  Sound' <=> Sound
<1>1. Whole' <=> Whole
  BY DEF Whole
<1>2. Satisfies(identity.token)' <=> Satisfies(identity.token)
  BY DEF Satisfies
<1>3. ExpectedAudience' = ExpectedAudience
  BY DEF ExpectedAudience
<1>. QED  BY <1>1, <1>2, <1>3 DEF Sound

LEMMA EarlyStep ==
  ASSUME Inv, TypeOK', UNCHANGED <<given, judgement>>, phase # "validate"
  PROVE  Inputs' /\ Judged' /\ EndorsedIsAccepted'
<1>1. step' = "discover"
  BY DEF Inv, Fresh
<1>. QED  BY <1>1 DEF Inv, Inputs, Judged, EndorsedIsAccepted, Errors

\* One level of wrapping or all of them: the innermost object is the same.
LEMMA UnwrappedInnermost ==
  ASSUME NEW o \in Injected, o # << >>
  PROVE  Innermost(Unwrapped(o)) = Innermost(o)
<1>1. PICK a, b : o = <<a, b>>
  BY DEF Injected
<1>2. Len(o) = 2 /\ Tail(o) = <<b>> /\ o[2] = b
  BY <1>1
<1>3. Tail(o) # << >> /\ Len(Tail(o)) = 1 /\ Tail(o)[1] = b
  BY <1>2
<1>. QED  BY <1>2, <1>3 DEF Innermost, Unwrapped


LEMMA TakeRequestInv == ASSUME Inv, TakeRequest  PROVE Inv'
<1> USE DEF TakeRequest, Goes, Refuse
<1>1. Fresh'
  BY FreshServer DEF Inv
<1>2. TypeOK'
  BY DEF Inv, TypeOK
<1>3. Inputs' /\ Judged' /\ EndorsedIsAccepted'
  BY <1>2, EarlyStep
<1>4. Sound' <=> Sound
  BY SameSound
<1>5. asked.types = {GCA} => asked.types # {}
  OBVIOUS
<1>6. Progress'
  BY <1>4, <1>5 DEF Inv, Progress, Phases, Sound
<1>. QED  BY <1>1, <1>2, <1>3, <1>6 DEF Inv

LEMMA ExportNativelyInv == ASSUME Inv, ExportNatively  PROVE Inv'
<1> USE DEF ExportNatively, Goes
<1>1. Fresh'
  BY FreshServer DEF Inv
<1>2. TypeOK'
  BY DEF Inv, TypeOK
<1>3. Inputs' /\ Judged' /\ EndorsedIsAccepted'
  BY <1>2, EarlyStep
<1>4. material' \in Opt(Material)
  BY MaterialTypes DEF Inv, Progress, Opt, Asked
<1>5. Progress'
  BY <1>4 DEF Inv, Progress, Phases
<1>. QED  BY <1>1, <1>2, <1>3, <1>5 DEF Inv

LEMMA ExportByExtensionInv == ASSUME Inv, ExportByExtension  PROVE Inv'
<1> USE DEF ExportByExtension, Goes, Refuse
<1>1. Fresh'
  BY FreshServer DEF Inv
<1>2. TypeOK'
  BY DEF Inv, TypeOK
<1>3. Inputs' /\ Judged' /\ EndorsedIsAccepted'
  BY <1>2, EarlyStep
<1>4. Sound' <=> Sound
  BY SameSound
<1>5. Innermost(Unwrapped(ends.server)) = Innermost(ends.server)
  BY UnwrappedInnermost DEF Inv, Inputs, Progress
<1>6. Asked \in Material /\ Asked # Absent
  BY MaterialTypes, MaterialAssumption DEF Inv
<1>7. IF Innermost(ends.server) = "_SSLSocket"
        THEN material' = Asked /\ phase' = "sign"
        ELSE phase' = "refused" /\ UNCHANGED material
  BY <1>5, <1>6 DEF Extension, Asked
<1>8. Progress'
  BY <1>4, <1>6, <1>7 DEF Inv, Progress, Phases, Sound, Opt
<1>. QED  BY <1>1, <1>2, <1>3, <1>8 DEF Inv

\* The answer is complete, or the identity was not whole.
LEMMA SignInv == ASSUME Inv, Sign  PROVE Inv'
<1>1. Fresh'
  BY FreshServer DEF Inv
<1>2. UNCHANGED <<given, judgement, material, ekm>>
  BY DEF Sign, Goes, Refuse
<1>3. Sound' <=> Sound
  BY <1>2, SameSound
<1>4. Absent \notin Keys
  BY AbsentAssumption
<1>5. CASE phase' = "answered"
  <2>1. /\ Absent \notin {identity.ecdsaPub, identity.pqcPub, identity.ecdsaPriv, identity.pqcPriv}
        /\ asked.types = {GCA} /\ identity.token # Malformed /\ phase = "sign"
    BY <1>5 DEF Sign, Goes, Refuse
  <2>2. material = Asked
    BY <2>1 DEF Inv, Fresh
  <2>3. response' = Answer
    BY <1>5, <2>2 DEF Sign, Goes, Refuse, Answer
  <2>4. Complete
    BY <2>1 DEF Inv, Inputs, Identity, Opt, Complete
  <2>5. response' \in Response
    <3>1. Asked \in Ekms
      BY MaterialTypes, MaterialAssumption DEF Inv
    <3>. QED  BY <2>3, <2>4, <3>1 DEF Answer, Complete, Response, Evidence, Signature, Opt
  <2>6. TypeOK'
    BY <1>2, <2>5 DEF Inv, TypeOK
  <2>7. Inputs' /\ Judged' /\ EndorsedIsAccepted'
    BY <1>2, <2>1, <2>6, EarlyStep
  <2>8. Answer' = Answer /\ Complete' = Complete
    BY <1>2 DEF Answer, Complete, Asked
  <2>9. Progress'
    BY <1>2, <1>5, <2>1, <2>3, <2>4, <2>8 DEF Inv, Progress, Phases
  <2>. QED  BY <1>1, <2>6, <2>7, <2>9 DEF Inv
<1>6. CASE phase' # "answered"
  <2>1. ~(/\ Absent \notin {identity.ecdsaPub, identity.pqcPub,
                           identity.ecdsaPriv, identity.pqcPriv}
          /\ asked.types = {GCA} /\ identity.token # Malformed)
        /\ phase' = "refused" /\ phase = "sign" /\ UNCHANGED arguments
    BY <1>6 DEF Sign, Goes, Refuse
  <2>2. ~Sound
    BY <1>4, <2>1, KeyAssumption DEF Sound, Whole
  <2>3. TypeOK'
    BY <1>2, <2>1 DEF Inv, TypeOK
  <2>4. Inputs' /\ Judged' /\ EndorsedIsAccepted'
    BY <1>2, <2>1, <2>3, EarlyStep
  <2>5. Progress'
    BY <1>2, <1>3, <2>1, <2>2 DEF Inv, Progress, Phases
  <2>. QED  BY <1>1, <2>3, <2>4, <2>5 DEF Inv
<1>. QED  BY <1>5, <1>6

LEMMA ReadAnswerInv == ASSUME Inv, ReadAnswer  PROVE Inv'
<1> USE DEF ReadAnswer, Goes
<1>1. Fresh'
  BY FreshClient DEF Inv
<1>2. TypeOK'
  BY DEF Inv, TypeOK
<1>3. Inputs' /\ Judged' /\ EndorsedIsAccepted'
  BY <1>2, EarlyStep
<1>4. (Sound' <=> Sound) /\ Answer' = Answer /\ Complete' = Complete
  BY SameSound DEF Answer, Complete, Asked
<1>5. Progress'
  BY <1>4 DEF Inv, Progress, Phases
<1>. QED  BY <1>1, <1>2, <1>3, <1>5 DEF Inv

LEMMA ExportOwnInv == ASSUME Inv, ExportOwn  PROVE Inv'
<1> USE DEF ExportOwn, Goes
<1>1. Fresh'
  BY FreshClient DEF Inv
<1>2. Mine \in Ekms /\ Mine # Absent
  BY MaterialTypes, MaterialAssumption DEF Inv
<1>3. IF Innermost(ends.client) = "_SSLSocket"
        THEN ekm' = Mine /\ phase' = "validate"
        ELSE phase' = "failed" /\ UNCHANGED ekm
  BY <1>2 DEF Extension, Mine
<1>4. TypeOK'
  BY <1>2, <1>3 DEF Inv, TypeOK, Opt
<1>5. Inputs' /\ Judged' /\ EndorsedIsAccepted'
  BY <1>4, EarlyStep
<1>6. (Sound' <=> Sound) /\ Answer' = Answer /\ Complete' = Complete
  BY SameSound DEF Answer, Complete, Asked
<1>7. Progress'
  BY <1>3, <1>6 DEF Inv, Progress, Phases, Sound
<1>. QED  BY <1>1, <1>4, <1>5, <1>7 DEF Inv

LEMMA ValidationInv ==
  ASSUME Inv, phase = "validate", Next, UNCHANGED handshake
  PROVE  Inv'
<1>1. Fresh' /\ TypeOK' /\ Judged'
  BY FreshValidation, TypeNext, JudgedNext DEF Inv
<1>2. ekm \in Ekms
  BY MaterialTypes, MaterialAssumption DEF Inv, Fresh
<1>3. EndorsedIsAccepted'
  BY <1>2, EndorsedNext DEF Inv
<1>4. UNCHANGED arguments
  BY DEF Next, Discover, ExtractBundle, ValidateToken, EnforcePolicy, VerifyBinding,
         VerifySession, Proceed, Fail
<1>5. Inputs'
  BY <1>4 DEF Inv, Inputs
<1>6. (Sound' <=> Sound) /\ Answer' = Answer /\ Complete' = Complete
  BY <1>4, SameSound DEF Answer, Complete, Asked
<1>7. Progress'
  BY <1>4, <1>6 DEF Inv, Progress
<1>. QED  BY <1>1, <1>3, <1>5, <1>7 DEF Inv

LEMMA InvStep == Inv /\ [HandshakeNext]_<<handshake, vars>> => Inv'
<1> SUFFICES ASSUME Inv, [HandshakeNext]_<<handshake, vars>>  PROVE Inv'
  OBVIOUS
<1>1. CASE HandshakeNext
  BY <1>1, TakeRequestInv, ExportNativelyInv, ExportByExtensionInv, SignInv, ReadAnswerInv,
     ExportOwnInv, ValidationInv DEF HandshakeNext
<1>2. CASE UNCHANGED <<handshake, vars>>
  <2>1. (Sound' <=> Sound) /\ Answer' = Answer /\ Complete' = Complete
    BY <1>2, SameSound DEF Answer, Complete, Asked
  <2>2. Inputs' /\ TypeOK' /\ Fresh' /\ Progress'
    BY <1>2, <2>1, FreshStep DEF Inv, Inputs, TypeOK, Progress
  <2>3. Judged' /\ EndorsedIsAccepted'
    BY <1>2, JudgedStep, SameChain DEF Inv, EndorsedIsAccepted
  <2>. QED  BY <2>2, <2>3 DEF Inv
<1>. QED  BY <1>1, <1>2

\* Every step of a handshake leaves its variables in their types.
THEOREM HandshakeTypeCorrect == HandshakeSpec => []HandshakeTypeOK
<1>1. Inv => HandshakeTypeOK
  <2> SUFFICES ASSUME Inv  PROVE HandshakeTypeOK
    OBVIOUS
  <2>1. Asked # Absent /\ Mine # Absent
    BY MaterialTypes, MaterialAssumption DEF Inv
  <2>. QED  BY <2>1 DEF Inv, Fresh, Progress, HandshakeTypeOK
<1>. QED  BY InvInit, InvStep, <1>1, PTL DEF HandshakeSpec

LEMMA PresentedIsTheToken ==
  ASSUME Inv, phase = "validate"
  PROVE  Presented = {identity.token}
<1>1. response.evidence = << [gca |-> TRUE, token |-> identity.token] >>
  BY DEF Inv, Progress, Answer
<1>2. Gca = {1}
  BY <1>1 DEF Gca
<1>. QED  BY <1>1, <1>2 DEF Presented

\* Of what attest_connection answers, the chain is what the parts are.
LEMMA ChainIsSound ==
  ASSUME Inv, phase = "validate", policy # NoPolicy, identity.token # Absent
  PROVE  Chain(identity.token) <=> Sound
<1>1. response = Answer /\ Complete /\ asked.types = {GCA} /\ ekm = Mine
  BY DEF Inv, Progress, Fresh
<1>3. Asked = Mine <=> asked.session = mine.session /\ asked.nonce = mine.nonce
  <2>1. /\ Asked.session = asked.session /\ Asked.context = asked.nonce
        /\ Mine.session = mine.session /\ Mine.context = mine.nonce
    BY DEF Asked, Mine
  <2>. QED  BY <2>1 DEF Asked, Mine
<1>4. /\ response.ecdsa = identity.ecdsaPub /\ response.pqc = identity.pqcPub
      /\ response.sig = [by |-> identity.ecdsaPriv, ekm |-> Asked, token |-> identity.token]
      /\ response.pqcSig = [by |-> identity.pqcPriv, ekm |-> Asked, token |-> identity.token]
  BY <1>1 DEF Answer
<1>5. \A k, l, e, f, t : [by |-> k, ekm |-> e, token |-> t] = [by |-> l, ekm |-> f, token |-> t]
                           <=> k = l /\ e = f
  <2> SUFFICES ASSUME NEW k, NEW l, NEW e, NEW f, NEW t,
                      [by |-> k, ekm |-> e, token |-> t] = [by |-> l, ekm |-> f, token |-> t]
      PROVE  k = l /\ e = f
    OBVIOUS
  <2> DEFINE r == [by |-> k, ekm |-> e, token |-> t]
             s == [by |-> l, ekm |-> f, token |-> t]
  <2>1. r.by = k /\ r.ekm = e /\ s.by = l /\ s.ekm = f
    OBVIOUS
  <2>. QED  BY <2>1
<1>6. /\ asked.wellFormed /\ ends.server # << >>
      /\ ends.native = "works" \/ Innermost(ends.server) = "_SSLSocket"
      /\ Innermost(ends.client) = "_SSLSocket"
  BY DEF Inv, Progress
<1>7. identity.token \notin {Absent, Malformed} /\ nonce = Absent
  BY <1>1 DEF Inv, Inputs, Complete, Opt
<1>8. Chain(identity.token) <=>
        /\ identity.token.genuine /\ Satisfies(identity.token)
        /\ identity.token.aud = ExpectedAudience
        /\ Whole /\ Asked = Mine
  BY <1>1, <1>4, <1>5, <1>7 DEF Chain, ExpectedAudience, Whole
<1>. QED  BY <1>1, <1>3, <1>6, <1>7, <1>8 DEF Sound

\* With the issuer in reach a handshake is accepted if and only if its request,
\* both exports and the server's identity are sound.
THEOREM HandshakesAreSound == HandshakeSpec => []AcceptedWhenSound
<1>1. Inv => AcceptedWhenSound
  <2> SUFFICES ASSUME Inv, ~outage, phase = "failed" \/ step \in Errors \cup {"accepted"}
      PROVE  step = "accepted" <=> Sound
    BY DEF AcceptedWhenSound
  <2>1. CASE phase = "failed"
    BY <2>1 DEF Inv, Fresh, Progress
  <2>2. CASE phase # "failed"
    <3>1. phase = "validate"
      BY <2>2 DEF Inv, Fresh, Errors
    <3>2. CASE step = "accepted"
      <4>1. /\ bundle = response.evidence[First(Gca)].token /\ First(Gca) \in Gca
            /\ bundle # Absent /\ policy # NoPolicy
        BY <3>2, FirstIsGca DEF Inv, TypeOK, Judged
      <4>2. bundle \in Presented
        BY <4>1 DEF Presented
      <4>3. AcceptsOnlyEndorsed
        BY <3>2, JudgedIsEndorsed DEF Inv
      <4>. QED
        BY <4>1, <4>2, <4>3, <3>1, <3>2, PresentedIsTheToken, ChainIsSound
        DEF AcceptsOnlyEndorsed
    <3>3. CASE step # "accepted"
      <4> SUFFICES ASSUME Sound  PROVE FALSE
        BY <3>3
      <4>1. identity.token \notin {Absent, Malformed} /\ policy # NoPolicy
        BY DEF Sound, Whole
      <4>. QED  BY <4>1, <3>1, <3>3, PresentedIsTheToken, ChainIsSound DEF Inv, EndorsedIsAccepted
    <3>. QED  BY <3>2, <3>3
  <2>. QED  BY <2>1, <2>2
<1>. QED  BY InvInit, InvStep, <1>1, PTL DEF HandshakeSpec

=============================================================================
