------------------------------ MODULE Handshake ------------------------------
(***************************************************************************)
(* One attestation handshake from end to end: the request, the middleware  *)
(* that takes it (server/asgi.py, server/wsgi.py), attest_connection       *)
(* (server/attestation.py), the export of keying material at both ends     *)
(* (ekm/exporter.py, ekm/_ekm.c), the answer, and the client's Validator.  *)
(* TokenManager and AttestedSession treat what is concurrent about it;     *)
(* here the answer may have been made for another request.                 *)
(***************************************************************************)
EXTENDS Validator

CONSTANTS
  TlsSessions,
  Nonces,         \* what _perform_attestation_handshake draws
  GCA, OtherType  \* values of the enum VerifierType

\* Keying material, by the session and the context it is exported for.
Material == [session: TlsSessions, context: Nonces]
ASSUME MaterialAssumption == Material \subseteq Ekms /\ Absent \notin Material

\* An SSL object and what it wraps in _sslobj, by their types; a socket that is
\* None, or that was never injected, is the empty sequence.  "unconnected" is
\* an _SSLSocket whose SSL pointer is null.
Injected ==
  {<< >>, <<"SSLObject", "_SSLSocket">>, <<"SSLSocket", "_SSLSocket">>,
   <<"SSLSocket", "NoneType">>, <<"SSLSocket", "unconnected">>}

\* Whether it has a method export_keying_material of its own.
Native == {"missing", "works", "raises"}

\* What a server holds: the halves of its keys and its token, which may be of
\* different rotations; a Malformed token does not decode.
Identity == [ecdsaPub: Opt(Keys), pqcPub: Opt(Keys), ecdsaPriv: Opt(Keys),
             pqcPriv: Opt(Keys), token: Opt(Token) \cup {Malformed}]

VARIABLES
  mine,      \* the session and the nonce of the client
  asked,     \* the session and the request that the answer was made for
  ends,      \* the SSL objects of both ends
  identity,  \* the server's
  phase,     \* where the handshake is
  material   \* what the server has exported

given == <<mine, asked, ends, identity>>
handshake == <<given, phase, material>>
judgement == <<policy, nonce, step, bundle, outage>>

Phases == {"request", "native", "extension", "sign", "answered", "refused", "read",
           "validate", "failed"}
Blank == [evidence |-> << >>, ecdsa |-> Absent, pqc |-> Absent,
          sig |-> Absent, pqcSig |-> Absent]

HandshakeInit ==
  /\ mine \in [session: TlsSessions, nonce: Nonces]
  /\ asked \in [session: TlsSessions, nonce: Nonces, wellFormed: BOOLEAN,
                types: SUBSET {GCA, OtherType}]
  /\ ends \in [server: Injected, native: Native, client: Injected]
  /\ identity \in Identity
  /\ phase = "request" /\ material = Absent
  /\ policy \in Policy /\ response = Blank /\ ekm = Absent /\ nonce = Absent
  /\ step = "discover" /\ bundle = Absent /\ outage = FALSE

-----------------------------------------------------------------------------
(* The export of keying material. *)

\* export_keying_material follows _sslobj to the innermost object, which must be
\* of a type of module _ssl ...
Innermost(o) == IF o = << >> THEN "NoneType" ELSE o[Len(o)]

\* Mutant of Extension: the context is not passed to OpenSSL.
ExtensionWithoutContext(o, session, context) ==
  IF Innermost(o) = "_SSLSocket"
    THEN [session |-> session, context |-> CHOOSE n \in Nonces : TRUE] ELSE Absent

\* ... and the extension asks OpenSSL, unless it is no connected _SSLSocket.
Extension(o, session, context) ==
  IF Innermost(o) = "_SSLSocket"
    THEN [session |-> session, context |-> context] ELSE Absent

-----------------------------------------------------------------------------
(* The server. *)

Goes(next) == phase' = next /\ UNCHANGED <<given, arguments, judgement>>

\* A 400 or a 500, by the kind of the exception; the client tells neither apart.
Refuse == Goes("refused") /\ UNCHANGED material

\* handle_attestation parses the body and looks for the SSL object that
\* TlsInjectorProtocol or PromptEncryptionGunicornWorker injected, and
\* attest_connection wants a verifier type.
TakeRequest ==
  /\ phase = "request"
  /\ \/ /\ asked.wellFormed /\ ends.server # << >> /\ asked.types # {}
        /\ Goes("native") /\ UNCHANGED material
     \/ ~(asked.wellFormed /\ ends.server # << >> /\ asked.types # {}) /\ Refuse

\* Mutant of ExportNatively: an error of the method is final.
ExportNativelyOnly ==
  /\ phase = "native"
  /\ \/ /\ ends.native = "works"
        /\ material' = [session |-> asked.session, context |-> asked.nonce]
        /\ Goes("sign")
     \/ ends.native = "raises" /\ Refuse
     \/ ends.native = "missing" /\ Goes("extension") /\ UNCHANGED material

\* The object's own method is tried first; that it is missing, or raises, is
\* made up for by the extension.
ExportNatively ==
  /\ phase = "native"
  /\ \/ /\ ends.native = "works"
        /\ material' = [session |-> asked.session, context |-> asked.nonce]
        /\ Goes("sign")
     \/ ends.native # "works" /\ Goes("extension") /\ UNCHANGED material

\* getattr(ssl_obj, "_sslobj", ssl_obj)
Unwrapped(o) == IF Len(o) > 1 THEN Tail(o) ELSE o

ExportByExtension ==
  /\ phase = "extension"
  /\ LET m == Extension(Unwrapped(ends.server), asked.session, asked.nonce)
     IN  \/ m # Absent /\ material' = m /\ Goes("sign")
         \/ m = Absent /\ Refuse

\* The snapshot, both signatures, and only then the verifier types and the
\* decoding of the token; a missing token is the empty string.
Sign ==
  /\ phase = "sign"
  /\ LET i == identity
         SignedBy(k) == [by |-> k, ekm |-> material, token |-> i.token]
         complete == Absent \notin {i.ecdsaPub, i.pqcPub, i.ecdsaPriv, i.pqcPriv}
     IN  \/ /\ complete /\ asked.types = {GCA} /\ i.token # Malformed
            /\ response' = [evidence |-> << [gca |-> TRUE, token |-> i.token] >>,
                            ecdsa |-> i.ecdsaPub, pqc |-> i.pqcPub,
                            sig |-> SignedBy(i.ecdsaPriv), pqcSig |-> SignedBy(i.pqcPriv)]
            /\ phase' = "answered"
            /\ UNCHANGED <<given, material, ekm, judgement>>
         \/ ~(complete /\ asked.types = {GCA} /\ i.token # Malformed) /\ Refuse

-----------------------------------------------------------------------------
(* The client. *)

\* _process_attestation_response: any status but 200 is an error.
ReadAnswer ==
  \/ phase = "answered" /\ Goes("read") /\ UNCHANGED material
  \/ phase = "refused" /\ Goes("failed") /\ UNCHANGED material

\* The client exports the material of its own session and nonce, if its socket
\* is still there.
ExportOwn ==
  /\ phase = "read"
  /\ LET m == Extension(ends.client, mine.session, mine.nonce)
     IN  \/ /\ m # Absent /\ ekm' = m /\ phase' = "validate"
            /\ UNCHANGED <<given, material, response, judgement>>
         \/ m = Absent /\ Goes("failed") /\ UNCHANGED material

HandshakeNext ==
  \/ TakeRequest \/ ExportNatively \/ ExportByExtension \/ Sign
  \/ ReadAnswer \/ ExportOwn
  \/ phase = "validate" /\ Next /\ UNCHANGED handshake

HandshakeSpec == HandshakeInit /\ [][HandshakeNext]_<<handshake, vars>>

-----------------------------------------------------------------------------
(* Properties. *)

\* Type invariant.
HandshakeTypeOK ==
  /\ TypeOK
  /\ phase \in Phases
  /\ material \in Opt(Material)
  /\ phase = "validate" => ekm # Absent
  /\ phase \in {"sign", "answered", "read"} => material # Absent

\* What the client accepts was made for this very handshake: an answer to
\* another session's request, or to an earlier nonce of the same session, is
\* refused, whichever way either end exported its keying material.
AcceptanceIsFresh ==
  asked # Absent /\ step = "accepted" =>
    asked.session = mine.session /\ asked.nonce = mine.nonce

\* One pair, one token that binds it: what TokenManager calls coherent.
Whole ==
  LET i == identity
  IN  /\ i.ecdsaPub = i.ecdsaPriv /\ i.pqcPub = i.pqcPriv
      /\ i.ecdsaPub \in EcKeys /\ i.pqcPub \in MlDsaKeys
      /\ i.token \notin {Absent, Malformed}
      /\ i.token.claims.eat_nonce # Malformed
      /\ {i.ecdsaPub, i.pqcPub} \subseteq i.token.claims.eat_nonce

\* The request was ours and proper, both ends can export, and the identity is
\* whole, genuine and in keeping with the policy.
Sound ==
  /\ asked.session = mine.session /\ asked.nonce = mine.nonce
  /\ asked.wellFormed /\ asked.types = {GCA}
  /\ ends.server # << >>
  /\ ends.native = "works" \/ Innermost(ends.server) = "_SSLSocket"
  /\ Innermost(ends.client) = "_SSLSocket"
  /\ policy # NoPolicy
  /\ Whole /\ identity.token.genuine /\ Satisfies(identity.token)
  /\ identity.token.aud = ExpectedAudience

\* A handshake is exactly as good as its parts.  When the issuer can be reached
\* it ends in acceptance if and only if all of them are sound; a torn identity, in
\* particular, is never accepted.
AcceptedWhenSound ==
  asked # Absent /\ ~outage /\ (phase = "failed" \/ step \in Errors \cup {"accepted"}) =>
    (step = "accepted" <=> Sound)
=============================================================================
