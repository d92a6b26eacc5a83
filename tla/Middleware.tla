----------------------------- MODULE Middleware -----------------------------
(***************************************************************************)
(* The server's end of a session: the attestation gate of                  *)
(* PromptEncryptionASGIMiddleware (server/asgi.py) and                     *)
(* PromptEncryptionWSGIMiddleware (server/wsgi.py), for http requests, and *)
(* an external server that is not the attested TEE.                        *)
(***************************************************************************)
EXTENDS Channel

VARIABLE gate  \* _attested_sockets

\* Mutant of Attest: what is marked is not the socket of the request.
AttestMarksNoSocket(s) ==
  /\ s \in open /\ peer[s] = "tee" /\ Carries(s, "attest")
  /\ gate' = gate \cup {None}
  /\ \E e \in Evidence : e.ekm = s /\ Put(s, e)
  /\ UNCHANGED <<open, peer>>

\* handle_attestation: attest_connection succeeds, the socket is marked, and
\* only then is the response sent.  Signatures that a rotation tore apart from
\* their keys (TokenManager) do not verify.
Attest(s) ==
  /\ s \in open /\ peer[s] = "tee" /\ Carries(s, "attest")
  /\ gate' = gate \cup {s}
  /\ \E e \in Evidence : e.ekm = s /\ Put(s, e)
  /\ UNCHANGED <<open, peer>>

\* Mutant of AttestFails: the error is swallowed and nothing is answered.
AttestFailsSilently(s) ==
  /\ s \in open /\ peer[s] = "tee" /\ Carries(s, "attest")
  /\ Put(s, Notice("none"))
  /\ UNCHANGED <<open, peer, gate>>

\* It raises: a 400 or a 500, and the mark the socket had, or had not, stays.
AttestFails(s) ==
  /\ s \in open /\ peer[s] = "tee" /\ Carries(s, "attest")
  /\ Put(s, Notice("refused"))
  /\ UNCHANGED <<open, peer, gate>>

\* Any other path reaches the application only over a marked socket.
Serve(s) ==
  /\ s \in open /\ peer[s] = "tee" /\ Carries(s, "app")
  /\ Put(s, Notice(IF s \in gate THEN "served" ELSE "unauthorized"))
  /\ UNCHANGED <<open, peer, gate>>

\* The server closes a session (idle timeout, restart, lost network): a marked
\* socket leaves the WeakSet when it is collected.
ServerCloses(s) ==
  /\ s \in open
  /\ Close(s) /\ gate' = gate \ {s}

\* A server that is not the TEE has no evidence for its own session: it can
\* refuse, or pass on evidence that signs another one.
OtherAnswers(s) ==
  /\ s \in open /\ peer[s] = "other" /\ wire[s].kind \in {"attest", "app"}
  /\ \/ Put(s, Notice("refused"))
     \/ \E e \in Evidence : e.ekm # s /\ Put(s, e)
  /\ UNCHANGED <<open, peer, gate>>

ServerStep(s) ==
  Attest(s) \/ AttestFails(s) \/ Serve(s) \/ ServerCloses(s) \/ OtherAnswers(s)
=============================================================================
