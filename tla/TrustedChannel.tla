---------------------------- MODULE TrustedChannel ----------------------------
(***************************************************************************)
(* What AttestedHTTPSConnection (client/connection.py) and the gate of the *)
(* server (server/asgi.py, server/wsgi.py) promise the caller together: a  *)
(* request leaves only under a proof that is young enough, the TEE serves  *)
(* it at most once, and what the caller gets is the answer to it.          *)
(***************************************************************************)
EXTENDS Naturals

CONSTANTS
  Conns,
  None,   \* no proof
  Limit   \* the age up to which a proof is relied on

VARIABLES
  trust,  \* the time since the TEE at the other end was proved, or None
  call    \* the request of each connection: "none", "sent" or "served"

vars == <<trust, call>>

Init == trust = [c \in Conns |-> None] /\ call = [c \in Conns |-> "none"]

\* A handshake succeeds, never while a request is out.
Prove(c) ==
  /\ call[c] = "none"
  /\ trust' = [trust EXCEPT ![c] = 0] /\ UNCHANGED call

Send(c) ==
  /\ call[c] = "none" /\ trust[c] # None /\ trust[c] <= Limit
  /\ call' = [call EXCEPT ![c] = "sent"] /\ UNCHANGED trust

Serve(c) ==
  /\ call[c] = "sent" /\ trust[c] # None
  /\ call' = [call EXCEPT ![c] = "served"] /\ UNCHANGED trust

Return(c) ==
  /\ call[c] = "served" /\ trust[c] # None
  /\ call' = [call EXCEPT ![c] = "none"] /\ UNCHANGED trust

\* The session ends, at either end and for whatever reason; with it go the
\* proof and the request.
Lose(c) ==
  /\ trust' = [trust EXCEPT ![c] = None]
  /\ call' = [call EXCEPT ![c] = "none"]

\* Proofs age; those that are too old need not be told apart.
Age ==
  /\ trust' = [c \in Conns |->
       IF trust[c] # None /\ trust[c] <= Limit THEN trust[c] + 1 ELSE trust[c]]
  /\ UNCHANGED call

Next ==
  \/ \E c \in Conns : Prove(c) \/ Send(c) \/ Serve(c) \/ Return(c) \/ Lose(c)
  \/ Age

Spec == Init /\ [][Next]_vars
=============================================================================
