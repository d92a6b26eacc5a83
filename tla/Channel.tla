------------------------------- MODULE Channel -------------------------------
(***************************************************************************)
(* The TLS sessions between a client and the servers it reaches, shared by *)
(* Connection (the client's end) and Middleware (the server's).  HTTP/1.1  *)
(* has one exchange at a time, so a session carries one message.           *)
(***************************************************************************)
EXTENDS Integers

CONSTANTS
  Sessions,   \* TLS sessions; a name is reused once its session is forgotten
  Conns,      \* AttestedHTTPSConnection objects of one pool
  None,       \* no session, no time
  Life,       \* ticks from a token's iat to its exp
  Skew        \* bound on the ticks a client's wall clock is set back in all

ASSUME ChannelAssumption ==
  /\ None \notin Sessions /\ None \notin Int
  /\ Life \in Nat /\ Skew \in Nat

VARIABLES
  open,  \* the sessions both ends still hold
  peer,  \* who terminates a session: the attested "tee" or an "other" server
  wire   \* the message a session carries

wires == <<open, peer, wire>>

\* The age at which a token is refused by every client.
Dead == Life + Skew

\* The evidence in an AttestConnectionResponse: the session whose keying
\* material it signs, the age now of its token, at most Dead, and whether
\* nothing else is wrong with it: a signature or the policy does not verify, or
\* the server announces `Connection: close'.  A server whose refreshes fail
\* presents its token for as long as it has no other, also when it has expired;
\* the age of a token in unsound evidence makes no difference.
Evidence ==
  {e \in [kind: {"evidence"}, ekm: Sessions, tokenAge: 0..Dead, sound: BOOLEAN] :
     e.sound \/ e.tokenAge = Dead}
Older(m) ==
  IF m.kind = "evidence" /\ m.tokenAge < Dead THEN [m EXCEPT !.tokenAge = @ + 1] ELSE m

\* The other messages are told apart by their kind only.
Notices == [kind: {"none", "attest", "app", "refused", "served", "unauthorized"}]
Notice(k) == [kind |-> k]
Carries(s, k) == wire[s].kind = k
Put(s, m) == wire' = [wire EXCEPT ![s] = m]

\* Nothing is kept of a session that ends.
Close(s) ==
  /\ open' = open \ {s} /\ peer' = [peer EXCEPT ![s] = "tee"]
  /\ Put(s, Notice("none"))

ChannelTypeOK ==
  /\ open \in SUBSET Sessions
  /\ peer \in [Sessions -> {"tee", "other"}]
  /\ wire \in [Sessions -> Notices \cup Evidence]

ChannelInit ==
  /\ open = {}
  /\ peer = [s \in Sessions |-> "tee"]
  /\ wire = [s \in Sessions |-> Notice("none")]
=============================================================================
