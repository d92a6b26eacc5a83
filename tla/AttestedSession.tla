--------------------------- MODULE AttestedSession ---------------------------
(***************************************************************************)
(* Client connections and servers composed: what the gate of the server    *)
(* and the checks of the client guarantee together.                        *)
(***************************************************************************)
EXTENDS Connection, Middleware

vars == <<wires, gate, client>>

Init == ChannelInit /\ ConnectionInit /\ gate = {}

\* A socket closed by the client leaves the server's set too.
Next ==
  \/ \E s \in Sessions : ServerStep(s) /\ UNCHANGED client
  \/ \E c \in Conns : ClientStep(c) /\ gate' = gate \cap open'
  \/ (Tick \/ SetClock) /\ UNCHANGED gate

Spec == Init /\ [][Next]_vars

\* A thread that is in a call runs on when it need not wait.  Nothing is asked of
\* the server, which need not even complete the TLS handshake, of the clock, of
\* timeouts, or of who starts calls.
FairSpec ==
  Spec /\ \A c \in Conns :
            WF_vars(cpc[c] # "connect" /\ Advances(c) /\ gate' = gate \cap open')

-----------------------------------------------------------------------------

Sends(c) == cpc[c] # "response" /\ cpc'[c] = "response"

\* Type invariant.
TypeOK == ChannelTypeOK /\ ConnectionTypeOK /\ gate \in SUBSET Sessions

\* An application request leaves the client only over a session that ends in
\* the TEE and that the client itself validated, no longer ago than the
\* revalidation timeout plus what the wall clock was set back;
\* is_attested, which close never resets, is not relied on.
SendsToFreshTee ==
  [][\A c \in Conns : Sends(c) =>
       /\ peer[sock[c]] = "tee"
       /\ proof[sock[c]] # None /\ proof[sock[c]] <= Timeout + back]_vars

\* No request relies on a token that expired longer ago than the revalidation
\* timeout and what the wall clock was set back: _should_revalidate counts from
\* the handshake, and the server may present a token until its last moment.
OverrunIsBounded ==
  [][\A c \in Conns : Sends(c) =>
       tokenAge[sock[c]] # None /\ tokenAge[sock[c]] < Life + Timeout + back]_vars

\* The two ends agree: a client never meets the gate's 401.
NeverUnauthorized == \A s \in Sessions : ~Carries(s, "unauthorized")

\* A connection waiting in the pool holds no session that was not validated.
PoolHoldsOnlyValidated ==
  \A c \in Conns : cpc[c] \in {"idle", "request", "send"} /\ sock[c] \in open =>
    proof[sock[c]] # None /\ sock[c] \in gate

\* Two connections never share a session.
SessionsNotShared ==
  \A c, d \in Conns : sock[c] = sock[d] /\ sock[c] # None => c = d

-----------------------------------------------------------------------------

\* Client and server never wait for each other, and nothing of an earlier
\* exchange is left between them: over an open session, a handshake that waits
\* has its request or an answer to it on the wire, and so has a request.
WaitsForItsAnswer ==
  \A c \in Conns : sock[c] \in open =>
    /\ cpc[c] = "evidence" => wire[sock[c]].kind \in {"attest", "evidence", "refused"}
    /\ cpc[c] = "response" => wire[sock[c]].kind \in {"app", "served"}

\* A server that c is connecting to, or that has a request of c and has not
\* answered it, not completely.
Held(c) ==
  \/ cpc[c] = "connect"
  \/ sock[c] \in open /\ wire[sock[c]].kind \in {"attest", "app"}

\* Every call ends, whatever the network and the clock do, without any timeout:
\* it returns or raises, unless its server holds it for ever.
CallsEnd ==
  \A c \in Conns : []<>~Held(c) => (cpc[c] # "idle" ~> cpc[c] = "idle")

CallFails(c) ==
  cpc[c] # "idle" /\ cpc'[c] = "idle" /\ ~(sock[c] # None /\ Carries(sock[c], "served"))

\* What may make a call fail.
Trouble ==
  \/ \E s \in Sessions :
       /\ UNCHANGED client
       /\ ServerCloses(s) \/ AttestFails(s) \/ OtherAnswers(s)
  \/ \E s \in Sessions :
       /\ wire'[s].kind = "evidence" /\ wire'[s] # wire[s]
       /\ wire'[s].tokenAge >= Life
  \/ \E c \in Conns :
       \/ ConnectFails(c) \/ TimesOut(c)
       \/ Connect(c) /\ peer'[sock'[c]] = "other"

\* No trouble outlives its cause: once no server, network or deadline fails any
\* more, calls stop failing, whatever sockets, marks and timestamps both
\* ends were left with.
HealthyCallsAreServed ==
  <>[][~Trouble]_vars => <>[][\A c \in Conns : ~CallFails(c)]_vars

\* What all this is for: see TrustedChannel.  A request that is answered by
\* anything but the application behind the gate has no counterpart there.
ProofOf(c) == IF sock[c] \in open /\ peer[sock[c]] = "tee" THEN proof[sock[c]] ELSE None
Waits(c) == cpc[c] = "response" /\ sock[c] \in open
RequestOf(c) ==
  IF ~Waits(c) THEN "none"
  ELSE IF Carries(sock[c], "app") THEN "sent" ELSE wire[sock[c]].kind
Caller == INSTANCE TrustedChannel WITH
  Limit <- Timeout + Skew,
  trust <- [c \in Conns |-> ProofOf(c)],
  call <- [c \in Conns |-> RequestOf(c)]
RequestsAreTrusted == Caller!Spec

\* client/constants.py:39, "GCA tokens typically expire in 1 hour, so we
\* revalidate slightly before": no request relies on an expired token.
SendsBeforeTokenExpires ==
  [][\A c \in Conns : Sends(c) => tokenAge[sock[c]] < Life]_vars
=============================================================================
