----------------------------- MODULE Connection -----------------------------
(***************************************************************************)
(* The client's end: AttestedHTTPSConnection (client/connection.py), used  *)
(* the way urllib3's pool uses it.  The pool closes a connection whose     *)
(* socket was dropped, connects one that is closed, and only then calls    *)
(* request.                                                                *)
(***************************************************************************)
EXTENDS Channel

CONSTANTS
  Configured,      \* the caller's revalidation_timeout in ticks, or None
  DefaultTimeout   \* DEFAULT_REVALIDATION_TIMEOUT

ASSUME ConnectionAssumption ==
  Configured \in Nat \cup {None} /\ DefaultTimeout \in Nat

\* AttestedHTTPSAdapter fills in the default.
Timeout == IF Configured = None THEN DefaultTimeout ELSE Configured

\* Proofs and tokens are told apart up to the largest age that matters.
Oldest == Timeout + Skew + 1
Eldest == Life + Timeout + Skew

VARIABLES
  cpc,       \* where the call on each connection is
  sock,      \* HTTPSConnection.sock
  attested,  \* is_attested
  last,      \* time.time() - _last_attestation_time, by the wall clock
  purpose,   \* "revalidate" while revalidate_session runs
  proof,     \* history: the true time since a session was validated
  tokenAge,  \* history: the age now of the token it was validated with
  back       \* history: the ticks the wall clock was set back so far

\* So is the time the client counts: above this it stays above the timeout,
\* however the clock is still set back.
Stale == Timeout + Skew - back + 1

history == <<proof, tokenAge, back>>
client == <<cpc, sock, attested, last, purpose, history>>

Locations == {"idle", "connect", "attest", "evidence", "request", "send", "response"}

ConnectionTypeOK ==
  /\ cpc \in [Conns -> Locations]
  /\ sock \in [Conns -> Sessions \cup {None}]
  /\ attested \in [Conns -> BOOLEAN]
  /\ last \in [Conns -> -back..Stale \cup {None}]
  /\ purpose \in [Conns -> {"connect", "revalidate"}]
  /\ proof \in [Sessions -> 0..Oldest \cup {None}]
  /\ tokenAge \in [Sessions -> 0..Eldest \cup {None}]
  /\ back \in 0..Skew

ConnectionInit ==
  /\ cpc = [c \in Conns |-> "idle"]
  /\ sock = [c \in Conns |-> None]
  /\ attested = [c \in Conns |-> FALSE]
  /\ last = [c \in Conns |-> None]
  /\ purpose = [c \in Conns |-> "connect"]
  /\ proof = [s \in Sessions |-> None]
  /\ tokenAge = [s \in Sessions |-> None]
  /\ back = 0

At(c, where) == cpc' = [cpc EXCEPT ![c] = where]
Dropped(c) == sock[c] # None => sock[c] \notin open

\* HTTPConnection.close: the socket goes.
DropsSocket(c) ==
  /\ sock' = [sock EXCEPT ![c] = None]
  /\ proof' = [s \in Sessions |-> IF s = sock[c] THEN None ELSE proof[s]]
  /\ tokenAge' = [s \in Sessions |-> IF s = sock[c] THEN None ELSE tokenAge[s]]
  /\ IF sock[c] \in open THEN Close(sock[c]) ELSE UNCHANGED wires

\* The call closes the connection and raises; is_attested and the time stay.
CloseAndRaise(c) ==
  /\ At(c, "idle") /\ DropsSocket(c)
  /\ purpose' = [purpose EXCEPT ![c] = "connect"]
  /\ UNCHANGED <<attested, last, back>>

\* The pool hands out the connection.
Checkout(c) ==
  /\ cpc[c] = "idle"
  /\ \/ Dropped(c) /\ At(c, "connect") /\ DropsSocket(c)
     \/ ~Dropped(c) /\ At(c, "request") /\ UNCHANGED <<wires, sock, proof, tokenAge>>
  /\ UNCHANGED <<attested, last, purpose, back>>

\* connect: a new TLS session, with whoever answers, is attested first.
Connect(c) ==
  /\ cpc[c] = "connect"
  /\ \E s \in Sessions \ open, who \in {"tee", "other"} :
       /\ \A d \in Conns : sock[d] # s
       /\ sock' = [sock EXCEPT ![c] = s]
       /\ open' = open \cup {s}
       /\ peer' = [peer EXCEPT ![s] = who]
       /\ Put(s, Notice("none"))
       /\ proof' = [proof EXCEPT ![s] = None]
       /\ tokenAge' = [tokenAge EXCEPT ![s] = None]
  /\ At(c, "attest")
  /\ UNCHANGED <<attested, last, purpose, back>>

\* TCP or TLS fails: nothing was opened.
ConnectFails(c) ==
  /\ cpc[c] = "connect"
  /\ At(c, "idle")
  /\ UNCHANGED <<wires, sock, attested, last, purpose, history>>

\* _perform_attestation_handshake sends the request ...
SendAttest(c) ==
  /\ cpc[c] = "attest" /\ sock[c] \in open
  /\ Put(sock[c], Notice("attest"))
  /\ At(c, "evidence")
  /\ UNCHANGED <<open, peer, sock, attested, last, purpose, history>>

\* Mutant of Validates: the keying material is not compared.
ValidatesAnySession(c, e) == e.sound /\ e.tokenAge < Life + back

\* Mutant of Validates: the token's exp is not checked.
ValidatesExpired(c, e) == e.ekm = sock[c] /\ e.sound

\* ... and validates the answer against the keying material of its own
\* session, and the token's exp against a clock that is late by at most what it
\* was set back.  A response that closes the connection leaves no socket to
\* export the material from.
Validates(c, e) == e.ekm = sock[c] /\ e.sound /\ e.tokenAge < Life + back

Validate(c) ==
  /\ cpc[c] = "evidence" /\ sock[c] \in open
  /\ \E e \in Evidence :
       /\ wire[sock[c]] = e /\ Validates(c, e)
       /\ tokenAge' = [tokenAge EXCEPT ![sock[c]] = e.tokenAge]
  /\ Put(sock[c], Notice("none"))
  /\ last' = [last EXCEPT ![c] = 0]
  /\ proof' = [proof EXCEPT ![sock[c]] = 0]
  /\ attested' = [attested EXCEPT ![c] = TRUE]
  /\ At(c, IF purpose[c] = "connect" THEN "request" ELSE "send")
  /\ purpose' = [purpose EXCEPT ![c] = "connect"]
  /\ UNCHANGED <<open, peer, sock, back>>

\* Mutant of HandshakeFails: the call raises and the socket stays.
HandshakeFailsOpen(c) ==
  /\ \/ cpc[c] \in {"attest", "evidence"} /\ sock[c] \notin open
     \/ /\ cpc[c] = "evidence" /\ sock[c] \in open
        /\ wire[sock[c]].kind \notin {"none", "attest"}
        /\ ~\E e \in Evidence : wire[sock[c]] = e /\ Validates(c, e)
  /\ At(c, "idle") /\ purpose' = [purpose EXCEPT ![c] = "connect"]
  /\ UNCHANGED <<wires, sock, attested, last, history>>

\* An error status, evidence that does not verify, or a socket error, at either
\* step: connect and revalidate_session both close the connection.
HandshakeFails(c) ==
  /\ \/ cpc[c] \in {"attest", "evidence"} /\ sock[c] \notin open
     \/ /\ cpc[c] = "evidence" /\ sock[c] \in open
        /\ wire[sock[c]].kind \notin {"none", "attest"}
        /\ ~\E e \in Evidence : wire[sock[c]] = e /\ Validates(c, e)
  /\ CloseAndRaise(c)

\* Mutant of Due: it lets a tick pass.
DueLate(c) == last[c] # None /\ last[c] > Timeout + 1

\* _should_revalidate
Due(c) == last[c] # None /\ last[c] > Timeout

\* request either revalidates ...
Revalidate(c) ==
  /\ cpc[c] = "request" /\ attested[c] /\ Due(c)
  /\ purpose' = [purpose EXCEPT ![c] = "revalidate"]
  /\ At(c, "attest")
  /\ UNCHANGED <<wires, sock, attested, last, history>>

\* Mutant of Send: a socket that was closed in between is waited for.
SendWaits(c) ==
  /\ cpc[c] = "send" \/ (cpc[c] = "request" /\ ~(attested[c] /\ Due(c)))
  /\ sock[c] \in open
  /\ Put(sock[c], Notice("app"))
  /\ At(c, "response")
  /\ UNCHANGED <<open, peer, sock, attested, last, purpose, history>>

\* ... or goes on to send the application's request; sending on a session that
\* was closed in between raises.
Send(c) ==
  /\ cpc[c] = "send" \/ (cpc[c] = "request" /\ ~(attested[c] /\ Due(c)))
  /\ \/ /\ sock[c] \in open
        /\ Put(sock[c], Notice("app"))
        /\ At(c, "response")
        /\ UNCHANGED <<open, peer, sock, attested, last, purpose, history>>
     \/ sock[c] \notin open /\ CloseAndRaise(c)

\* The response arrives, and the connection returns to the pool open.
Receive(c) ==
  /\ cpc[c] = "response" /\ sock[c] \in open
  /\ wire[sock[c]].kind \notin {"none", "app"}
  /\ Put(sock[c], Notice("none"))
  /\ At(c, "idle")
  /\ UNCHANGED <<open, peer, sock, attested, last, purpose, history>>

\* The exchange fails.
ExchangeFails(c) ==
  /\ cpc[c] = "response" /\ sock[c] \notin open
  /\ CloseAndRaise(c)

\* A read of the response, or of the handshake's, runs into the timeout of the
\* socket; an answer that comes later is lost.  Only a caller that passes a
\* timeout has one, and it is for each read: it need not happen.
TimesOut(c) ==
  /\ cpc[c] \in {"evidence", "response"} /\ sock[c] \in open
  /\ wire[sock[c]].kind \in {"attest", "app"}
  /\ CloseAndRaise(c)

\* The pool drops the connection: it is full, the session of requests is closed
\* (post closes its own after every call), or a call has raised.  The
\* next call gets a new object.
Retire(c) ==
  /\ cpc[c] = "idle" /\ last[c] # None
  /\ DropsSocket(c)
  /\ attested' = [attested EXCEPT ![c] = FALSE]
  /\ last' = [last EXCEPT ![c] = None]
  /\ UNCHANGED <<cpc, purpose, back>>

\* Time passes, except while a client only computes.
Tick ==
  /\ \A c \in Conns : cpc[c] \notin {"request", "send"}
  /\ last' = [c \in Conns |->
       IF last[c] # None /\ last[c] < Stale THEN last[c] + 1 ELSE last[c]]
  /\ proof' = [s \in Sessions |->
       IF proof[s] # None /\ proof[s] < Oldest THEN proof[s] + 1 ELSE proof[s]]
  /\ tokenAge' = [s \in Sessions |->
       IF tokenAge[s] # None /\ tokenAge[s] < Eldest THEN tokenAge[s] + 1 ELSE tokenAge[s]]
  /\ wire' = [s \in Sessions |-> Older(wire[s])]
  /\ <<last, proof, tokenAge, wire>>' # <<last, proof, tokenAge, wire>>
  /\ UNCHANGED <<open, peer, cpc, sock, attested, purpose, back>>

\* time.time() is the wall clock: it is also set, forward or back.
SetClock ==
  /\ \/ last' = [c \in Conns |->
          IF last[c] # None /\ last[c] < Stale THEN last[c] + 1 ELSE last[c]]
        /\ last' # last /\ UNCHANGED back
     \/ back < Skew /\ back' = back + 1
        /\ last' = [c \in Conns |-> IF last[c] # None THEN last[c] - 1 ELSE None]
  /\ UNCHANGED <<wires, cpc, sock, attested, purpose, proof, tokenAge>>

\* A call that was begun goes on, as soon as its server has answered.
Advances(c) ==
  \/ Connect(c) \/ ConnectFails(c) \/ SendAttest(c) \/ Validate(c) \/ HandshakeFails(c)
  \/ Revalidate(c) \/ Send(c) \/ Receive(c) \/ ExchangeFails(c)

Proceeds(c) == Advances(c) \/ TimesOut(c)

ClientStep(c) == Checkout(c) \/ Proceeds(c) \/ Retire(c)
=============================================================================
