------------------------ MODULE AttestedSessionProofs ------------------------
(***************************************************************************)
(* What AttestedSession guarantees for every number of connections and     *)
(* sessions, and every timeout.                                            *)
(***************************************************************************)
EXTENDS AttestedSession, TLAPS

USE DEF vars, wires, client, history

-----------------------------------------------------------------------------
(* Type correctness. *)

LEMMA MessageTypes ==
  /\ \A k \in {"none", "attest", "app", "refused", "served", "unauthorized"} :
       Notice(k) \in Notices /\ Notice(k).kind = k
  /\ \A e \in Evidence : e.kind = "evidence" /\ e.ekm \in Sessions /\ e.tokenAge \in 0..Dead
  /\ Dead = Life + Skew /\ Dead \in Nat
  /\ \A m \in Notices : m.kind # "evidence"
  BY ChannelAssumption DEF Notice, Notices, Evidence, Dead

\* Evidence that ages is the same evidence with an older token.
LEMMA OlderMessages ==
  ASSUME NEW m \in Notices \cup Evidence
  PROVE  /\ Older(m) \in Notices \cup Evidence
         /\ Older(m).kind = m.kind
         /\ m \in Notices => Older(m) = m
         /\ m \in Evidence => Older(m) \in Evidence /\ Older(m).ekm = m.ekm
<1>1. CASE m \in Notices
  BY <1>1, MessageTypes DEF Older
<1>2. CASE m \in Evidence
  BY <1>2, MessageTypes DEF Older, Evidence
<1>. QED  BY <1>1, <1>2, MessageTypes

LEMMA TypeInit == Init => TypeOK
  BY MessageTypes, ChannelAssumption, ConnectionAssumption
  DEF Init, ChannelInit, ConnectionInit, TypeOK, ChannelTypeOK, ConnectionTypeOK, Locations

LEMMA TypeServer ==
  ASSUME TypeOK, NEW s \in Sessions, ServerStep(s), UNCHANGED client
  PROVE  TypeOK'
<1> USE MessageTypes DEF TypeOK, ChannelTypeOK, ConnectionTypeOK, Stale
<1>1. CASE Attest(s)
  BY <1>1 DEF Attest, Put
<1>2. CASE AttestFails(s) \/ Serve(s)
  BY <1>2 DEF AttestFails, Serve, Put
<1>3. CASE ServerCloses(s)
  BY <1>3 DEF ServerCloses, Close, Put
<1>4. CASE OtherAnswers(s)
  BY <1>4 DEF OtherAnswers, Put
<1>. QED  BY <1>1, <1>2, <1>3, <1>4 DEF ServerStep

\* The revalidation timeout, configured or not, is a number of ticks.
LEMMA TimeoutType ==
  /\ Timeout \in Nat /\ Skew \in Nat /\ Life \in Nat
  /\ Oldest = Timeout + Skew + 1 /\ Eldest = Life + Timeout + Skew
  BY ConnectionAssumption, ChannelAssumption DEF Timeout, Oldest, Eldest

LEMMA TypeDropsSocket ==
  ASSUME TypeOK, NEW c \in Conns, DropsSocket(c)
  PROVE  /\ ChannelTypeOK'
         /\ sock' \in [Conns -> Sessions \cup {None}]
         /\ proof' \in [Sessions -> 0..Oldest \cup {None}]
         /\ tokenAge' \in [Sessions -> 0..Eldest \cup {None}]
  BY MessageTypes, TimeoutType
  DEF TypeOK, ChannelTypeOK, ConnectionTypeOK, DropsSocket, Close, Put

LEMMA TypeCloseAndRaise ==
  ASSUME TypeOK, NEW c \in Conns, CloseAndRaise(c)
  PROVE  ChannelTypeOK' /\ ConnectionTypeOK'
  BY TypeDropsSocket
  DEF TypeOK, ConnectionTypeOK, CloseAndRaise, At, Locations, Stale

LEMMA TypeClient ==
  ASSUME TypeOK, NEW c \in Conns, ClientStep(c), gate' = gate \cap open'
  PROVE  TypeOK'
<1> USE MessageTypes, ChannelAssumption, TimeoutType
        DEF TypeOK, ChannelTypeOK, ConnectionTypeOK, At, Put, Locations, Stale
<1>1. CASE Checkout(c)
  BY <1>1, TypeDropsSocket DEF Checkout
<1>2. CASE Connect(c)
  BY <1>2 DEF Connect
<1>3. CASE ConnectFails(c) \/ SendAttest(c)
  BY <1>3 DEF ConnectFails, SendAttest
<1>4. CASE Validate(c)
  <2>1. PICK e \in Evidence :
          Validates(c, e) /\ tokenAge' = [tokenAge EXCEPT ![sock[c]] = e.tokenAge]
    BY <1>4 DEF Validate
  <2>2. e.tokenAge \in 0..Eldest
    BY <2>1 DEF Validates
  <2>. QED  BY <1>4, <2>1, <2>2 DEF Validate
<1>5. CASE HandshakeFails(c) \/ ExchangeFails(c) \/ TimesOut(c)
  BY <1>5, TypeCloseAndRaise DEF HandshakeFails, ExchangeFails, TimesOut
<1>6. CASE Revalidate(c)
  BY <1>6 DEF Revalidate
<1>7. CASE Send(c)
  BY <1>7, TypeCloseAndRaise DEF Send
<1>8. CASE Receive(c)
  BY <1>8 DEF Receive
<1>9. CASE Retire(c)
  BY <1>9, TypeDropsSocket DEF Retire
<1>. QED
  BY <1>1, <1>2, <1>3, <1>4, <1>5, <1>6, <1>7, <1>8, <1>9 DEF ClientStep, Proceeds, Advances

LEMMA TypeTime == ASSUME TypeOK, Tick \/ SetClock, UNCHANGED gate  PROVE TypeOK'
<1> USE ChannelAssumption, TimeoutType DEF TypeOK, ChannelTypeOK, ConnectionTypeOK, Stale
<1>1. CASE Tick
  BY <1>1, OlderMessages DEF Tick
<1>2. CASE SetClock
  BY <1>2 DEF SetClock
<1>. QED  BY <1>1, <1>2

\* Every variable keeps its type.
THEOREM TypeCorrect == Spec => []TypeOK
<1>1. Init => TypeOK
  BY TypeInit
<1>2. TypeOK /\ [Next]_vars => TypeOK'
  <2> SUFFICES ASSUME TypeOK, [Next]_vars  PROVE TypeOK'
    OBVIOUS
  <2>1. CASE UNCHANGED vars
    BY <2>1 DEF TypeOK, ChannelTypeOK, ConnectionTypeOK, Stale
  <2>2. CASE Next
    BY <2>2, TypeServer, TypeClient, TypeTime DEF Next
  <2>. QED  BY <2>1, <2>2
<1>. QED  BY <1>1, <1>2, PTL DEF Spec

-----------------------------------------------------------------------------
(* Attestation before data. *)

\* A connection past its handshake, or revalidating one.
Established(c) ==
  /\ sock[c] # None
  /\ \/ cpc[c] \in {"idle", "request", "send", "response"}
     \/ cpc[c] \in {"attest", "evidence"} /\ purpose[c] = "revalidate"

\* What the server's end knows of the sessions ...
ServerInv ==
  /\ gate \subseteq open
  /\ \A s \in open :
       /\ wire[s].kind = "evidence" =>
            IF peer[s] = "tee" THEN s \in gate ELSE wire[s].ekm # s
       /\ proof[s] # None => peer[s] = "tee" /\ s \in gate
       /\ Carries(s, "app") => proof[s] # None
       /\ ~Carries(s, "unauthorized")

\* ... and what the client's end knows of them.
ClientInv ==
  /\ SessionsNotShared
  /\ \A s \in Sessions \ open : Carries(s, "none")
  /\ \A c \in Conns :
       /\ cpc[c] = "connect" => sock[c] = None
       /\ cpc[c] \notin {"idle", "connect"} => sock[c] # None
       /\ purpose[c] = "revalidate" => cpc[c] \in {"attest", "evidence"}
       /\ Established(c) =>
            /\ attested[c] /\ last[c] # None /\ proof[sock[c]] # None
            /\ proof[sock[c]] <= last[c] + back
            /\ tokenAge[sock[c]] # None /\ tokenAge[sock[c]] < Life + last[c] + back
       /\ cpc[c] = "send" => proof[sock[c]] = 0 /\ tokenAge[sock[c]] < Life + back

Inv == TypeOK /\ ServerInv /\ ClientInv

LEMMA InvInit == Init => ServerInv /\ ClientInv
  BY MessageTypes
  DEF Init, ChannelInit, ConnectionInit, ServerInv, ClientInv, Established, Carries,
      SessionsNotShared

LEMMA InvServer ==
  ASSUME Inv, NEW s \in Sessions, ServerStep(s), UNCHANGED client
  PROVE  ServerInv' /\ ClientInv'
<1> USE MessageTypes
        DEF Inv, TypeOK, ChannelTypeOK, ConnectionTypeOK, ServerInv, ClientInv, Carries, Put
<1>0. s \in open
  BY DEF ServerStep, Attest, AttestFails, Serve, ServerCloses, OtherAnswers
<1>1. ClientInv'
  <2>1. \A c \in Conns : Established(c)' = Established(c)
    BY DEF Established
  <2>2. \A t \in Sessions \ open' : Carries(t, "none")'
    BY <1>0 DEF ServerStep, Attest, AttestFails, Serve, ServerCloses, OtherAnswers, Close
  <2>. QED  BY <2>1, <2>2 DEF SessionsNotShared
<1>2. CASE Attest(s)
  <2>1. PICK e \in Evidence : e.ekm = s /\ wire' = [wire EXCEPT ![s] = e]
    BY <1>2 DEF Attest
  <2>. QED  BY <1>1, <1>2, <2>1 DEF Attest
<1>3. CASE AttestFails(s)
  BY <1>1, <1>3 DEF AttestFails
<1>4. CASE Serve(s)
  BY <1>1, <1>4 DEF Serve
<1>5. CASE ServerCloses(s)
  BY <1>1, <1>5 DEF ServerCloses, Close
<1>6. CASE OtherAnswers(s)
  <2>1. \/ wire' = [wire EXCEPT ![s] = Notice("refused")]
        \/ \E e \in Evidence : e.ekm # s /\ wire' = [wire EXCEPT ![s] = e]
    BY <1>6 DEF OtherAnswers
  <2>. QED  BY <1>1, <1>6, <2>1 DEF OtherAnswers
<1>. QED  BY <1>2, <1>3, <1>4, <1>5, <1>6 DEF ServerStep

LEMMA InvCloseAndRaise ==
  ASSUME Inv, NEW c \in Conns, CloseAndRaise(c), gate' = gate \cap open'
  PROVE  ServerInv' /\ ClientInv'
  BY MessageTypes
  DEF Inv, TypeOK, ChannelTypeOK, ConnectionTypeOK, ServerInv, ClientInv, Carries, Put,
      CloseAndRaise, DropsSocket, Close, At, Established, SessionsNotShared

LEMMA ConnectOpens ==
  ASSUME NEW c \in Conns, Connect(c)
  PROVE  \E s \in Sessions \ open, who \in {"tee", "other"} :
           /\ \A d \in Conns : sock[d] # s
           /\ sock' = [sock EXCEPT ![c] = s] /\ open' = open \cup {s}
           /\ peer' = [peer EXCEPT ![s] = who] /\ wire' = [wire EXCEPT ![s] = Notice("none")]
           /\ proof' = [proof EXCEPT ![s] = None]
           /\ tokenAge' = [tokenAge EXCEPT ![s] = None]
  BY DEF Connect, Put

LEMMA InvClient ==
  ASSUME Inv, NEW c \in Conns, ClientStep(c), gate' = gate \cap open'
  PROVE  ServerInv' /\ ClientInv'
<1> USE MessageTypes, ChannelAssumption, TimeoutType
        DEF Inv, TypeOK, ChannelTypeOK, ConnectionTypeOK, ServerInv, ClientInv, Carries, Put,
            At, Established, SessionsNotShared, Stale
<1>1. CASE Checkout(c)
  <2>1. CASE Dropped(c)
    BY <1>1, <2>1 DEF Checkout, Dropped, DropsSocket
  <2>2. CASE ~Dropped(c)
    BY <1>1, <2>2 DEF Checkout, Dropped
  <2>. QED  BY <2>1, <2>2
<1>2. CASE Connect(c)
  <2>1. PICK s \in Sessions \ open, who \in {"tee", "other"} :
          /\ \A d \in Conns : sock[d] # s
          /\ sock' = [sock EXCEPT ![c] = s] /\ open' = open \cup {s}
          /\ peer' = [peer EXCEPT ![s] = who] /\ wire' = [wire EXCEPT ![s] = Notice("none")]
          /\ proof' = [proof EXCEPT ![s] = None]
          /\ tokenAge' = [tokenAge EXCEPT ![s] = None]
    BY <1>2, ConnectOpens
  <2>. QED  BY <1>2, <2>1 DEF Connect
<1>3. CASE ConnectFails(c)
  BY <1>3 DEF ConnectFails
<1>4. CASE SendAttest(c)
  BY <1>4 DEF SendAttest
<1>5. CASE Validate(c)
  BY <1>5 DEF Validate, Validates
<1>6. CASE HandshakeFails(c) \/ ExchangeFails(c) \/ TimesOut(c)
  BY <1>6, InvCloseAndRaise DEF HandshakeFails, ExchangeFails, TimesOut
<1>7. CASE Revalidate(c)
  BY <1>7 DEF Revalidate
<1>8. CASE Send(c)
  BY <1>8, InvCloseAndRaise DEF Send
<1>9. CASE Receive(c)
  BY <1>9 DEF Receive
<1>10. CASE Retire(c)
  BY <1>10 DEF Retire, DropsSocket, Close
<1>. QED
  BY <1>1, <1>2, <1>3, <1>4, <1>5, <1>6, <1>7, <1>8, <1>9, <1>10 DEF ClientStep, Proceeds, Advances

LEMMA InvTime ==
  ASSUME Inv, Tick \/ SetClock, UNCHANGED gate  PROVE ServerInv' /\ ClientInv'
<1> USE ChannelAssumption, TimeoutType
        DEF Inv, TypeOK, ChannelTypeOK, ConnectionTypeOK, ServerInv, ClientInv, Carries,
            Established, SessionsNotShared, Stale
<1>1. CASE Tick
  BY <1>1, OlderMessages, MessageTypes DEF Tick
<1>2. CASE SetClock
  BY <1>2 DEF SetClock
<1>. QED  BY <1>1, <1>2

LEMMA InvStep == Inv /\ [Next]_vars => ServerInv' /\ ClientInv'
<1> SUFFICES ASSUME Inv, [Next]_vars  PROVE ServerInv' /\ ClientInv'
  OBVIOUS
<1>1. CASE UNCHANGED vars
  BY <1>1 DEF Inv, ServerInv, ClientInv, Carries, Established, SessionsNotShared
<1>2. CASE Next
  BY <1>2, InvServer, InvClient, InvTime DEF Next
<1>. QED  BY <1>1, <1>2

LEMMA InvAlways == Spec => []Inv
<1>1. Init => Inv
  BY TypeInit, InvInit DEF Inv
<1>2. Inv /\ [Next]_vars /\ TypeOK' => Inv'
  BY InvStep DEF Inv
<1>. QED  BY <1>1, <1>2, TypeCorrect, PTL DEF Spec

\* Only Send sends.
LEMMA SendsBySend ==
  ASSUME TypeOK, [Next]_vars, NEW c \in Conns, Sends(c)
  PROVE  Send(c) /\ sock[c] \in open
<1>1. PICK d \in Conns : ClientStep(d) /\ ~Retire(d)
  BY DEF Sends, Next, Tick, SetClock, Retire
<1>2. \E where \in Locations : cpc' = [cpc EXCEPT ![d] = where]
  BY <1>1
  DEF ClientStep, Proceeds, Advances, Checkout, Connect, ConnectFails, SendAttest, Validate,
      HandshakeFails, Revalidate, Send, Receive, ExchangeFails, TimesOut, CloseAndRaise,
      At, Locations
<1>3. d = c
  BY <1>2 DEF Sends, TypeOK, ConnectionTypeOK
<1>4. Send(c)
  BY <1>1, <1>3
  DEF Sends, TypeOK, ConnectionTypeOK, ClientStep, Proceeds, Advances, Checkout, Connect,
      ConnectFails, SendAttest, Validate, HandshakeFails, Revalidate, Receive,
      ExchangeFails, TimesOut, CloseAndRaise, At
<1>. QED
  BY <1>4 DEF TypeOK, ConnectionTypeOK, Sends, Send, CloseAndRaise, At

\* What is known of a session when a request leaves on it.
LEMMA FreshWhenSent ==
  ASSUME Inv, [Next]_vars, NEW c \in Conns, Sends(c)
  PROVE  /\ peer[sock[c]] = "tee"
         /\ proof[sock[c]] # None /\ proof[sock[c]] <= Timeout + back
         /\ tokenAge[sock[c]] # None /\ tokenAge[sock[c]] < Life + Timeout + back
<1>1. Send(c) /\ sock[c] \in open
  BY SendsBySend DEF Inv
<1>2. Established(c)
  BY <1>1 DEF Inv, ClientInv, Established, Send
<1>3. /\ proof[sock[c]] # None /\ proof[sock[c]] <= Timeout + back
      /\ tokenAge[sock[c]] # None /\ tokenAge[sock[c]] < Life + Timeout + back
  <2>1. proof[sock[c]] \in 0..Oldest /\ tokenAge[sock[c]] \in 0..Eldest
    BY <1>1, <1>2 DEF Inv, TypeOK, ChannelTypeOK, ConnectionTypeOK, ClientInv
  <2>0. last[c] \in -back..Stale /\ back \in 0..Skew
    BY <1>1, <1>2 DEF Inv, TypeOK, ChannelTypeOK, ConnectionTypeOK, ClientInv
  <2>2. CASE cpc[c] = "send"
    BY <1>2, <2>0, <2>1, <2>2, TimeoutType, ChannelAssumption DEF Inv, ClientInv
  <2>3. CASE cpc[c] # "send"
    <3>1. last[c] <= Timeout
      BY <1>1, <1>2, <2>0, <2>3, TimeoutType DEF Inv, ClientInv, Send, Due
    <3>2. proof[sock[c]] <= last[c] + back /\ tokenAge[sock[c]] < Life + last[c] + back
      BY <1>2 DEF Inv, ClientInv
    <3>. QED  BY <2>0, <2>1, <3>1, <3>2, TimeoutType, ChannelAssumption
  <2>. QED  BY <2>2, <2>3
<1>. QED  BY <1>1, <1>3 DEF Inv, ServerInv

\* Application data goes only to a session that ends in the TEE and was
\* validated within the revalidation timeout.
THEOREM DataGoesToFreshTee == Spec => SendsToFreshTee
<1>1. Inv /\ [Next]_vars =>
        [\A c \in Conns : Sends(c) =>
           /\ peer[sock[c]] = "tee"
           /\ proof[sock[c]] # None /\ proof[sock[c]] <= Timeout + back]_vars
  BY FreshWhenSent
<1>. QED  BY <1>1, InvAlways, PTL DEF Spec, SendsToFreshTee

\* No request relies on a token for longer after its end than the revalidation
\* timeout and what the clock was set back, however old the tokens of a server
\* that cannot refresh them have become: the comment at client/constants.py:39
\* is wrong by no more than that.
THEOREM TokenOverrunIsBounded == Spec => OverrunIsBounded
<1>1. Inv /\ [Next]_vars =>
        [\A c \in Conns : Sends(c) =>
           tokenAge[sock[c]] # None /\ tokenAge[sock[c]] < Life + Timeout + back]_vars
  BY FreshWhenSent
<1>. QED  BY <1>1, InvAlways, PTL DEF Spec, OverrunIsBounded

\* A client never meets the gate's 401.
THEOREM ClientsAreAuthorized == Spec => []NeverUnauthorized
<1>1. Inv => NeverUnauthorized
  BY MessageTypes DEF Inv, ServerInv, ClientInv, NeverUnauthorized, Carries
<1>. QED  BY <1>1, InvAlways, PTL

\* The sessions kept in the pool, or about to be used, are validated and marked.
THEOREM PoolIsValidated == Spec => []PoolHoldsOnlyValidated
<1>1. Inv => PoolHoldsOnlyValidated
  BY ChannelAssumption
  DEF Inv, TypeOK, ChannelTypeOK, ServerInv, ClientInv, PoolHoldsOnlyValidated, Established
<1>. QED  BY <1>1, InvAlways, PTL

-----------------------------------------------------------------------------
(* The session implements TrustedChannel. *)

\* While a connection waits for its response, its session carries the request
\* or the application's answer to it, and nothing else.
WaitInv == \A c \in Conns : Waits(c) => Carries(sock[c], "app") \/ Carries(sock[c], "served")

LEMMA WaitInit == Init => WaitInv
  BY DEF Init, ConnectionInit, WaitInv, Waits

LEMMA WaitServer ==
  ASSUME Inv, WaitInv, NEW s \in Sessions, ServerStep(s), UNCHANGED client
  PROVE  WaitInv'
<1> USE MessageTypes, ChannelAssumption
        DEF Inv, TypeOK, ChannelTypeOK, ConnectionTypeOK, ServerInv, WaitInv, Waits, Carries, Put
<1>1. CASE Attest(s) \/ AttestFails(s)
  BY <1>1 DEF Attest, AttestFails
<1>2. CASE Serve(s)
  BY <1>2 DEF Serve
<1>3. CASE ServerCloses(s)
  BY <1>3 DEF ServerCloses, Close
<1>4. CASE OtherAnswers(s)
  BY <1>4 DEF OtherAnswers
<1>. QED  BY <1>1, <1>2, <1>3, <1>4 DEF ServerStep

\* What a step of one connection leaves alone of another.
LEMMA OthersKeep ==
  ASSUME Inv, NEW c \in Conns, ClientStep(c), NEW d \in Conns, d # c
  PROVE  /\ UNCHANGED <<cpc[d], sock[d]>>
         /\ sock[d] \in open' <=> sock[d] \in open
         /\ sock[d] \in open => UNCHANGED <<peer[sock[d]], proof[sock[d]], wire[sock[d]]>>
<1> USE ChannelAssumption
        DEF Inv, TypeOK, ChannelTypeOK, ConnectionTypeOK, ClientInv, SessionsNotShared, Put, At
<1>1. CASE Checkout(c)
  BY <1>1 DEF Checkout, DropsSocket, Close
<1>2. CASE Connect(c)
  BY <1>2 DEF Connect
<1>3. CASE HandshakeFails(c) \/ ExchangeFails(c) \/ TimesOut(c)
  BY <1>3 DEF HandshakeFails, ExchangeFails, TimesOut, CloseAndRaise, DropsSocket, Close
<1>4. CASE Send(c)
  BY <1>4 DEF Send, CloseAndRaise, DropsSocket, Close
<1>5. CASE Retire(c)
  BY <1>5 DEF Retire, DropsSocket, Close
<1>6. CASE ConnectFails(c) \/ SendAttest(c) \/ Validate(c) \/ Revalidate(c) \/ Receive(c)
  BY <1>6 DEF ConnectFails, SendAttest, Validate, Revalidate, Receive
<1>. QED
  BY <1>1, <1>2, <1>3, <1>4, <1>5, <1>6 DEF ClientStep, Proceeds, Advances

LEMMA WaitClient ==
  ASSUME Inv, WaitInv, NEW c \in Conns, ClientStep(c)
  PROVE  WaitInv'
<1>1. ASSUME NEW d \in Conns, d # c, Waits(d)'
      PROVE  (Carries(sock[d], "app") \/ Carries(sock[d], "served"))'
  BY <1>1, OthersKeep DEF WaitInv, Waits, Carries
<1>2. ASSUME Waits(c)'  PROVE Carries(sock[c], "app")'
  <2>1. CASE Send(c)
    BY <1>2, <2>1, MessageTypes
    DEF Send, CloseAndRaise, Put, At, Waits, Carries, Inv, TypeOK, ChannelTypeOK, ConnectionTypeOK
  <2>2. CASE ~Send(c)
    BY <1>2, <2>2
    DEF ClientStep, Proceeds, Advances, Checkout, Connect, ConnectFails, SendAttest, Validate,
        HandshakeFails, Revalidate, Receive, ExchangeFails, TimesOut, Retire, CloseAndRaise,
        At, Waits, Inv, TypeOK, ConnectionTypeOK
  <2>. QED  BY <2>1, <2>2
<1>. QED  BY <1>1, <1>2 DEF WaitInv

LEMMA WaitStep == Inv /\ WaitInv /\ [Next]_vars => WaitInv'
<1> SUFFICES ASSUME Inv, WaitInv, [Next]_vars  PROVE WaitInv'
  OBVIOUS
<1>1. CASE UNCHANGED vars
  BY <1>1 DEF WaitInv, Waits, Carries
<1>2. CASE (Tick \/ SetClock) /\ UNCHANGED gate
  BY <1>2, OlderMessages
  DEF Tick, SetClock, WaitInv, Waits, Carries, Inv, TypeOK, ChannelTypeOK
<1>. QED  BY <1>1, <1>2, WaitServer, WaitClient DEF Next

\* The caller's view of a connection ...
Keeps(c) == UNCHANGED <<ProofOf(c), RequestOf(c)>>

\* ... does not change with what it does not see ...
LEMMA SameView == ASSUME \A c \in Conns : Keeps(c)  PROVE UNCHANGED Caller!vars
  BY DEF Keeps, Caller!vars

\* ... and a step that only one view sees is a step of that view.
LEMMA OneView ==
  ASSUME NEW c \in Conns, \A d \in Conns \ {c} : Keeps(d)
  PROVE  /\ [d \in Conns |-> ProofOf(d)]' =
              [[d \in Conns |-> ProofOf(d)] EXCEPT ![c] = ProofOf(c)']
         /\ [d \in Conns |-> RequestOf(d)]' =
              [[d \in Conns |-> RequestOf(d)] EXCEPT ![c] = RequestOf(c)']
         /\ ProofOf(c)' = ProofOf(c) => UNCHANGED [d \in Conns |-> ProofOf(d)]
         /\ RequestOf(c)' = RequestOf(c) => UNCHANGED [d \in Conns |-> RequestOf(d)]
  BY DEF Keeps

LEMMA OneKept ==
  ASSUME NEW c \in Conns, \A d \in Conns \ {c} : Keeps(d), Keeps(c)
  PROVE  UNCHANGED Caller!vars
  BY SameView

\* The end of a session.
LEMMA OneLost ==
  ASSUME NEW c \in Conns, \A d \in Conns \ {c} : Keeps(d),
         ProofOf(c)' = None, RequestOf(c)' = "none"
  PROVE  Caller!Lose(c)
  BY OneView DEF Caller!Lose

\* What Inv says of the views.
LEMMA Views ==
  ASSUME Inv, WaitInv, NEW c \in Conns
  PROVE  /\ ProofOf(c) \in 0..Oldest \cup {None}
         /\ ~Waits(c) => RequestOf(c) = "none"
         /\ Waits(c) =>
              /\ RequestOf(c) = IF Carries(sock[c], "app") THEN "sent" ELSE "served"
              /\ peer[sock[c]] = "tee" /\ sock[c] \in gate /\ ProofOf(c) # None
  BY ChannelAssumption
  DEF Inv, TypeOK, ChannelTypeOK, ConnectionTypeOK, ServerInv, ClientInv, Established, WaitInv,
      ProofOf, RequestOf, Waits, Carries

LEMMA CallerInit == Init => Caller!Init
  BY DEF Init, ChannelInit, ConnectionInit, Caller!Init, ProofOf, RequestOf, Waits

LEMMA CallerServer ==
  ASSUME Inv, WaitInv, WaitInv', NEW s \in Sessions, ServerStep(s), UNCHANGED client
  PROVE  Caller!Next \/ UNCHANGED Caller!vars
<1> USE ChannelAssumption, MessageTypes
        DEF Inv, TypeOK, ChannelTypeOK, ConnectionTypeOK, Put, Carries
<1>0. s \in open
  BY DEF ServerStep, Attest, AttestFails, Serve, ServerCloses, OtherAnswers
<1>1. ASSUME NEW d \in Conns, sock[d] # s  PROVE Keeps(d)
  BY <1>1 DEF ServerStep, Attest, AttestFails, Serve, ServerCloses, OtherAnswers, Close,
              Keeps, ProofOf, RequestOf, Waits
<1>2. CASE \A c \in Conns : sock[c] # s
  BY <1>1, <1>2, SameView
<1>3. ASSUME NEW c \in Conns, sock[c] = s
      PROVE  Caller!Next \/ UNCHANGED Caller!vars
  <2>1. \A d \in Conns \ {c} : Keeps(d)
    BY <1>1, <1>3 DEF ClientInv, SessionsNotShared
  <2>2. CASE Attest(s) \/ AttestFails(s) \/ OtherAnswers(s)
    <3>1. ~Waits(c)
      BY <1>3, <2>2, Views DEF Attest, AttestFails, OtherAnswers, WaitInv
    <3>2. Keeps(c)
      BY <1>3, <2>2, <3>1
      DEF Attest, AttestFails, OtherAnswers, Keeps, ProofOf, RequestOf, Waits
    <3>. QED  BY <2>1, <3>2, OneKept
  <2>3. CASE Serve(s) /\ Waits(c)
    <3>1. ProofOf(c)' = ProofOf(c) /\ ProofOf(c) # None
      BY <2>3, Views DEF Serve, ProofOf
    <3>2. RequestOf(c) = "sent" /\ RequestOf(c)' = "served"
      BY <1>3, <2>3, Views DEF Serve, RequestOf, Waits
    <3>3. Caller!Serve(c)
      BY <2>1, <3>1, <3>2, OneView DEF Caller!Serve
    <3>. QED  BY <3>3 DEF Caller!Next
  <2>4. CASE Serve(s) /\ ~Waits(c)
    <3>1. Keeps(c)
      BY <2>4 DEF Serve, Keeps, ProofOf, RequestOf, Waits
    <3>. QED  BY <2>1, <3>1, OneKept
  <2>5. CASE ServerCloses(s)
    <3>1. ProofOf(c)' = None /\ RequestOf(c)' = "none"
      BY <1>3, <2>5 DEF ServerCloses, Close, ProofOf, RequestOf, Waits
    <3>. QED  BY <2>1, <3>1, OneLost DEF Caller!Next
  <2>. QED  BY <2>2, <2>3, <2>4, <2>5 DEF ServerStep
<1>. QED  BY <1>2, <1>3

LEMMA CallerClient ==
  ASSUME Inv, WaitInv, Inv', WaitInv', NEW c \in Conns, ClientStep(c), gate' = gate \cap open'
  PROVE  Caller!Next \/ UNCHANGED Caller!vars
<1> USE ChannelAssumption, MessageTypes
        DEF Inv, TypeOK, ChannelTypeOK, ConnectionTypeOK, Put, At, Carries
<1>0. \A d \in Conns \ {c} : Keeps(d)
  BY OthersKeep DEF Keeps, ProofOf, RequestOf, Waits
<1>1. ASSUME CloseAndRaise(c) \/ Retire(c)
      PROVE  Caller!Next
  <2>1. sock'[c] = None
    BY <1>1 DEF CloseAndRaise, Retire, DropsSocket
  <2>2. ProofOf(c)' = None /\ RequestOf(c)' = "none"
    BY <2>1 DEF ProofOf, RequestOf, Waits
  <2>. QED  BY <1>0, <2>2, OneLost DEF Caller!Next
<1>2. CASE Checkout(c) \/ Connect(c) \/ ConnectFails(c)
  <2>1. ~Waits(c) /\ ~Waits(c)'
    BY <1>2 DEF Checkout, Connect, ConnectFails, Waits
  <2>2. ProofOf(c)' = ProofOf(c)
    BY <1>2 DEF Checkout, Dropped, DropsSocket, Connect, ConnectFails, ClientInv, ProofOf
  <2>. QED  BY <1>0, <2>1, <2>2, OneKept DEF Keeps, RequestOf
<1>3. CASE SendAttest(c) \/ Revalidate(c)
  <2>1. Keeps(c)
    BY <1>3 DEF SendAttest, Revalidate, Keeps, ProofOf, RequestOf, Waits
  <2>. QED  BY <1>0, <2>1, OneKept
<1>4. CASE Validate(c)
  <2>1. RequestOf(c) = "none" /\ RequestOf(c)' = "none"
    BY <1>4 DEF Validate, RequestOf, Waits
  <2>2. ProofOf(c)' = 0
    BY <1>4 DEF Validate, Validates, ServerInv, ProofOf
  <2>3. Caller!Prove(c)
    BY <1>0, <2>1, <2>2, OneView DEF Caller!Prove
  <2>. QED  BY <2>3 DEF Caller!Next
<1>5. CASE Send(c) /\ sock[c] \in open
  <2>1. cpc'[c] = "response" /\ wire'[sock[c]].kind = "app"
        /\ UNCHANGED <<open, peer, sock, proof>>
    BY <1>5 DEF Send, CloseAndRaise
  <2>2. RequestOf(c) = "none" /\ RequestOf(c)' = "sent"
    BY <1>5, <2>1 DEF Send, RequestOf, Waits
  <2>3. ProofOf(c) # None /\ ProofOf(c) <= Timeout + Skew
    <3>1. Sends(c) /\ [Next]_vars
      BY <1>5, <2>1 DEF Sends, Send, Next
    <3>2. peer[sock[c]] = "tee" /\ proof[sock[c]] # None /\ proof[sock[c]] <= Timeout + back
      BY <3>1, FreshWhenSent
    <3>. QED  BY <1>5, <3>2, TimeoutType DEF ProofOf
  <2>4. ProofOf(c)' = ProofOf(c)
    BY <2>1 DEF ProofOf
  <2>5. Caller!Send(c)
    BY <1>0, <2>2, <2>3, <2>4, OneView DEF Caller!Send
  <2>. QED  BY <2>5 DEF Caller!Next
<1>6. CASE Receive(c)
  <2>1. Waits(c) /\ RequestOf(c) = "served" /\ ProofOf(c) # None
    BY <1>6, Views DEF Receive, Waits
  <2>2. RequestOf(c)' = "none" /\ ProofOf(c)' = ProofOf(c)
    BY <1>6 DEF Receive, RequestOf, ProofOf, Waits
  <2>3. Caller!Return(c)
    BY <1>0, <2>1, <2>2, OneView DEF Caller!Return
  <2>. QED  BY <2>3 DEF Caller!Next
<1>. QED
  BY <1>1, <1>2, <1>3, <1>4, <1>5, <1>6
  DEF ClientStep, Proceeds, Advances, HandshakeFails, Send, ExchangeFails, TimesOut

LEMMA CallerTime ==
  ASSUME Inv, WaitInv, Tick \/ SetClock
  PROVE  Caller!Next \/ UNCHANGED Caller!vars
<1>1. CASE Tick
  <2>1. \A c \in Conns :
          /\ ProofOf(c)' = IF ProofOf(c) # None /\ ProofOf(c) <= Timeout + Skew
                             THEN ProofOf(c) + 1 ELSE ProofOf(c)
          /\ RequestOf(c)' = RequestOf(c)
    BY <1>1, ChannelAssumption, TimeoutType, OlderMessages
    DEF Tick, ProofOf, RequestOf, Waits, Carries, Inv, TypeOK, ChannelTypeOK, ConnectionTypeOK
  <2>2. Caller!Age
    BY <2>1 DEF Caller!Age
  <2>. QED  BY <2>2 DEF Caller!Next
<1>2. CASE SetClock
  BY <1>2, SameView DEF SetClock, Keeps, ProofOf, RequestOf, Waits, Carries
<1>. QED  BY <1>1, <1>2

\* Client and gate together implement the channel their callers rely on, for
\* any number of connections and sessions.
THEOREM SessionIsTrustedChannel == Spec => RequestsAreTrusted
<1>1. Inv /\ WaitInv /\ Inv' /\ WaitInv' /\ [Next]_vars => [Caller!Next]_Caller!vars
  <2> SUFFICES ASSUME Inv, WaitInv, Inv', WaitInv', [Next]_vars
               PROVE  Caller!Next \/ UNCHANGED Caller!vars
    OBVIOUS
  <2>1. CASE UNCHANGED vars
    BY <2>1, SameView DEF Keeps, ProofOf, RequestOf, Waits, Carries
  <2>. QED  BY <2>1, CallerServer, CallerClient, CallerTime DEF Next
<1>. QED
  BY <1>1, CallerInit, WaitInit, WaitStep, InvAlways, PTL
  DEF Spec, RequestsAreTrusted, Caller!Spec

-----------------------------------------------------------------------------
(* What CallsEnd rests on: only a server can keep a call waiting, and every      *)
(* step a call takes brings it closer to its end.                               *)

\* A handshake that waits has its request or an answer on the wire.
EvidenceInv ==
  \A c \in Conns : cpc[c] = "evidence" /\ sock[c] \in open =>
    wire[sock[c]].kind \in {"attest", "evidence", "refused"}

LEMMA EvidenceServer ==
  ASSUME TypeOK, EvidenceInv, NEW s \in Sessions, ServerStep(s), UNCHANGED client
  PROVE  EvidenceInv'
<1> USE MessageTypes
        DEF TypeOK, ChannelTypeOK, ConnectionTypeOK, EvidenceInv, Carries, Put
<1>1. CASE Attest(s) \/ AttestFails(s)
  BY <1>1 DEF Attest, AttestFails
<1>2. CASE Serve(s)
  BY <1>2 DEF Serve
<1>3. CASE ServerCloses(s)
  BY <1>3 DEF ServerCloses, Close
<1>4. CASE OtherAnswers(s)
  BY <1>4 DEF OtherAnswers
<1>. QED  BY <1>1, <1>2, <1>3, <1>4 DEF ServerStep

LEMMA EvidenceClient ==
  ASSUME Inv, EvidenceInv, NEW c \in Conns, ClientStep(c)
  PROVE  EvidenceInv'
<1>1. ASSUME NEW d \in Conns, d # c, cpc'[d] = "evidence", sock'[d] \in open'
      PROVE  wire'[sock'[d]].kind \in {"attest", "evidence", "refused"}
  BY <1>1, OthersKeep DEF EvidenceInv
<1>2. ASSUME cpc'[c] = "evidence", sock'[c] \in open'
      PROVE  wire'[sock'[c]].kind = "attest"
  <2>1. SendAttest(c)
    BY <1>2
    DEF ClientStep, Proceeds, Advances, Checkout, Connect, ConnectFails, Validate, HandshakeFails,
        Revalidate, Send, Receive, ExchangeFails, TimesOut, Retire, CloseAndRaise, At,
        Inv, TypeOK, ConnectionTypeOK
  <2>. QED
    BY <1>2, <2>1, MessageTypes
    DEF SendAttest, Put, Inv, TypeOK, ChannelTypeOK, ConnectionTypeOK
<1>. QED  BY <1>1, <1>2 DEF EvidenceInv

LEMMA EvidenceStep == Inv /\ EvidenceInv /\ [Next]_vars => EvidenceInv'
<1> SUFFICES ASSUME Inv, EvidenceInv, [Next]_vars  PROVE EvidenceInv'
  OBVIOUS
<1>1. CASE UNCHANGED vars
  BY <1>1 DEF EvidenceInv
<1>2. CASE Tick \/ SetClock
  BY <1>2, OlderMessages
  DEF Tick, SetClock, EvidenceInv, Inv, TypeOK, ChannelTypeOK, ConnectionTypeOK
<1>. QED  BY <1>1, <1>2, EvidenceServer, EvidenceClient DEF Next, Inv

\* A client that waits has its own request on the wire, which the server has yet
\* to answer, or the answer: the two never wait for each other.
THEOREM NobodyWaitsInVain == Spec => []WaitsForItsAnswer
<1>1. Init => EvidenceInv
  BY DEF Init, ConnectionInit, EvidenceInv
<1>2. WaitInv /\ EvidenceInv => WaitsForItsAnswer
  BY DEF WaitInv, EvidenceInv, Waits, Carries, WaitsForItsAnswer
<1>. QED  BY <1>1, <1>2, WaitInit, WaitStep, EvidenceStep, InvAlways, PTL DEF Spec

\* How many steps a call may still take.
StepsLeft(c) ==
  CASE cpc[c] = "idle"     -> 0
    [] cpc[c] = "response" -> 1
    [] cpc[c] = "send"     -> 2
    [] cpc[c] = "evidence" -> IF purpose[c] = "revalidate" THEN 3 ELSE 6
    [] cpc[c] = "attest"   -> IF purpose[c] = "revalidate" THEN 4 ELSE 7
    [] cpc[c] = "request"  -> 5
    [] cpc[c] = "connect"  -> 8

LEMMA ProceedsIsProgress ==
  ASSUME Inv, NEW c \in Conns, Proceeds(c)
  PROVE  StepsLeft(c)' < StepsLeft(c)
<1>0. /\ cpc[c] # "idle"
      /\ \/ Connect(c) \/ ConnectFails(c) \/ SendAttest(c) \/ Validate(c) \/ CloseAndRaise(c)
         \/ Revalidate(c) \/ (Send(c) /\ ~CloseAndRaise(c)) \/ Receive(c)
  BY DEF Proceeds, Advances, Connect, ConnectFails, SendAttest, Validate, HandshakeFails,
         Revalidate, Send, Receive, ExchangeFails, TimesOut
<1> USE DEF Inv, TypeOK, ConnectionTypeOK, ClientInv, At, StepsLeft
<1>1. CASE Connect(c) \/ ConnectFails(c) \/ SendAttest(c)
  BY <1>1 DEF Connect, ConnectFails, SendAttest
<1>2. CASE Validate(c)
  BY <1>2 DEF Validate
<1>3. CASE CloseAndRaise(c) /\ cpc[c] # "idle"
  BY <1>3 DEF CloseAndRaise, Locations
<1>4. CASE Revalidate(c) \/ (Send(c) /\ ~CloseAndRaise(c)) \/ Receive(c)
  BY <1>4 DEF Revalidate, Send, Receive
<1>. QED  BY <1>0, <1>1, <1>2, <1>3, <1>4

\* A call takes at most eight steps, revalidation included; no step of another
\* connection, of a server or of the clock sets it back.
THEOREM CallsAreShort ==
  Spec => [][\A c \in Conns : cpc[c] # "idle" =>
               \/ StepsLeft(c)' < StepsLeft(c)
               \/ ~Proceeds(c) /\ StepsLeft(c)' = StepsLeft(c)]_vars
<1>1. ASSUME Inv, [Next]_vars, NEW c \in Conns, cpc[c] # "idle", ~Proceeds(c)
      PROVE  StepsLeft(c)' = StepsLeft(c)
  <2>1. UNCHANGED <<cpc[c], purpose[c]>>
    <3>1. ASSUME NEW d \in Conns, d # c, ClientStep(d)
          PROVE  UNCHANGED <<cpc[c], purpose[c]>>
      BY <1>1, <3>1
      DEF ClientStep, Proceeds, Advances, Checkout, Connect, ConnectFails, SendAttest, Validate,
          HandshakeFails, Revalidate, Send, Receive, ExchangeFails, TimesOut, Retire,
          CloseAndRaise, At, Inv, TypeOK, ConnectionTypeOK
    <3>2. ~ClientStep(c)
      BY <1>1 DEF ClientStep, Checkout, Retire
    <3>. QED  BY <1>1, <3>1, <3>2 DEF Next, Tick, SetClock
  <2>. QED  BY <2>1 DEF StepsLeft
<1>2. Inv /\ [Next]_vars =>
        [\A c \in Conns : cpc[c] # "idle" =>
           \/ StepsLeft(c)' < StepsLeft(c)
           \/ ~Proceeds(c) /\ StepsLeft(c)' = StepsLeft(c)]_vars
  BY <1>1, ProceedsIsProgress
<1>. QED  BY <1>2, InvAlways, PTL DEF Spec
=============================================================================
