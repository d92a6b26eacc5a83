---------------------------- MODULE TokenManager ----------------------------
(***************************************************************************)
(* The server's identity: the four key files and the token file, the       *)
(* refresher thread that rotates them (server/token.py, server/keys.py),   *)
(* and the request threads that read them to answer an attestation request *)
(* (server/attestation.py).                                                *)
(*                                                                         *)
(* Two deployments are instances of one model.  Under uvicorn (asgi.py)    *)
(* every thread lives in process Main and shares its lock.  Under gunicorn *)
(* (wsgi.py) the refresher lives in the master, Main, and each request     *)
(* thread in a worker forked from it, whose lock is a copy.                *)
(*                                                                         *)
(* A key pair is a name: a file holding k holds a half of pair k, the      *)
(* token lists the pairs its nonces fingerprint, and a signature is the    *)
(* pair that made it.  Replacing a file is atomic here; module AtomicFile  *)
(* justifies that.                                                         *)
(***************************************************************************)
EXTENDS Naturals, FiniteSets

CONSTANTS
  Keys,         \* names of key pairs; only their equality matters
  NoKey,        \* content of a key file that does not exist
  NoToken,      \* content of a token file that does not exist
  Processes,    \* the processes that share the files
  Main,         \* the one that entered `with token_manager'
  Handlers,     \* request threads that run attest_connection
  Home,         \* the process of each of them
  Refresher,    \* the thread started by TokenManager.__enter__
  Free, Orphan, \* a lock nobody holds; one whose holder is in another process
  Kinds,        \* the tokens the TEE may issue (see TokenKinds)
  Life,         \* ticks from a token's iat to its exp
  Mark,         \* ticks from iat to the 90% mark
  Jitter,       \* jitter_window_seconds, in ticks
  Retry,        \* DEFAULT_RETRY_INTERVAL_SECONDS, in ticks
  Latency,      \* largest age of a token when it reaches its file
  MaxFaults     \* bound on failures and crashes in a behaviour

\* "jwt" carries iat and exp; "opaque" is text that does not parse or lacks
\* them; "binary" is not UTF-8.
TokenKinds == {"jwt", "opaque", "binary"}

ASSUME ProcessAssumption ==
  /\ Main \in Processes
  /\ Home \in [Handlers -> Processes]
  /\ \A h \in Handlers : h \notin {Refresher, Free, Orphan}
  /\ Refresher # Free /\ Refresher # Orphan /\ Free # Orphan

Maybe == Keys \cup {NoKey}
Token == [ecdsa: Maybe, pqc: Maybe, kind: TokenKinds]

ASSUME ValueAssumption ==
  NoKey \notin Keys /\ NoToken \notin Token /\ Kinds \subseteq TokenKinds

ASSUME TimeAssumption ==
  /\ Life \in Nat /\ Mark \in 0..Life /\ Latency \in 0..Life
  /\ Jitter \in Nat /\ Retry \in Nat /\ MaxFaults \in Nat

VARIABLES
  file,    \* the key files, by name
  token,   \* the token file
  age,     \* ticks since the iat of the token in the file, at most Life
  alive,   \* the processes that run
  lock,    \* TokenManager._lock, one copy in each process
  rpc,     \* where the refresher is
  gen,     \* the pair generate_key_pair is writing
  timer,   \* ticks left of the refresher's wait or sleep
  stop,    \* TokenManager._stop_event
  hpc,     \* where each request thread is
  resp,    \* what it has read and signed so far
  clean,   \* history: see Acquire and Disturb
  faults   \* failures and crashes so far

disk == <<file, token, age>>
refresher == <<rpc, gen, timer, stop>>
handlers == <<hpc, resp, clean>>
vars == <<disk, alive, lock, refresher, handlers, faults>>

FileNames == {"ecdsaPriv", "ecdsaPub", "pqcPriv", "pqcPub"}
NoFiles == [n \in FileNames |-> NoKey]

\* The order in which generate_key_pair writes the files.
After == [ecdsaPriv |-> "ecdsaPub", ecdsaPub |-> "pqcPriv",
          pqcPriv |-> "pqcPub", pqcPub |-> "fetch"]

Response == [ecdsa: Maybe, pqc: Maybe, token: Token \cup {NoToken},
             sig: Maybe, pqcSig: Maybe]
Blank == [ecdsa |-> NoKey, pqc |-> NoKey, token |-> NoToken,
          sig |-> NoKey, pqcSig |-> NoKey]

\* Locations of the refresher and of a request thread while they hold a lock.
Refreshing == FileNames \cup {"fetch", "save"}
RHolds == Refreshing \cup {"duration"}
HHolds == {"readEcdsa", "readPqc", "readToken"}
Quiet == {"idle", "done", "error"}

\* The pairs still visible anywhere: a newly generated pair is none of them.
InUse ==
  {file[n] : n \in FileNames}
    \cup (IF token = NoToken THEN {} ELSE {token.ecdsa, token.pqc})
    \cup UNION {{resp[h].ecdsa, resp[h].pqc, resp[h].sig, resp[h].pqcSig}
                  \cup (IF resp[h].token = NoToken THEN {}
                        ELSE {resp[h].token.ecdsa, resp[h].token.pqc}) :
                h \in Handlers}

Decodes(t) == t # NoToken => t.kind # "binary"

\* All four files hold one pair, and the token binds it.
CoherentWith(k) ==
  /\ \A n \in FileNames : file[n] = k
  /\ token # NoToken /\ token.ecdsa = k /\ token.pqc = k
Coherent == \E k \in Keys : CoherentWith(k)

\* History bookkeeping of every write: a request thread that has its snapshot
\* and is signing is no longer clean.
Disturb == clean' = [h \in Handlers |-> clean[h] /\ hpc[h] \notin {"sign", "signPqc"}]

Init ==
  /\ file = NoFiles /\ token = NoToken /\ age = 0
  /\ alive = {} /\ lock = [p \in Processes |-> Free]
  /\ rpc = "off" /\ gen = NoKey /\ timer = 0 /\ stop = FALSE
  /\ hpc = [h \in Handlers |-> "idle"]
  /\ resp = [h \in Handlers |-> Blank]
  /\ clean = [h \in Handlers |-> FALSE]
  /\ faults = 0

-----------------------------------------------------------------------------
(* The refresher thread. *)

\* __enter__: a new process starts the thread and returns at once.
Start ==
  /\ Main \notin alive
  /\ alive' = {Main} /\ rpc' = "loop"
  /\ UNCHANGED <<disk, lock, gen, timer, stop, handlers, faults>>

\* The head of _run's loop.
Loop ==
  /\ rpc = "loop"
  /\ rpc' = IF stop THEN "stopped" ELSE "getToken"
  /\ UNCHANGED <<disk, alive, lock, gen, timer, stop, handlers, faults>>

\* _calculate_refresh_duration takes the lock to read the token ...
TakeForDuration ==
  /\ rpc = "getToken" /\ lock[Main] = Free
  /\ lock' = [lock EXCEPT ![Main] = Refresher] /\ rpc' = "duration"
  /\ UNCHANGED <<disk, alive, gen, timer, stop, handlers, faults>>

\* Mutant of Duration: no max(0.0, ...).
DurationUnclamped(j) ==
  IF token = NoToken \/ token.kind # "jwt" THEN 0 ELSE Mark - age - j

\* Mutant of Duration: counts from now instead of from the iat.
DurationFromNow(j) ==
  IF token = NoToken \/ token.kind # "jwt" \/ j >= Mark THEN 0 ELSE Mark - j

\* How long until the 90% mark less the jitter j, never negative.
Duration(j) ==
  IF token = NoToken \/ token.kind # "jwt" \/ age + j >= Mark
    THEN 0 ELSE Mark - age - j

\* Mutant of ComputeDuration: the token's lock is not released.
ComputeDurationLocked ==
  /\ rpc = "duration"
  /\ rpc' = "wait" /\ \E j \in 0..Jitter : timer' = Duration(j)
  /\ UNCHANGED <<disk, alive, lock, gen, stop, handlers, faults>>

\* ... and waits for what it computed; a token that is not UTF-8 raises
\* ValueError instead (UnicodeDecodeError is not among the errors it catches),
\* which _run answers with a retry.
ComputeDuration ==
  /\ rpc = "duration"
  /\ lock' = [lock EXCEPT ![Main] = Free]
  /\ \/ Decodes(token) /\ rpc' = "wait" /\ \E j \in 0..Jitter : timer' = Duration(j)
     \/ ~Decodes(token) /\ rpc' = "retry" /\ timer' = Retry
  /\ UNCHANGED <<disk, alive, gen, stop, handlers, faults>>

\* Mutant of WakeUp: the wait does not last.
WakeUpEarly ==
  /\ rpc = "wait"
  /\ rpc' = IF stop THEN "stopped" ELSE "acquire"
  /\ timer' = 0
  /\ UNCHANGED <<disk, alive, lock, gen, stop, handlers, faults>>

\* _stop_event.wait returns, because of the event or of the timeout.
WakeUp ==
  /\ rpc = "wait" /\ (stop \/ timer = 0)
  /\ rpc' = IF stop THEN "stopped" ELSE "acquire"
  /\ timer' = 0
  /\ UNCHANGED <<disk, alive, lock, gen, stop, handlers, faults>>

\* Mutant of BeginRefresh: refresh without the lock.
BeginRefreshUnlocked ==
  /\ rpc = "acquire"
  /\ ~(Keys \subseteq InUse)
  /\ gen' = CHOOSE k \in Keys : k \notin InUse
  /\ rpc' = "ecdsaPriv"
  /\ UNCHANGED <<disk, alive, lock, timer, stop, handlers, faults>>

\* refresh takes the lock and generates a new pair; names being
\* interchangeable, any one not in use will do.
BeginRefresh ==
  /\ rpc = "acquire" /\ lock[Main] = Free
  /\ lock' = [lock EXCEPT ![Main] = Refresher]
  /\ ~(Keys \subseteq InUse)
  /\ gen' = CHOOSE k \in Keys : k \notin InUse
  /\ rpc' = "ecdsaPriv"
  /\ UNCHANGED <<disk, alive, timer, stop, handlers, faults>>

\* Mutant of WriteKey: an error of the write is ignored.
WriteKeyIgnoringErrors(n) ==
  /\ rpc = n
  /\ file' \in {file, [file EXCEPT ![n] = gen]}
  /\ rpc' = After[n]
  /\ Disturb
  /\ UNCHANGED <<token, age, alive, lock, gen, timer, stop, hpc, resp, faults>>

\* generate_key_pair replaces one file.
WriteKey(n) ==
  /\ rpc = n
  /\ file' = [file EXCEPT ![n] = gen]
  /\ rpc' = After[n]
  /\ Disturb
  /\ UNCHANGED <<token, age, alive, lock, gen, timer, stop, hpc, resp, faults>>

\* The TEE answers the request for a token.
Fetch ==
  /\ rpc = "fetch"
  /\ rpc' = "save"
  /\ UNCHANGED <<disk, alive, lock, gen, timer, stop, handlers, faults>>

\* The token, whose nonces are the public keys then on disk, replaces the
\* file, and the lock is released.
SaveToken ==
  /\ rpc = "save"
  /\ \E k \in Kinds :
       token' = [ecdsa |-> file["ecdsaPub"], pqc |-> file["pqcPub"], kind |-> k]
  /\ age' \in 0..Latency
  /\ lock' = [lock EXCEPT ![Main] = Free]
  /\ rpc' = "loop" /\ gen' = NoKey
  /\ Disturb
  /\ UNCHANGED <<file, alive, timer, stop, hpc, resp, faults>>

\* Mutant of RefreshFails: the lock is not released on an error.
RefreshFailsLocked ==
  /\ rpc \in RHolds /\ faults < MaxFaults
  /\ faults' = faults + 1
  /\ rpc' = "retry" /\ timer' = Retry /\ gen' = NoKey
  /\ UNCHANGED <<disk, alive, lock, stop, handlers>>

\* A read, a write or the fetch raises an error that _run catches: the lock is
\* released, what was written stays, and the thread sleeps.
RefreshFails ==
  /\ rpc \in RHolds /\ faults < MaxFaults
  /\ faults' = faults + 1
  /\ lock' = [lock EXCEPT ![Main] = Free]
  /\ rpc' = "retry" /\ timer' = Retry /\ gen' = NoKey
  /\ UNCHANGED <<disk, alive, stop, handlers>>

\* The fetch raises one that it does not catch (http.client.HTTPException).
RefresherDies ==
  /\ rpc = "fetch" /\ faults < MaxFaults
  /\ faults' = faults + 1
  /\ lock' = [lock EXCEPT ![Main] = Free]
  /\ rpc' = "dead" /\ gen' = NoKey
  /\ UNCHANGED <<disk, alive, timer, stop, handlers>>

\* time.sleep, which the stop event does not interrupt, is over.
RetryOver ==
  /\ rpc = "retry" /\ timer = 0
  /\ rpc' = "loop"
  /\ UNCHANGED <<disk, alive, lock, gen, timer, stop, handlers, faults>>

\* Time passes, also while no process runs.
Tick ==
  /\ (token # NoToken /\ age < Life) \/ timer > 0
  /\ age' = IF token # NoToken /\ age < Life THEN age + 1 ELSE age
  /\ timer' = IF timer > 0 THEN timer - 1 ELSE 0
  /\ UNCHANGED <<file, token, alive, lock, rpc, gen, stop, handlers, faults>>

-----------------------------------------------------------------------------
(* Processes. *)

ProcessEnds ==
  /\ alive' = {} /\ lock' = [p \in Processes |-> Free]
  /\ rpc' = "off" /\ gen' = NoKey /\ timer' = 0 /\ stop' = FALSE
  /\ hpc' = [h \in Handlers |-> "idle"]
  /\ resp' = [h \in Handlers |-> Blank]
  /\ clean' = [h \in Handlers |-> FALSE]

\* The server returns and __exit__ sets the event ...
Stop ==
  /\ alive = {Main} /\ ~stop
  /\ \A h \in Handlers : hpc[h] \in Quiet
  /\ stop' = TRUE
  /\ UNCHANGED <<disk, alive, lock, rpc, gen, timer, handlers, faults>>

\* ... and joins the thread.
Join ==
  /\ stop /\ rpc \in {"stopped", "dead"}
  /\ ProcessEnds
  /\ UNCHANGED <<disk, faults>>

\* The process dies anywhere; the files stay, but /dev/shm may be lost.
Crash ==
  /\ Main \in alive /\ faults < MaxFaults
  /\ faults' = faults + 1
  /\ file' \in {file, NoFiles}
  /\ ProcessEnds
  /\ UNCHANGED <<token, age>>

\* gunicorn forks worker w: the copy of a held lock has no holder in w.
Fork(w) ==
  /\ Main \in alive /\ w \notin alive
  /\ alive' = alive \cup {w}
  /\ lock' = [lock EXCEPT ![w] = IF lock[Main] = Free THEN Free ELSE Orphan]
  /\ UNCHANGED <<disk, refresher, handlers, faults>>

\* gunicorn ends worker w, with the requests it was serving.
Kill(w) ==
  /\ w \in alive /\ w # Main
  /\ alive' = alive \ {w}
  /\ lock' = [lock EXCEPT ![w] = Free]
  /\ hpc' = [h \in Handlers |-> IF Home[h] = w THEN "idle" ELSE hpc[h]]
  /\ resp' = [h \in Handlers |-> IF Home[h] = w THEN Blank ELSE resp[h]]
  /\ clean' = [h \in Handlers |-> clean[h] /\ Home[h] # w]
  /\ UNCHANGED <<disk, refresher, faults>>

-----------------------------------------------------------------------------
(* attest_connection in request thread h. *)

Request(h) ==
  /\ Home[h] \in alive /\ ~stop /\ hpc[h] \in Quiet
  /\ hpc' = [hpc EXCEPT ![h] = "snapshot"]
  /\ resp' = [resp EXCEPT ![h] = Blank]
  /\ clean' = [clean EXCEPT ![h] = FALSE]
  /\ UNCHANGED <<disk, alive, lock, refresher, faults>>

\* No verifier type, or no EKM: an error before anything is read.
Refuse(h) ==
  /\ Home[h] \in alive /\ ~stop /\ hpc[h] \in Quiet
  /\ hpc' = [hpc EXCEPT ![h] = "error"]
  /\ resp' = [resp EXCEPT ![h] = Blank]
  /\ clean' = [clean EXCEPT ![h] = FALSE]
  /\ UNCHANGED <<disk, alive, lock, refresher, faults>>

\* Mutant of Acquire: a snapshot does not wait for the lock.
AcquireUnlocked(h) ==
  /\ hpc[h] = "snapshot"
  /\ lock' = [lock EXCEPT ![Home[h]] = h]
  /\ hpc' = [hpc EXCEPT ![h] = "readEcdsa"]
  /\ clean' = [clean EXCEPT ![h] = Coherent]
  /\ UNCHANGED <<disk, alive, refresher, resp, faults>>

\* get_identity_snapshot takes the lock of its process.
Acquire(h) ==
  /\ hpc[h] = "snapshot" /\ lock[Home[h]] = Free
  /\ lock' = [lock EXCEPT ![Home[h]] = h]
  /\ hpc' = [hpc EXCEPT ![h] = "readEcdsa"]
  /\ clean' = [clean EXCEPT ![h] = Coherent]
  /\ UNCHANGED <<disk, alive, refresher, resp, faults>>

\* Mutant of Raise: an exception leaks the lock.
RaiseLocked(h) ==
  /\ lock' = lock
  /\ hpc' = [hpc EXCEPT ![h] = "error"]
  /\ resp' = [resp EXCEPT ![h] = Blank]

\* An exception leaves the `with' statement, if h is in it, and ends h.
Raise(h) ==
  /\ lock' = IF hpc[h] \in HHolds THEN [lock EXCEPT ![Home[h]] = Free] ELSE lock
  /\ hpc' = [hpc EXCEPT ![h] = "error"]
  /\ resp' = [resp EXCEPT ![h] = Blank]

ReadEcdsa(h) ==
  /\ hpc[h] = "readEcdsa"
  /\ \/ /\ file["ecdsaPub"] # NoKey
        /\ resp' = [resp EXCEPT ![h].ecdsa = file["ecdsaPub"]]
        /\ hpc' = [hpc EXCEPT ![h] = "readPqc"]
        /\ lock' = lock
     \/ file["ecdsaPub"] = NoKey /\ Raise(h)
  /\ UNCHANGED <<disk, alive, refresher, clean, faults>>

\* Mutant of ReadPqc: the lock covers the keys and not the token.
ReadPqcReleases(h) ==
  /\ hpc[h] = "readPqc"
  /\ \/ /\ file["pqcPub"] # NoKey
        /\ resp' = [resp EXCEPT ![h].pqc = file["pqcPub"]]
        /\ hpc' = [hpc EXCEPT ![h] = "readToken"]
        /\ lock' = [lock EXCEPT ![Home[h]] = Free]
     \/ file["pqcPub"] = NoKey /\ Raise(h)
  /\ UNCHANGED <<disk, alive, refresher, clean, faults>>

ReadPqc(h) ==
  /\ hpc[h] = "readPqc"
  /\ \/ /\ file["pqcPub"] # NoKey
        /\ resp' = [resp EXCEPT ![h].pqc = file["pqcPub"]]
        /\ hpc' = [hpc EXCEPT ![h] = "readToken"]
        /\ lock' = lock
     \/ file["pqcPub"] = NoKey /\ Raise(h)
  /\ UNCHANGED <<disk, alive, refresher, clean, faults>>

\* A missing token reads as the empty string; the lock is released.
ReadToken(h) ==
  /\ hpc[h] = "readToken"
  /\ resp' = [resp EXCEPT ![h].token = token]
  /\ hpc' = [hpc EXCEPT ![h] = "sign"]
  /\ lock' = [lock EXCEPT ![Home[h]] = Free]
  /\ UNCHANGED <<disk, alive, refresher, clean, faults>>

\* sign_payload reads the ECDSA private key, without the lock.
Sign(h) ==
  /\ hpc[h] = "sign"
  /\ \/ /\ file["ecdsaPriv"] # NoKey
        /\ resp' = [resp EXCEPT ![h].sig = file["ecdsaPriv"]]
        /\ hpc' = [hpc EXCEPT ![h] = "signPqc"]
        /\ lock' = lock
     \/ file["ecdsaPriv"] = NoKey /\ Raise(h)
  /\ UNCHANGED <<disk, alive, refresher, clean, faults>>

\* sign_payload_mldsa reads the ML-DSA one; then the response is built, unless
\* the request names another verifier or the token does not decode.
SignPqc(h) ==
  /\ hpc[h] = "signPqc"
  /\ \/ /\ file["pqcPriv"] # NoKey
        /\ Decodes(resp[h].token)
        /\ resp' = [resp EXCEPT ![h].pqcSig = file["pqcPriv"]]
        /\ hpc' = [hpc EXCEPT ![h] = "done"]
        /\ lock' = lock
     \/ Raise(h)
  /\ UNCHANGED <<disk, alive, refresher, clean, faults>>

\* A file that is there cannot be read: common.read_file raises for any OSError,
\* and nothing but a missing token file is caught.
ReadFails(h) ==
  /\ hpc[h] \in HHolds \cup {"sign", "signPqc"} /\ faults < MaxFaults
  /\ faults' = faults + 1
  /\ Raise(h)
  /\ UNCHANGED <<disk, alive, refresher, clean>>

-----------------------------------------------------------------------------

RefresherStep ==
  \/ Loop \/ TakeForDuration \/ ComputeDuration \/ WakeUp \/ BeginRefresh
  \/ \E n \in FileNames : WriteKey(n)
  \/ Fetch \/ SaveToken \/ RetryOver

HandlerStep(h) ==
  \/ Acquire(h) \/ ReadEcdsa(h) \/ ReadPqc(h) \/ ReadToken(h)
  \/ Sign(h) \/ SignPqc(h) \/ ReadFails(h)

Next ==
  \/ Start \/ RefresherStep \/ RefreshFails \/ RefresherDies \/ Tick
  \/ Stop \/ Join \/ Crash
  \/ \E w \in Processes : Fork(w) \/ Kill(w)
  \/ \E h \in Handlers : Request(h) \/ Refuse(h) \/ HandlerStep(h)

Spec == Init /\ [][Next]_vars

\* Fairness.  The scheduler runs every thread that can run, time passes, and a
\* thread that keeps finding the lock free gets it in the end: threading.Lock
\* hands a released lock to any of its waiters.  The TEE need not answer: the
\* fetch has no timeout.
Fairness ==
  /\ WF_vars(rpc # "fetch" /\ RefresherStep) /\ SF_vars(TakeForDuration) /\ SF_vars(BeginRefresh)
  /\ WF_vars(Tick) /\ WF_vars(Join)
  /\ \A h \in Handlers : WF_vars(HandlerStep(h)) /\ SF_vars(Acquire(h))

FairSpec == Spec /\ Fairness

-----------------------------------------------------------------------------
(* Properties. *)

RLocations ==
  {"off", "loop", "getToken", "wait", "acquire", "retry", "stopped", "dead"} \cup RHolds
HLocations == Quiet \cup HHolds \cup {"snapshot", "sign", "signPqc"}

\* Type invariant: every variable keeps the shape the code gives it.
TypeOK ==
  /\ file \in [FileNames -> Maybe]
  /\ token \in Token \cup {NoToken}
  /\ age \in 0..Life
  /\ alive \in SUBSET Processes
  /\ lock \in [Processes -> Handlers \cup {Refresher, Free, Orphan}]
  /\ rpc \in RLocations /\ gen \in Maybe /\ timer \in Nat /\ stop \in BOOLEAN
  /\ hpc \in [Handlers -> HLocations]
  /\ resp \in [Handlers -> Response]
  /\ clean \in [Handlers -> BOOLEAN]
  /\ faults \in 0..MaxFaults

\* The lock of a process is held by exactly the thread that is inside one of
\* TokenManager's `with self._lock' blocks: no path, failing ones included,
\* leaks it, and only a fork can leave a copy that no thread will release.
LockInv ==
  /\ lock[Main] = Refresher <=> rpc \in RHolds
  /\ \A p \in Processes : lock[p] \in {Refresher, Orphan} => p = Main <=> lock[p] = Refresher
  /\ \A h \in Handlers, p \in Processes :
       lock[p] = h <=> p = Home[h] /\ hpc[h] \in HHolds

\* A process that does not run serves nothing, and workers need their master.
ProcessInv ==
  /\ \A h \in Handlers : Home[h] \notin alive => hpc[h] = "idle"
  /\ rpc = "off" <=> Main \notin alive
  /\ Main \notin alive => alive = {}

\* A worker forked while the refresher held the lock never answers: until it
\* ends its copy stays orphaned, and no request of it gets past the wait for
\* the lock, but to be refused before it.
OrphanedWorkerIsMute ==
  [][\A w \in Processes : lock[w] = Orphan =>
       \/ w \notin alive'
       \/ /\ lock'[w] = Orphan
          /\ \A h \in Handlers : Home[h] = w => hpc'[h] \in {"idle", "snapshot", "error"}]_vars

\* The files do not change while a request thread of the refresher's own
\* process is between the reads of its snapshot (token.py, _lock).
SnapshotStable ==
  [][\A h \in Handlers : lock[Main] = h /\ Main \in alive' => UNCHANGED <<file, token>>]_vars

\* A token reaches its file only when all four key files hold the pair its
\* nonces bind: a failure between two writes never publishes a token.
TokenCertifiesDisk == [][token' # token => Coherent']_vars

\* If the identity was coherent when the snapshot began and no file was
\* replaced while the response was signed, a client can verify the response:
\* token, public keys and both signatures are of one pair.
CleanResponseVerifies ==
  \A h \in Handlers : clean[h] /\ hpc[h] = "done" =>
    \E k \in Keys :
      /\ resp[h].ecdsa = k /\ resp[h].pqc = k /\ resp[h].sig = k /\ resp[h].pqcSig = k
      /\ resp[h].token # NoToken /\ resp[h].token.ecdsa = k /\ resp[h].token.pqc = k

\* The five parts of a response fit together, as a client checks them.
Verifiable(r) ==
  /\ r.token # NoToken
  /\ r.ecdsa = r.token.ecdsa /\ r.sig = r.ecdsa
  /\ r.pqc = r.token.pqc /\ r.pqcSig = r.pqc

\* In every deployment, also where the lock of get_identity_snapshot excludes
\* nothing, a response that verifies is of one rotation: whatever is mixed of
\* several is refused, for no token binds halves of two pairs.
VerifiableIsOnePair ==
  \A h \in Handlers : hpc[h] = "done" /\ Verifiable(resp[h]) => resp[h].ecdsa = resp[h].pqc

\* An identity broken by a failed or interrupted rotation is never slept on for
\* longer than the jitter, although _calculate_refresh_duration looks only at
\* the token's times; keys lost with /dev/shm are the exception.
BrokenIdentityIsUrgent ==
  rpc = "wait" /\ ~Coherent /\ file # NoFiles => timer <= Jitter

\* The refresher never sleeps past the 90% mark of the token on disk.
WakesByTheMark ==
  rpc = "wait" /\ token # NoToken /\ token.kind = "jwt" => timer = 0 \/ age + timer <= Mark

\* Keys that a token vouches for are not replaced before that token comes within
\* the jitter of its mark, whatever failures, retries and restarts came before:
\* a rotation breaks the responses in flight, so it must be rare.
KeysLastUntilDue ==
  [][file' # file /\ Main \in alive' =>
       token = NoToken \/ token.kind # "jwt" \/ age + Jitter >= Mark]_vars

\* No fetch waits for ever.
TeeAnswers == []<>(rpc # "fetch")

\* While the server keeps running, it always comes back to an identity that
\* verifies, whatever failed or crashed before, with three exceptions only: the
\* TEE leaves a fetch waiting for ever, an error that _run does not catch
\* ended the refresher, or the token on disk is not UTF-8.
Recovery ==
  TeeAnswers /\ <>[](Main \in alive /\ ~stop /\ rpc # "dead" /\ Decodes(token))
    => []<>Coherent

\* Every attestation request is answered, also those that arrive during a
\* rotation or after the refresher died: only a TEE that never answers, while
\* the lock is held for it, can hold one.
RequestsAnswered ==
  TeeAnswers => \A h \in Handlers : hpc[h] = "snapshot" ~> hpc[h] \in Quiet

\* __exit__ returns: the refresher notices the event and is joined, unless the
\* TEE never answers.
ShutdownCompletes == TeeAnswers => (stop ~> Main \notin alive)

\* The three reads of a snapshot are as one: see IdentityStore.
Identity == <<file["ecdsaPub"], file["pqcPub"], token>>
Store == INSTANCE IdentityStore WITH
  Values <- Maybe \X Maybe \X (Token \cup {NoToken}),
  Nothing <- NoToken,
  Readers <- Handlers,
  store <- Identity,
  busy <- rpc \in Refreshing,
  snap <- [h \in Handlers |->
             IF hpc[h] \in {"sign", "signPqc", "done"}
               THEN <<resp[h].ecdsa, resp[h].pqc, resp[h].token>> ELSE NoToken]
SnapshotsAreAtomic == Store!Spec

\* ARCHITECTURE.md:138, KeyManager "maintains a brief overlap window during
\* rotation": a response in flight while the keys rotate still verifies.
RotationOverlaps ==
  \A h \in Handlers : hpc[h] = "done" =>
    resp[h].sig = resp[h].ecdsa /\ resp[h].pqcSig = resp[h].pqc

\* server/attestation.py:45, the response contains an attestation "token with
\* the hash of the server's public key embedded in it".
ResponseTokenBindsKeys ==
  \A h \in Handlers : hpc[h] = "done" =>
    /\ resp[h].token # NoToken
    /\ resp[h].token.ecdsa = resp[h].ecdsa /\ resp[h].token.pqc = resp[h].pqc

\* That takes a failure or a crash: until there is one, every response has the token
\* that binds its keys, however requests and rotations overlap.
BindsUntilFault == faults = 0 => ResponseTokenBindsKeys

\* server/token.py:219, a snapshot gets "the current public keys and
\* attestation token together".
SnapshotTogether ==
  \A h \in Handlers : clean[h] /\ hpc[h] \in {"sign", "signPqc"} =>
    /\ resp[h].ecdsa = resp[h].pqc
    /\ resp[h].token.ecdsa = resp[h].ecdsa /\ resp[h].token.pqc = resp[h].pqc

\* server/token.py:255, "Failed to parse token ... Refreshing immediately": a
\* token that cannot be read for its times is replaced.
UnparsableTokenReplaced ==
  (token # NoToken /\ token.kind = "binary" /\ Main \in alive)
    ~> (token # NoToken /\ token.kind # "binary") \/ Main \notin alive
=============================================================================
