# Verification of the Prompt Encryption SDK

TLA+ specifications of the SDK in `src/prompt_encryption_sdk/`: TLC checks them on
small instances, and TLAPS proves the main results for every instance.

## 1. The system

A server in a trusted execution environment (TEE) proves to a client, inside an
ordinary TLS session, that the session ends in attested software. The client
sends `POST /_attest-connection`; the server answers with a token the TEE issued,
two public keys whose fingerprints are nonces of the token, and signatures by
both keys over the keying material (EKM) of the session and the token. Only then
does the client send its prompts, and only over an attested connection does the
server pass requests to the application.

| component | state | operations | interacts with | hard behaviour | correct when |
|---|---|---|---|---|---|
| `server/common.py` | one file, its `.tmp` | `write_file`, `read_file` | key and token files, read by other threads and processes | crash or error in a write; readers hold no lock | a reader sees whole files only |
| `server/keys.py` KeyManager | four key files in `/dev/shm` | `generate_key_pair` (four writes), `sign_payload`, `sign_payload_mldsa`, reads of the public keys | refresher writes, request threads read | rotation in between two reads; partial failure | a response uses one key pair |
| `server/token.py` TokenManager | token file, lock, stop event, thread | `_run`, `refresh`, `_calculate_refresh_duration`, `get_identity_snapshot`, `__enter__`, `__exit__` | TEE server (fetch), KeyManager, request threads | failures midway, crash and restart, timers, an uncaught error, shutdown | published tokens bind the keys on disk; a broken identity is repaired; lock never leaked |
| `server/attestation.py` AttestedTLS | none | `attest_connection` | TokenManager, KeyManager, TLS | signs after the lock is released | token, keys and signatures fit together |
| `server/asgi.py`, `server/wsgi.py` | `_attested_sockets` | the gate, `handle_attestation`, `run_uvicorn_app`, `run_gunicorn_app` | AttestedTLS, application, gunicorn's forks | marks before the client judged; a lock copied by `fork` | only attested sockets reach the application |
| `client/connection.py` | `sock`, `is_attested`, `_last_attestation_time` per connection | `connect`, `request`, `revalidate_session` | urllib3's pool, validator, server | stale flags after close, revalidation at the boundary, drops at any moment | data goes only to a TEE validated recently |
| `client/validator.py` | one response being judged | `validate`, `_enforce_policy`, OIDC discovery | token issuer | pieces of evidence mixed; order of checks; unset and malformed fields | accepts exactly an unbroken chain of trust |
| `client/client.py`, constants, exceptions | none | sets policy and timeout, opens and closes sessions of requests | pool | a call's session dies with it | the timeout in force is the caller's or the default |
| `ekm/` | none | `export_keying_material` | OpenSSL, the SSL objects of `ssl`, uvicorn, gunicorn | wrapped, missing and unconnected sockets | the value is of this session and this nonce |

Outside the SDK, and modelled only through how the code uses them: the TEE's token
service, gunicorn's and uvicorn's processes, urllib3's pool, TLS, the clock.

## 2. Modules

| module | models |
|---|---|
| `TokenManager` | files, refresher thread, request threads and processes: `token.py`, `keys.py`, `attestation.py`, process structure of `asgi.py` and `wsgi.py` |
| `IdentityStore` | the abstract promise of `get_identity_snapshot`: it copies, in one step, a state in which no rotation is under way |
| `Register` | the abstract promise of `write_file` and `read_file`: an atomic register |
| `AtomicFile` | `write_file` and readers on names and inodes; it implements `Register`, which justifies that a write is one step of `TokenManager` |
| `TrustedChannel` | the abstract promise of `AttestedHTTPSConnection` and the gate to the caller: a request leaves only under a young proof, the TEE serves it at most once, and what returns is the answer to it |
| `Channel` | TLS sessions and the message each carries, shared by the next two |
| `Connection` | the client's end: `connection.py` under urllib3's pool |
| `Middleware` | the server's end: the gate of `asgi.py` and `wsgi.py`, and a server that is not the TEE |
| `AttestedSession` | `Connection` and `Middleware` composed; it implements `TrustedChannel` |
| `Validator` | `validator.py`: one call of `validate`, check by check |
| `Handshake` | extends `Validator` to one handshake from end to end: request, middleware, `attest_connection`, the export of keying material at both ends (`ekm/`), answer |
| `MCTokenManager`, `MCValidator` | constants and inputs for TLC |
| `TokenManagerProofs`, `AtomicFileProofs`, `AttestedSessionProofs`, `ValidatorProofs`, `HandshakeProofs` | theorems |

**TokenManager.** `file`, `token` are what is on disk; a key pair is a name, a
file holding `k` holds a half of pair `k`. `rpc` is the line the refresher is at,
`hpc[h]` the line request thread `h` is at. Each file access is a step, so every
interleaving of a rotation (four files, fetch, token) with a snapshot (three
reads) and the two signatures occurs. `lock` has one copy per process. `Home`
makes the deployment: under uvicorn all handlers live in `Main`; under gunicorn
they live in a worker, `Fork` copies the master's lock, and a copy of a held lock
is `Orphan`: nobody in the worker will release it. `age` is the time since the
token's `iat`; `Life`, `Mark`, `Jitter`, `Retry` are its lifespan, the 90% mark,
the jitter window and the retry interval in ticks. `RefreshFails` stands for every
error `_run` catches, at any step under the lock; `RefresherDies` for the one it
does not (`http.client.HTTPException`); `ReadFails` for a file a request thread
finds and cannot read, where a missing token file is not an error; `Crash` may lose `/dev/shm` and keeps the
token, which has another path. `BeginRefresh` picks a pair not in use; pairs no
longer visible are reused, which keeps the instances finite. `clean` is history:
the identity was coherent when the snapshot began and no write fell between it
and the end of the signatures.

**AtomicFile.** A name refers to an inode, a descriptor keeps one alive. The value
of the register is the content the name refers to; a `write_file` call takes
effect at `os.replace` or never, a `read_file` call settles on a value when it
opens the file.

**Validator.** The arguments are fixed in `Init`; each action is a check of
`validate` with its early exits; `step` ends as `"accepted"` or the exception
raised. Tokens are records of what the code reads. Cryptography is perfect. A
Tink keyset is one key, as every keyset the server writes is: `validate` would
accept a signature by any key of a larger one, but the fingerprint the token
binds is that of the whole keyset.

**Handshake.** Here the response that `validate` judges is made, not given. What
TokenManager and AttestedSession treat as concurrent is an input: `identity` is
whatever a server holds, torn or whole, and `asked` the request the answer was
made for, which may be another session's or an earlier one of this session. An SSL
object is the list of types met when following `_sslobj`: `attest_connection`
tries the object's own method, then unwraps one level, and `exporter.py` the
rest; the C extension accepts a connected `_SSLSocket` only. The middleware hands
the object over or finds none. Keying material is a record of session and
context, as RFC 5705 has it.

**AttestedSession.** A session has an owner (`peer`), a message (`wire`) and is
`open` or not. `proof` and `tokenAge` are history: how long ago, in true time, a
session was validated, and the age now of the token it was validated with. `last`
is what the client itself computes from `time.time()`, a wall clock that
`SetClock` moves forward or back; `back` is history, how far back. Evidence that
other modules judge in detail is here a few values: which session's EKM it signs,
the age of its token, and whether it is `sound`: something in it may not verify,
or the response may close the connection, so that the client has no socket left
to export from. A server presents a token for as long as it has no other: after a
refresh that failed before its first write, until it expires and beyond. So the
age of a token has no other limit than that `Validates` refuses an expired one,
by a clock that may be late by `back`. Evidence ages on the wire like the token of
a validated session. A call may time out where it waits for the server, and its
connection is then closed, but nothing makes it: the SDK sets no timeout, and one
a caller passes is for each read of the socket. The pool hands the same object out
again, with the flags as they were, or retires it. The client's time does not
advance between its check of the revalidation timeout and the send, which is a
computation. Under
the mapping to `TrustedChannel` a connection has a proof when its session is open
and ends in the TEE, and a request from the send until the response is read or
the session ends. An answer of anything but the application behind the gate (a
401, evidence, another server's) is a value the abstract request never has.

The definitions whose comment begins "Mutant of" are not part of any
specification: each is a plausible bug in the definition it follows or precedes,
and with it the named property fails, which shows that the property can.

## 3. Runs

| run | instance | checks |
|---|---|---|
| `uvicorn_safety` | one process, one handler, 7 pairs, 2 faults, all kinds of token but the opaque (treated alike) | `TypeOK`, `LockInv`, `CleanResponseVerifies`, `BrokenIdentityIsUrgent`, `WakesByTheMark`, `SnapshotTogether`, `BindsUntilFault`, `SnapshotStable`, `TokenCertifiesDisk`, `KeysLastUntilDue`, and that TokenManager implements IdentityStore (`SnapshotsAreAtomic`) |
| `uvicorn_liveness` | one process, one handler, 6 pairs, 1 fault, tokens that decode and tokens that do not, `Life` 2, fairness | `Recovery`, `RequestsAnswered`, `ShutdownCompletes` |
| `gunicorn_fork` | master and a worker, 8 pairs, 1 fault | that a worker forked while the refresher holds the lock never answers (`OrphanedWorkerIsMute`), and that what verifies at a client is of one rotation even where the lock excludes nothing (`VerifiableIsOnePair`) |
| `attested_session` | 2 connections, 2 sessions, tokens that live one tick, timeout of one tick, a clock set back by one, fairness | `TypeOK`, `NeverUnauthorized`, `PoolHoldsOnlyValidated`, `SendsToFreshTee`; no request relies on a token that expired longer ago than the timeout (`OverrunIsBounded`); client and gate implement TrustedChannel (`RequestsAreTrusted`); client and server never wait for each other (`WaitsForItsAnswer`), every call ends that no server holds for ever (`CallsEnd`), and calls stop failing when nothing fails them any more (`HealthyCallsAreServed`) |
| `validator` | every section of a policy against every claim it reads; then one policy against every mix of bundles, keys and signatures; then whole handshakes: every request with every pair of SSL objects, and every identity of 2 pairs and 7 tokens | `HandshakeTypeOK`, `AcceptsOnlyEndorsed`, `EndorsedIsAccepted`, `ViolationsAreVerified`, `WeakerAcceptsMore`, `AcceptanceIsFresh`, `AcceptedWhenSound` |
| `atomic_file` | 2 readers, 4 inodes, 2 contents, 2 faults | `TypeOK`, `ReplacedWhole`, `OpenFileIsStable`, and that AtomicFile implements Register (`ReadsAreAtomic`) |

*Bounds.* The disk and a handler hold the halves of several pairs at once, so the
number of pairs is chosen for a free one to be left whenever a rotation begins: 7
in `uvicorn_safety`, 6 in `uvicorn_liveness` and `binary_token`, 8 in
`gunicorn_fork`, where a worker may read in the midst of several rotations; the
counterexample of `gunicorn_snapshot` needs fewer. TLC finds
`rpc = "acquire" => ~(Keys \subseteq InUse)` invariant in each of these four, so
this guard of `BeginRefresh` never makes a rotation wait. Two faults cover a
failure that meets the remains of another. `Life` 3, `Mark` 2, `Jitter` 1 give
tokens before, inside and past the jitter window; `Life` 2 in `uvicorn_liveness`
leaves out only a token past its mark and not yet expired, which the refresher
treats as an expired one. In `attested_session` a session's name is free again
once both ends forgot it, so two names give unboundedly many sessions, two at a
time, one for each connection, and connections compete for them; one for a third
party is not needed, because evidence for the other session is what a relay would
pass on. With `Life` 1, a timeout of 1 and a clock set back by 1, tokens are
accepted on their last tick and, by a late clock, after it, and overrun their end
while the session lasts. Ages are counted up to `Oldest`, one more than the
largest the code compares; tokens on the wire up to `Dead`, the first age at which
no clock accepts them; those of sessions up to `Eldest`, the first that
`OverrunIsBounded` excludes; what the client counts, up to `Stale`, above which no
setting of the clock brings it back under the timeout. The validator's sections
are independent of each other (each reads its own claims), so they are varied one
at a time; so are, in a handshake, the transport and the identity. Two sessions
and two nonces suffice for an answer to be another's.

*Fairness* (`uvicorn_liveness`, `binary_token`). Weak fairness of each thread's
steps and of the clock: the operating system schedules every thread. Strong
fairness of taking the lock: `threading.Lock` wakes a waiter each time it is
released, so a thread to which it becomes free again and again gets it. `Fetch` is
not fair: the code has no timeout there, so the TEE may leave it waiting for ever,
with the lock held. That it does not is the premise `TeeAnswers` of the three
properties, and TLC finds each of them false without it. Nothing makes failures,
crashes or new requests happen. `Recovery` has two more exceptions, both real: a
refresher ended by an error `_run` does not catch, and a token on disk that does
not decode, which `binary_token` shows to stay for ever. Each is necessary:
without it TLC finds `Recovery` false.

*Fairness* (`attested_session`). Weak fairness of the steps of each call that has
begun, `Advances`: its thread runs when it need not wait. Timeouts are not among
them, for neither requests and urllib3 nor the SDK set one unless the caller does,
and a server that sends a byte now and then outlasts any. Nor is `Connect`: a
server may leave the TLS handshake unfinished. So a server may hold a call for
ever, and the premise of `CallsEnd` is that this one does not: again and again
nothing of the call is left before it (`Held`). `WaitsForItsAnswer` says that
over an open session this is all a call ever waits for. Nothing is asked of servers, network, clock or the
start of calls; `HealthyCallsAreServed` says in its premise that they give no
`Trouble` from some moment on. A server that closes every connection gives trouble
with every answer: gunicorn's `SyncWorker`, which the worker of `run_gunicorn_app`
extends, is such a server, and of that deployment the property says nothing.

*What the code does otherwise than its documents say.* Six runs end in a
counterexample; each checks one sentence of the repository.

| run | sentence | what happens |
|---|---|---|
| `rotation_overlap` | ARCHITECTURE.md:138, "maintains a brief overlap window during rotation" | a rotation between snapshot and signatures gives a response that does not verify |
| `token_binding` | attestation.py:45, the token has "the hash of the server's public key embedded in it" | after a failed fetch new keys are served with the old token, or none |
| `gunicorn_snapshot` | token.py:219, keys and token are read "together" | in a worker the lock excludes nothing, and the snapshot mixes pairs |
| `binary_token` | token.py:255, unreadable tokens are refreshed "immediately" | one that is not UTF-8 is retried for ever |
| `token_expiry` | constants.py:39, "we revalidate slightly before" tokens expire | the timeout runs from the handshake; with ticks of five minutes (Life 12, the default timeout 11) a request leaves on an expired token |
| `no_policy` | validator.py:397, "No attestation policy configured; skipping enforcement." | validate raises AttributeError before that line |

For each there is a theorem that says how far the sentence is true, or how bad the
disagreement is (section 4).

| sentence of | what is proved |
|---|---|
| `rotation_overlap` | `CleanResponsesVerify`: with one process, a response that began on a coherent identity and that no write disturbed verifies |
| `token_binding` | `FaultFreeResponsesBind`: with one process, it takes a failure or a crash; until then every response has the token that binds its keys |
| `gunicorn_snapshot` | `SnapshotsAreTogether`: with one process, so under uvicorn, the sentence holds; `VerifiableResponsesAreOnePair`: under gunicorn a mixed snapshot never verifies, so it costs availability only |
| `binary_token` | `UndecodableTokensStay`: no step of any thread or process replaces such a token, and the keys change only when a crash loses them |
| `token_expiry` | `TokenOverrunIsBounded`: a request relies on a token that expired less than the timeout ago, plus what the clock was set back. Only a timeout of zero, on a clock that is never set back, makes the sentence true, for a server whose refreshes fail presents a token until its last moment |
| `no_policy` | `NoPolicyAcceptsNothing`: such a client accepts no response at all |

## 4. Proofs

All theorems hold for every number of handlers, processes, pairs, sessions and
connections and every value of the timing constants, under the named assumptions
of the modules only.

*TokenManagerProofs.* `TypeCorrect`; `LocksAreSound` from `TypeOK /\ ProcessInv /\
LockInv`: that a process which does not run has idle handlers is needed because a
fork starts with a fresh copy of the lock. `TokensCertifyDisk` needs to know what
a rotation has written so far: `RotationInv` says that, while the refresher is at
one of the writes, the files written before it hold `gen`.
`BrokenIdentityIsSoonRetried` is the least obvious: the refresher computes its wait from the token's
age only, and the reason a broken identity is not slept on is that a rotation
only begins when the token is within the jitter of its mark, and time does not run
backwards. `DueInv` states just that, of every location. `SnapshotsAreStable`
follows from the lock. `CleanResponsesVerify` and `SnapshotIsAtomic` assume that
all handlers live in `Main` (`OneProcess`): under gunicorn both are false, see
`gunicorn_snapshot`. `SnapshotIsAtomic` is a refinement: the three reads are
stutters but the last, which is `Snapshot` of IdentityStore.

`SnapshotsAreTogether` and `FaultFreeResponsesBind` are the uvicorn side of two
findings and assume `OneProcess` too. The second needs `FaultFreeInv`: until the
first fault the only writer is a rotation that completes, so outside of one the
four files are coherent or nothing was ever written, and a request thread that
holds the lock reads one of the two. `VerifiableResponsesAreOnePair` needs no such
assumption: `PairInv` says that no token, on disk or read by whichever thread
however long ago, binds halves of two pairs, which follows from `TokensCertifyDisk`.

`ShutdownIsShort` is a measure, `LeftToStop`: once the event is set, every step of
the refresher and every tick of a retry lowers it, failures included, and nothing
raises it. What is left of `ShutdownCompletes` for fairness is that the lock
and the TEE's answer come.

`RefresherWakesByTheMark` and `KeysAreKeptUntilDue` come out of `DueInv` too.
`OrphanedWorkersAreMute` needs `MuteInv`: an orphaned copy belongs to a worker
that runs, and none of its request threads is past the lock. A fork copies a held
lock into a worker whose threads are idle, nobody but the holder releases a copy,
and the holder is in another process.

*AtomicFileProofs.* `TypeCorrect`, `NamesAreReplacedWhole`, `OpenFilesAreStable`,
`FileIsRegister` from one invariant: the file the name refers to and every file a
reader has open are complete and are not the temporary one. It is needed because
the temporary name is fixed and is truncated without a lock when it is reused.
`FileIsRegister` is a refinement for any number of readers and inodes.

*ValidatorProofs.* `PolicyIsDemanded` and `OnlyPolicyIsDemanded` together say that
`_enforce_policy` passes exactly the claims that state everything the policy
requires, as sets; the second needs that a key id is never a pair
(`KeyIdAssumption`). `AcceptedIsEndorsed`, `EndorsedAreAccepted`,
`ViolationsAreReal` and `WeakerPoliciesAcceptMore` follow from them and from
`Judged`, which lists what each passed check has established. That the first GCA
bundle exists, when there is any, uses that the naturals are well ordered.

*HandshakeProofs.* `AcceptedAnswersAreFresh`: `Fresh` follows the keying material of
both ends through the phases of the handshake to the signature that is compared.
`HandshakeTypeCorrect` and `HandshakesAreSound` add `Progress`, which says of each
phase which parts of `Sound` the handshake has been through by then, and of a phase
that gives up that some part is missing; and they carry the invariants of
ValidatorProofs over to a handshake, whose response is not given but made. What
links the two is `ChainIsSound`: for the answer of `attest_connection`, the chain of
trust that `validate` checks is unbroken exactly when the parts are sound.

*AttestedSessionProofs.* `TypeCorrect`, and `DataGoesToFreshTee`,
`ClientsAreAuthorized`, `PoolIsValidated` from one inductive invariant: the
server's part says that evidence on a wire, or a validated session, implies that
its socket is marked; the client's part says, location by location, what is known
of the session in `sock`, that no two connections share one, that the session's
own `proof` is older than `last` by at most what the clock was set back, and its
token by less than its life more.

`DataGoesToFreshTee` and `TokenOverrunIsBounded` are in true time: a session is
never used longer than the timeout plus what the wall clock was set back, and its
token never longer than that after its end. The second follows from what the
client checks only and takes nothing for granted of the age of the tokens a server
presents.

`SessionIsTrustedChannel` is a refinement step by step: each view of a connection
(`ProofOf`, `RequestOf`) changes only with its own steps and with its session
(`OthersKeep`), `Validate` is `Prove`, the application's answer is `Serve`, and
the end of a session at either end is `Lose`. It needs `WaitInv`, that a session
whose client waits for a response carries the request or the application's answer:
this is where the gate, the client's handshake and the closing of a connection
that timed out meet. `NobodyWaitsInVain` adds the same for the handshake,
`EvidenceInv`, and `CallsAreShort` has a measure, `StepsLeft`, that every step of
a call lowers and nothing else changes. Together they are the safety half of
`CallsEnd`: what is left for fairness is that the thread runs and the server
answers.

Only model-checked: `Recovery`, `RequestsAnswered`, `ShutdownCompletes`,
`CallsEnd` and `HealthyCallsAreServed`, which rest on fairness (out of reach of
the prover). Every other property of a passing run is proved, most of them for all
deployments, those named above for one process.

## 5. Not modelled

- Loss of unsynced data in a crash of the host: `write_file` does not `fsync`,
  but the files live in the memory of a TEE.
- A wall clock that is set back on the server, in `Duration`; on the client it is
  modelled.
- ASGI scopes other than http, which the middleware passes on by design.
- The layout of CPython's SSL object, which `_ekm.c` relies on, and OpenSSL.
- The details of OIDC discovery: a failed one falls back to constants, and
  both are the alternative of `Discover` that goes on.
- The HTTP session each handshake's validator opens (connection.py:165) and leaves
  to the garbage collector: urllib3 closes it in a finalizer, and no state
  that a property is about depends on it. The validator's `close`.
- The TokenManager accessors `get_public_key` and `get_pqc_public_key`, which
  nothing calls.
- Key ids with a colon, in required image signatures: the protocol file calls
  them hex digests.
- Examples, code labs, build files, tests.

## 6. Plan

Done: TokenManager with IdentityStore, AtomicFile with Register, the session
modules with TrustedChannel and liveness of calls, Validator, Handshake; their
safety by TLC and by proof; for each finding, a theorem that says how far the
sentence holds.

1. Prove: that TokenManager's responses are the identities Handshake judges, so
   that `Verifiable` is its `Whole`; a measure for `RequestsAnswered`, as there is
   for shutdown and for calls.
2. Extend: two request threads in one instance of TokenManager, which the proofs
   cover already; a server's wall clock; a pool's limit on connections.
