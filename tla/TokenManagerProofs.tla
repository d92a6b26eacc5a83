------------------------- MODULE TokenManagerProofs -------------------------
(***************************************************************************)
(* Safety of TokenManager for every number of request threads, processes   *)
(* and key pairs.                                                          *)
(***************************************************************************)
EXTENDS TokenManager, TLAPS

USE DEF disk, refresher, handlers, vars

-----------------------------------------------------------------------------
(* Type correctness. *)

\* A new pair is a pair, and is in use nowhere.
LEMMA FreshPair ==
  ASSUME ~(Keys \subseteq InUse)
  PROVE  (CHOOSE k \in Keys : k \notin InUse) \in Keys \ InUse
  OBVIOUS

\* What a request thread holds is typed, and stays so when one field is set.
LEMMA ResponseFields ==
  ASSUME NEW r \in Response, NEW k \in Maybe, NEW t \in Token \cup {NoToken}
  PROVE  /\ [r EXCEPT !.ecdsa = k] \in Response
         /\ [r EXCEPT !.pqc = k] \in Response
         /\ [r EXCEPT !.sig = k] \in Response
         /\ [r EXCEPT !.pqcSig = k] \in Response
         /\ [r EXCEPT !.token = t] \in Response
  BY DEF Response

LEMMA BlankType == Blank \in Response
  BY DEF Blank, Response, Maybe

LEMMA NoFilesType == NoFiles \in [FileNames -> Maybe]
  BY DEF NoFiles, Maybe

LEMMA TypeInit ==
  ASSUME Init
  PROVE  TypeOK
<1>1. file \in [FileNames -> Maybe]
  BY NoFilesType DEF Init
<1>2. /\ hpc \in [Handlers -> HLocations]
      /\ resp \in [Handlers -> Response]
      /\ clean \in [Handlers -> BOOLEAN]
      /\ lock \in [Processes -> Handlers \cup {Refresher, Free, Orphan}]
  BY BlankType DEF Init, HLocations, Quiet
<1>3. /\ token \in Token \cup {NoToken} /\ age \in 0..Life /\ faults \in 0..MaxFaults
      /\ timer \in Nat /\ gen \in Maybe
  BY TimeAssumption DEF Init, Maybe
<1>4. rpc \in RLocations /\ stop \in BOOLEAN /\ alive \in SUBSET Processes
  BY DEF Init, RLocations
<1>. QED
  BY <1>1, <1>2, <1>3, <1>4 DEF TypeOK

\* The steps of the refresher keep the types.
LEMMA TypeRefresher ==
  ASSUME TypeOK, RefresherStep \/ RefreshFails \/ RefresherDies \/ Tick \/ Start
  PROVE  TypeOK'
<1> USE ProcessAssumption, TimeAssumption, ValueAssumption
        DEF TypeOK, RLocations, RHolds, Refreshing
<1>1. CASE Loop \/ Start \/ Fetch \/ RetryOver \/ WakeUp
  BY <1>1 DEF Loop, Start, Fetch, RetryOver, WakeUp
<1>2. CASE TakeForDuration \/ RefreshFails \/ RefresherDies
  BY <1>2 DEF TakeForDuration, RefreshFails, RefresherDies, Maybe
<1>3. CASE ComputeDuration
  <2>1. \A j \in 0..Jitter : Duration(j) \in Nat
    BY DEF Duration
  <2>. QED  BY <1>3, <2>1 DEF ComputeDuration
<1>4. CASE BeginRefresh
  BY <1>4, FreshPair DEF BeginRefresh, FileNames, Maybe
<1>5. CASE \E n \in FileNames : WriteKey(n)
  BY <1>5 DEF WriteKey, Disturb, After, FileNames, Maybe
<1>6. CASE SaveToken
  <2>1. token' \in Token
    BY <1>6 DEF SaveToken, Token, FileNames, TokenKinds
  <2>. QED  BY <1>6, <2>1 DEF SaveToken, Disturb, Maybe
<1>7. CASE Tick
  BY <1>7 DEF Tick
<1>. QED  BY <1>1, <1>2, <1>3, <1>4, <1>5, <1>6, <1>7 DEF RefresherStep

\* So do the steps that start and end processes.
LEMMA TypeProcesses ==
  ASSUME TypeOK, \/ Stop \/ Join \/ Crash
                 \/ \E w \in Processes : Fork(w) \/ Kill(w)
  PROVE  TypeOK'
<1> USE ProcessAssumption, TimeAssumption, BlankType
        DEF TypeOK, RLocations, HLocations, Quiet
<1>1. CASE Stop
  BY <1>1 DEF Stop
<1>2. CASE Join
  BY <1>2 DEF Join, ProcessEnds, Maybe
<1>3. CASE Crash
  <2>1. file' \in [FileNames -> Maybe]
    BY <1>3, NoFilesType DEF Crash
  <2>2. /\ hpc' \in [Handlers -> HLocations]
        /\ resp' \in [Handlers -> Response]
        /\ clean' \in [Handlers -> BOOLEAN]
        /\ lock' \in [Processes -> Handlers \cup {Refresher, Free, Orphan}]
    BY <1>3 DEF Crash, ProcessEnds
  <2>3. /\ token' \in Token \cup {NoToken} /\ age' \in 0..Life
        /\ faults' \in 0..MaxFaults /\ timer' \in Nat /\ gen' \in Maybe
    BY <1>3 DEF Crash, ProcessEnds, Maybe
  <2>4. rpc' \in RLocations /\ stop' \in BOOLEAN /\ alive' \in SUBSET Processes
    BY <1>3 DEF Crash, ProcessEnds
  <2>. QED  BY <2>1, <2>2, <2>3, <2>4 DEF TypeOK
<1>4. ASSUME NEW w \in Processes, Fork(w)  PROVE TypeOK'
  BY <1>4 DEF Fork
<1>5. ASSUME NEW w \in Processes, Kill(w)  PROVE TypeOK'
  BY <1>5 DEF Kill
<1>. QED  BY <1>1, <1>2, <1>3, <1>4, <1>5

\* And the steps of a request thread.
LEMMA TypeHandler ==
  ASSUME TypeOK, NEW h \in Handlers, Request(h) \/ Refuse(h) \/ HandlerStep(h)
  PROVE  TypeOK'
<1> USE ProcessAssumption, BlankType DEF TypeOK, HLocations, HHolds, Quiet
<1>0. \A n \in FileNames : file[n] \in Maybe
  OBVIOUS
<1>1. CASE Request(h) \/ Refuse(h)
  <2>1. hpc' \in [Handlers -> HLocations]
    BY <1>1 DEF Request, Refuse
  <2>2. resp' \in [Handlers -> Response]
    BY <1>1 DEF Request, Refuse
  <2>3. clean' \in [Handlers -> BOOLEAN]
    BY <1>1 DEF Request, Refuse
  <2>. QED  BY <1>1, <2>1, <2>2, <2>3 DEF Request, Refuse
<1>2. CASE Acquire(h)
  BY <1>2 DEF Acquire, Coherent
<1>3. CASE ReadEcdsa(h) \/ ReadPqc(h)
  <2>1. /\ [resp[h] EXCEPT !.ecdsa = file["ecdsaPub"]] \in Response
        /\ [resp[h] EXCEPT !.pqc = file["pqcPub"]] \in Response
    BY <1>0, ResponseFields DEF FileNames
  <2>. QED  BY <1>3, <2>1 DEF ReadEcdsa, ReadPqc, Raise
<1>4. CASE ReadToken(h)
  BY <1>4, ResponseFields DEF ReadToken, Maybe
<1>5. CASE Sign(h)
  <2>1. [resp[h] EXCEPT !.sig = file["ecdsaPriv"]] \in Response
    BY <1>0, ResponseFields DEF FileNames
  <2>. QED  BY <1>5, <2>1 DEF Sign, Raise
<1>6. CASE SignPqc(h)
  <2>1. [resp[h] EXCEPT !.pqcSig = file["pqcPriv"]] \in Response
    BY <1>0, ResponseFields DEF FileNames
  <2>. QED  BY <1>6, <2>1 DEF SignPqc, Raise
<1>7. CASE ReadFails(h)
  BY <1>7, TimeAssumption DEF ReadFails, Raise
<1>. QED  BY <1>1, <1>2, <1>3, <1>4, <1>5, <1>6, <1>7 DEF HandlerStep

\* Every variable keeps its type.
THEOREM TypeCorrect == Spec => []TypeOK
<1>1. Init => TypeOK
  BY TypeInit
<1>2. TypeOK /\ [Next]_vars => TypeOK'
  <2> SUFFICES ASSUME TypeOK, [Next]_vars  PROVE TypeOK'
    OBVIOUS
  <2>1. CASE UNCHANGED vars
    BY <2>1 DEF TypeOK
  <2>2. CASE Next
    BY <2>2, TypeRefresher, TypeProcesses, TypeHandler DEF Next
  <2>. QED  BY <2>1, <2>2
<1>. QED  BY <1>1, <1>2, PTL DEF Spec

-----------------------------------------------------------------------------
(* Mutual exclusion. *)

Locked == TypeOK /\ ProcessInv /\ LockInv

LEMMA LockInit == Init => ProcessInv /\ LockInv
  BY ProcessAssumption
  DEF Init, ProcessInv, LockInv, RHolds, Refreshing, FileNames, HHolds

\* The refresher takes and gives back the lock of Main only.
LEMMA LockRefresher ==
  ASSUME Locked, RefresherStep \/ RefreshFails \/ RefresherDies \/ Tick \/ Start
  PROVE  ProcessInv' /\ LockInv'
<1> USE ProcessAssumption
        DEF Locked, TypeOK, ProcessInv, LockInv, RHolds, Refreshing, FileNames, HHolds
<1>1. CASE Loop \/ Fetch \/ RetryOver \/ WakeUp
  BY <1>1 DEF Loop, Fetch, RetryOver, WakeUp
<1>2. CASE Start
  BY <1>2 DEF Start
<1>3. CASE TakeForDuration
  BY <1>3 DEF TakeForDuration
<1>4. CASE BeginRefresh
  BY <1>4 DEF BeginRefresh
<1>5. CASE ComputeDuration
  BY <1>5 DEF ComputeDuration
<1>6. CASE SaveToken
  BY <1>6 DEF SaveToken
<1>7. CASE RefreshFails \/ RefresherDies
  BY <1>7 DEF RefreshFails, RefresherDies
<1>8. CASE \E n \in FileNames : WriteKey(n)
  BY <1>8 DEF WriteKey, After
<1>9. CASE Tick
  BY <1>9 DEF Tick
<1>. QED
  BY <1>1, <1>2, <1>3, <1>4, <1>5, <1>6, <1>7, <1>8, <1>9 DEF RefresherStep

LEMMA LockProcesses ==
  ASSUME Locked, \/ Stop \/ Join \/ Crash
                 \/ \E w \in Processes : Fork(w) \/ Kill(w)
  PROVE  ProcessInv' /\ LockInv'
<1> USE ProcessAssumption
        DEF Locked, TypeOK, ProcessInv, LockInv, RHolds, Refreshing, FileNames, HHolds
<1>1. CASE Stop
  BY <1>1 DEF Stop
<1>2. CASE Join \/ Crash
  BY <1>2 DEF Join, Crash, ProcessEnds
<1>3. ASSUME NEW w \in Processes, Fork(w)  PROVE ProcessInv' /\ LockInv'
  BY <1>3 DEF Fork
<1>4. ASSUME NEW w \in Processes, Kill(w)  PROVE ProcessInv' /\ LockInv'
  BY <1>4 DEF Kill
<1>. QED  BY <1>1, <1>2, <1>3, <1>4

\* A request thread takes and gives back the lock of its own process.
LEMMA LockHandler ==
  ASSUME Locked, NEW h \in Handlers, Request(h) \/ Refuse(h) \/ HandlerStep(h)
  PROVE  ProcessInv' /\ LockInv'
<1> USE ProcessAssumption DEF Locked, TypeOK, ProcessInv, LockInv, HHolds
<1>1. CASE Request(h) \/ Refuse(h)
  BY <1>1 DEF Request, Refuse, Quiet
<1>2. CASE Acquire(h)
  BY <1>2 DEF Acquire
<1>3. CASE ReadEcdsa(h) \/ ReadPqc(h)
  BY <1>3 DEF ReadEcdsa, ReadPqc, Raise
<1>4. CASE ReadToken(h)
  BY <1>4 DEF ReadToken
<1>5. CASE Sign(h) \/ SignPqc(h) \/ ReadFails(h)
  BY <1>5 DEF Sign, SignPqc, ReadFails, Raise
<1>. QED  BY <1>1, <1>2, <1>3, <1>4, <1>5 DEF HandlerStep

LEMMA LockStep == Locked /\ [Next]_vars => ProcessInv' /\ LockInv'
<1> SUFFICES ASSUME Locked, [Next]_vars  PROVE ProcessInv' /\ LockInv'
  OBVIOUS
<1>1. CASE UNCHANGED vars
  BY <1>1 DEF Locked, ProcessInv, LockInv
<1>2. CASE Next
  BY <1>2, LockRefresher, LockProcesses, LockHandler DEF Next
<1>. QED  BY <1>1, <1>2

\* A lock is held by exactly the thread that is inside a `with self._lock'
\* block, in every process, whatever fails, dies or forks.
THEOREM LocksAreSound == Spec => []LockInv
<1>1. Init => Locked
  BY LockInit, TypeInit DEF Locked
<1>2. Locked /\ [Next]_vars /\ TypeOK' => Locked'
  BY LockStep DEF Locked
<1>3. Locked => LockInv
  BY DEF Locked
<1>. QED  BY <1>1, <1>2, <1>3, TypeCorrect, PTL DEF Spec

\* What a request thread can be doing whose process was forked with a held lock.
Mute == {"idle", "snapshot", "error"}
MuteInv ==
  /\ \A p \in Processes : lock[p] = Orphan => p \in alive
  /\ \A h \in Handlers : lock[Home[h]] = Orphan => hpc[h] \in Mute

\* Only a fork makes an orphan, of a process that had no request thread yet ...
LEMMA MuteStep == Locked /\ MuteInv /\ [Next]_vars => MuteInv'
<1> SUFFICES ASSUME Locked, MuteInv, [Next]_vars  PROVE MuteInv'
  OBVIOUS
<1> USE ProcessAssumption DEF Locked, TypeOK, MuteInv, Mute
<1>1. CASE UNCHANGED <<alive, lock, hpc>>
  BY <1>1
<1>2. CASE TakeForDuration \/ ComputeDuration \/ BeginRefresh \/ SaveToken
           \/ RefreshFails \/ RefresherDies
  BY <1>2 DEF TakeForDuration, ComputeDuration, BeginRefresh, SaveToken, RefreshFails,
              RefresherDies
<1>3. CASE Loop \/ WakeUp \/ Fetch \/ RetryOver \/ Tick \/ Stop
           \/ \E n \in FileNames : WriteKey(n)
  BY <1>1, <1>3 DEF Loop, WakeUp, Fetch, RetryOver, Tick, Stop, WriteKey
<1>4. CASE Start \/ Join \/ Crash
  BY <1>4 DEF Start, Join, Crash, ProcessEnds, ProcessInv
<1>5. ASSUME NEW w \in Processes, Fork(w) \/ Kill(w)  PROVE MuteInv'
  BY <1>5 DEF Fork, Kill, ProcessInv
<1>6. ASSUME NEW h \in Handlers, Request(h) \/ Refuse(h) \/ HandlerStep(h)  PROVE MuteInv'
  <2>1. CASE Request(h) \/ Refuse(h)
    BY <2>1 DEF Request, Refuse
  <2>2. CASE Acquire(h)
    BY <2>2 DEF Acquire
  <2>3. CASE \/ ReadEcdsa(h) \/ ReadPqc(h) \/ ReadToken(h) \/ Sign(h) \/ SignPqc(h)
             \/ ReadFails(h)
    <3>1. hpc[h] \in HHolds \cup {"sign", "signPqc"}
      BY <2>3 DEF ReadEcdsa, ReadPqc, ReadToken, Sign, SignPqc, ReadFails, HHolds
    <3>2. lock[Home[h]] # Orphan
      BY <3>1 DEF HHolds
    <3>3. lock' \in {lock, [lock EXCEPT ![Home[h]] = Free]}
      BY <2>3 DEF ReadEcdsa, ReadPqc, ReadToken, Sign, SignPqc, ReadFails, Raise
    <3>4. alive' = alive /\ \A g \in Handlers \ {h} : hpc'[g] = hpc[g]
      BY <2>3 DEF ReadEcdsa, ReadPqc, ReadToken, Sign, SignPqc, ReadFails, Raise
    <3>5. MuteInv' <=> /\ \A p \in Processes : lock'[p] = Orphan => p \in alive'
                    /\ \A g \in Handlers : lock'[Home[g]] = Orphan => hpc'[g] \in Mute
      OBVIOUS
    <3>6. \A p \in Processes : lock'[p] = Orphan => lock[p] = Orphan /\ p # Home[h]
      BY <3>2, <3>3
    <3>. QED  BY <3>4, <3>5, <3>6
  <2>. QED  BY <1>6, <2>1, <2>2, <2>3 DEF HandlerStep
<1>. QED  BY <1>1, <1>2, <1>3, <1>4, <1>5, <1>6 DEF Next, RefresherStep

\* ... and only the end of the process takes it away.
LEMMA OrphansStay ==
  ASSUME Locked, MuteInv, Next, NEW w \in Processes, lock[w] = Orphan, w \in alive'
  PROVE  lock'[w] = Orphan
<1> USE ProcessAssumption DEF Locked, TypeOK, MuteInv, Mute
<1>0. w # Main
  BY DEF LockInv
<1>1. CASE \/ Start \/ RefresherStep \/ RefreshFails \/ RefresherDies \/ Tick \/ Stop
  BY <1>0, <1>1
  DEF Start, RefreshFails, RefresherDies, Tick, Stop, RefresherStep, Loop, TakeForDuration,
      ComputeDuration, WakeUp, BeginRefresh, WriteKey, Fetch, SaveToken, RetryOver
<1>2. CASE Join \/ Crash
  BY <1>2 DEF Join, Crash, ProcessEnds
<1>3. ASSUME NEW v \in Processes, Fork(v) \/ Kill(v)  PROVE lock'[w] = Orphan
  <2>1. CASE v # w
    BY <1>3, <2>1 DEF Fork, Kill
  <2>2. CASE v = w
    BY <1>3, <2>2, <1>0 DEF Fork, Kill, LockInv
  <2>. QED  BY <2>1, <2>2
<1>4. ASSUME NEW h \in Handlers, Request(h) \/ Refuse(h) \/ HandlerStep(h)
      PROVE  lock'[w] = Orphan
  <2>1. CASE Request(h) \/ Refuse(h)
    BY <2>1 DEF Request, Refuse
  <2>2. CASE Acquire(h)
    BY <2>2 DEF Acquire
  <2>3. CASE \/ ReadEcdsa(h) \/ ReadPqc(h) \/ ReadToken(h) \/ Sign(h) \/ SignPqc(h)
             \/ ReadFails(h)
    <3>1. hpc[h] \in HHolds \cup {"sign", "signPqc"}
      BY <2>3 DEF ReadEcdsa, ReadPqc, ReadToken, Sign, SignPqc, ReadFails, HHolds
    <3>2. Home[h] # w
      BY <3>1 DEF HHolds
    <3>3. lock' \in {lock, [lock EXCEPT ![Home[h]] = Free]}
      BY <2>3 DEF ReadEcdsa, ReadPqc, ReadToken, Sign, SignPqc, ReadFails, Raise
    <3>. QED  BY <3>2, <3>3
  <2>. QED  BY <1>4, <2>1, <2>2, <2>3 DEF HandlerStep
<1>. QED  BY <1>1, <1>2, <1>3, <1>4 DEF Next

\* A worker forked while the refresher held the lock never answers a request
\* that would need it, and nothing but its end mends that.
THEOREM OrphanedWorkersAreMute == Spec => OrphanedWorkerIsMute
<1>1. Init => Locked /\ MuteInv
  BY LockInit, TypeInit, ProcessAssumption DEF Locked, Init, MuteInv, Mute
<1>2. Locked /\ MuteInv /\ TypeOK' /\ [Next]_vars => Locked' /\ MuteInv'
  BY LockStep, MuteStep DEF Locked
<1>3. Locked /\ MuteInv /\ MuteInv' /\ [Next]_vars =>
        [\A w \in Processes : lock[w] = Orphan =>
           \/ w \notin alive'
           \/ /\ lock'[w] = Orphan
              /\ \A h \in Handlers : Home[h] = w => hpc'[h] \in {"idle", "snapshot", "error"}]_vars
  BY OrphansStay DEF MuteInv, Mute
<1>. QED  BY <1>1, <1>2, <1>3, TypeCorrect, PTL DEF Spec, OrphanedWorkerIsMute

-----------------------------------------------------------------------------
(* Rotation: what is on disk, and how old the token is, at each step. *)

\* The files already written in a rotation hold its pair.
RotationInv ==
  /\ rpc \in Refreshing => gen \in Keys
  /\ rpc \in Refreshing \ {"ecdsaPriv"} => file["ecdsaPriv"] = gen
  /\ rpc \in Refreshing \ {"ecdsaPriv", "ecdsaPub"} => file["ecdsaPub"] = gen
  /\ rpc \in {"pqcPub", "fetch", "save"} => file["pqcPriv"] = gen
  /\ rpc \in {"fetch", "save"} => file["pqcPub"] = gen

Timed == token # NoToken /\ token.kind = "jwt"

\* No rotation starts more than the jitter before the mark, so a token beside
\* keys it does not bind is at least that old.
DueInv ==
  /\ rpc = "wait" /\ ~Timed => timer = 0
  /\ Timed =>
       /\ rpc = "wait" => (timer = 0 \/ age + timer <= Mark) /\ age + timer + Jitter >= Mark
       /\ rpc \in Refreshing \cup {"acquire"} => age + Jitter >= Mark
       /\ ~Coherent /\ file # NoFiles => age + Jitter >= Mark

Rotating == Locked /\ RotationInv

LEMMA RotationStep == Rotating /\ [Next]_vars => RotationInv'
<1> SUFFICES ASSUME Rotating, [Next]_vars  PROVE RotationInv'
  OBVIOUS
<1> USE DEF Rotating, Locked, TypeOK, RotationInv, Refreshing, FileNames
<1>1. CASE UNCHANGED <<rpc, gen, file>>
  BY <1>1
<1>2. CASE Start \/ Loop \/ TakeForDuration \/ ComputeDuration \/ WakeUp \/ RetryOver
  BY <1>2 DEF Start, Loop, TakeForDuration, ComputeDuration, WakeUp, RetryOver
<1>3. CASE BeginRefresh
  BY <1>3, FreshPair DEF BeginRefresh
<1>4. ASSUME NEW n \in FileNames, WriteKey(n)  PROVE RotationInv'
  BY <1>4 DEF WriteKey, After
<1>5. CASE Fetch \/ SaveToken \/ RefreshFails \/ RefresherDies
  BY <1>5 DEF Fetch, SaveToken, RefreshFails, RefresherDies
<1>6. CASE Join \/ Crash
  BY <1>6 DEF Join, Crash, ProcessEnds
<1>7. CASE Tick \/ Stop \/ \E w \in Processes : Fork(w) \/ Kill(w)
  <2>. UNCHANGED <<rpc, gen, file>>
    BY <1>7 DEF Tick, Stop, Fork, Kill
  <2>. QED  BY <1>1
<1>8. ASSUME NEW h \in Handlers, Request(h) \/ Refuse(h) \/ HandlerStep(h)
      PROVE  RotationInv'
  <2>. UNCHANGED <<rpc, gen, file>>
    BY <1>8 DEF HandlerStep, Request, Refuse, Acquire, ReadEcdsa, ReadPqc,
                ReadToken, Sign, SignPqc, ReadFails, Raise
  <2>. QED  BY <1>1
<1>. QED
  BY <1>1, <1>2, <1>3, <1>4, <1>5, <1>6, <1>7, <1>8 DEF Next, RefresherStep

\* The token is saved only next to the pair its nonces bind.
LEMMA SaveIsCoherent == Rotating /\ SaveToken => Coherent'
<1> SUFFICES ASSUME Rotating, SaveToken  PROVE Coherent'
  OBVIOUS
<1>1. \A n \in FileNames : file'[n] = gen
  BY DEF Rotating, RotationInv, SaveToken, Refreshing, FileNames
<1>2. gen \in Keys
  BY DEF Rotating, RotationInv, SaveToken, Refreshing
<1>3. PICK k \in Kinds : token' = [ecdsa |-> gen, pqc |-> gen, kind |-> k]
  BY <1>1 DEF SaveToken, FileNames
<1>4. token' # NoToken
  BY <1>2, <1>3, ValueAssumption DEF Token, Maybe
<1>. QED  BY <1>1, <1>2, <1>3, <1>4 DEF Coherent, CoherentWith

DueHyp == Rotating /\ DueInv

\* A step that leaves the disk alone keeps the identity as it was.
LEMMA SameDisk ==
  ASSUME UNCHANGED <<file, token>>
  PROVE  Coherent' = Coherent /\ Timed' = Timed
  BY DEF Coherent, CoherentWith, Timed

LEMMA DueStep == DueHyp /\ [Next]_vars => DueInv'
<1> SUFFICES ASSUME DueHyp, [Next]_vars  PROVE DueInv'
  OBVIOUS
<1> USE TimeAssumption DEF DueHyp, Rotating, Locked, TypeOK
<1>1. CASE UNCHANGED <<file, token, age, rpc, timer>>
  BY <1>1, SameDisk DEF DueInv
<1>2. CASE Start \/ Loop \/ TakeForDuration \/ RetryOver \/ Fetch \/ RefreshFails
           \/ RefresherDies \/ Join
  <2>1. UNCHANGED <<file, token, age>>
    BY <1>2 DEF Start, Loop, TakeForDuration, RetryOver, Fetch, RefreshFails,
                RefresherDies, Join
  <2>2. rpc' = "wait" => rpc = "wait" /\ timer' = timer
    BY <1>2 DEF Start, Loop, TakeForDuration, RetryOver, Fetch, RefreshFails,
                RefresherDies, Join, ProcessEnds
  <2>3. rpc' \in Refreshing \cup {"acquire"} => rpc \in Refreshing
    BY <1>2 DEF Start, Loop, TakeForDuration, RetryOver, Fetch, RefreshFails,
                RefresherDies, Join, ProcessEnds, Refreshing, FileNames
  <2>. QED  BY <2>1, <2>2, <2>3, SameDisk DEF DueInv
<1>3. CASE ComputeDuration
  <2>1. UNCHANGED <<file, token, age>> /\ rpc' \in {"wait", "retry"}
    BY <1>3 DEF ComputeDuration
  <2>2. CASE rpc' = "wait"
    <3>1. PICK j \in 0..Jitter : timer' = Duration(j)
      BY <1>3, <2>2 DEF ComputeDuration
    <3>2. CASE Timed
      BY <2>1, <2>2, <3>1, <3>2, SameDisk DEF DueInv, Duration, Timed, Refreshing, FileNames
    <3>3. CASE ~Timed
      BY <2>1, <3>1, <3>3, SameDisk DEF DueInv, Duration, Timed
    <3>. QED  BY <3>2, <3>3
  <2>3. CASE rpc' = "retry"
    BY <2>1, <2>3, SameDisk DEF DueInv, Refreshing, FileNames
  <2>. QED  BY <2>1, <2>2, <2>3
<1>4. CASE WakeUp
  <2>1. /\ UNCHANGED <<file, token, age>> /\ rpc = "wait"
        /\ rpc' = "stopped" \/ (rpc' = "acquire" /\ timer = 0)
    BY <1>4 DEF WakeUp
  <2>. QED  BY <2>1, SameDisk DEF DueInv, Refreshing, FileNames
<1>5. CASE BeginRefresh
  BY <1>5, SameDisk DEF BeginRefresh, DueInv, Refreshing, FileNames
<1>6. ASSUME NEW n \in FileNames, WriteKey(n)  PROVE DueInv'
  <2>1. /\ UNCHANGED <<token, age>> /\ Timed' = Timed /\ rpc \in Refreshing
        /\ rpc' \in Refreshing
    BY <1>6 DEF WriteKey, After, Refreshing, FileNames, Timed
  <2>. QED  BY <2>1 DEF DueInv, Refreshing, FileNames
<1>7. CASE SaveToken
  <2>1. rpc' = "loop"
    BY <1>7 DEF SaveToken
  <2>. QED  BY <1>7, <2>1, SaveIsCoherent DEF DueInv, Refreshing, FileNames
<1>8. CASE Tick
  <2>1. /\ UNCHANGED <<file, token, rpc>>
        /\ timer' = IF timer > 0 THEN timer - 1 ELSE 0
        /\ Timed => age' = IF age < Life THEN age + 1 ELSE age
    BY <1>8 DEF Tick, Timed
  <2>. QED  BY <2>1, SameDisk DEF DueInv
<1>9. CASE Crash
  <2>1. /\ UNCHANGED <<token, age>> /\ Timed' = Timed /\ rpc' = "off"
        /\ file' = NoFiles \/ file' = file
    BY <1>9 DEF Crash, ProcessEnds, Timed
  <2>. QED  BY <2>1, SameDisk DEF DueInv, Refreshing, FileNames
<1>10. CASE Stop \/ \E w \in Processes : Fork(w) \/ Kill(w)
  BY <1>1, <1>10 DEF Stop, Fork, Kill
<1>11. ASSUME NEW h \in Handlers, Request(h) \/ Refuse(h) \/ HandlerStep(h)
       PROVE  DueInv'
  BY <1>1, <1>11 DEF HandlerStep, Request, Refuse, Acquire, ReadEcdsa, ReadPqc,
                     ReadToken, Sign, SignPqc, ReadFails, Raise
<1>. QED
  BY <1>1, <1>2, <1>3, <1>4, <1>5, <1>6, <1>7, <1>8, <1>9, <1>10, <1>11
  DEF Next, RefresherStep

LEMMA DueInit == Init => RotationInv /\ DueInv
  BY DEF Init, RotationInv, DueInv, Timed, Refreshing, FileNames

LEMMA DueAlways == Spec => []DueHyp
<1>1. Init => DueHyp
  BY DueInit, LockInit, TypeInit DEF DueHyp, Rotating, Locked
<1>2. DueHyp /\ [Next]_vars /\ TypeOK' => DueHyp'
  BY DueStep, RotationStep, LockStep DEF DueHyp, Rotating, Locked
<1>. QED  BY <1>1, <1>2, TypeCorrect, PTL DEF Spec

\* A broken identity is not slept on for longer than the jitter.
THEOREM BrokenIdentityIsSoonRetried == Spec => []BrokenIdentityIsUrgent
<1>1. DueHyp => BrokenIdentityIsUrgent
  BY TimeAssumption
  DEF DueHyp, DueInv, Rotating, Locked, TypeOK, BrokenIdentityIsUrgent
<1>. QED  BY <1>1, DueAlways, PTL

\* A sleeping refresher wakes no later than the 90% mark of the token on disk.
THEOREM RefresherWakesByTheMark == Spec => []WakesByTheMark
<1>1. DueHyp => WakesByTheMark
  BY DEF DueHyp, DueInv, WakesByTheMark, Timed
<1>. QED  BY <1>1, DueAlways, PTL

\* Keys are replaced only once their token is due, or is no token that says when.
THEOREM KeysAreKeptUntilDue == Spec => KeysLastUntilDue
<1>1. DueHyp /\ [Next]_vars =>
        [file' # file /\ Main \in alive' =>
           token = NoToken \/ token.kind # "jwt" \/ age + Jitter >= Mark]_vars
  <2> SUFFICES ASSUME DueHyp, [Next]_vars, file' # file, Main \in alive', Timed
               PROVE  age + Jitter >= Mark
    BY DEF Timed
  <2>1. \E n \in FileNames : WriteKey(n)
    BY DEF Next, RefresherStep, Start, Loop, TakeForDuration, ComputeDuration, WakeUp,
       BeginRefresh, Fetch, SaveToken, RetryOver, RefreshFails, RefresherDies, Tick, Stop,
       Join, Crash, ProcessEnds, Fork, Kill, HandlerStep, Request, Refuse, Acquire, ReadEcdsa,
       ReadPqc, ReadToken, Sign, SignPqc, ReadFails, Raise, vars, disk
  <2>2. rpc \in Refreshing
    BY <2>1 DEF WriteKey, Refreshing
  <2>. QED  BY <2>2 DEF DueHyp, DueInv
<1>. QED  BY <1>1, DueAlways, PTL DEF Spec, KeysLastUntilDue

\* The token changes only over four files of the pair it binds.
LEMMA TokenChange ==
  ASSUME DueHyp, [Next]_vars, token' # token  PROVE Coherent'
<1>1. SaveToken
  BY DEF Next, RefresherStep, Start, Loop, TakeForDuration, ComputeDuration, WakeUp,
     BeginRefresh, WriteKey, Fetch, RetryOver, RefreshFails, RefresherDies, Tick, Stop,
     Join, Crash, Fork, Kill, HandlerStep, Request, Refuse, Acquire, ReadEcdsa,
     ReadPqc, ReadToken, Sign, SignPqc, ReadFails, Raise
<1>. QED  BY <1>1, SaveIsCoherent DEF DueHyp

\* Every token written certifies the four key files then on disk.
THEOREM TokensCertifyDisk == Spec => TokenCertifiesDisk
<1>1. DueHyp /\ [Next]_vars => [token' # token => Coherent']_vars
  BY TokenChange
<1>. QED  BY <1>1, DueAlways, PTL DEF Spec, TokenCertifiesDisk

\* No token binds halves of two pairs, neither the one on disk nor one that a
\* request thread has read, maybe long ago and maybe without a lock that matters.
OnePair(t) == t # NoToken => t.ecdsa = t.pqc
PairInv == OnePair(token) /\ \A h \in Handlers : OnePair(resp[h].token)

LEMMA PairStep == DueHyp /\ PairInv /\ [Next]_vars => PairInv'
<1> SUFFICES ASSUME DueHyp, PairInv, [Next]_vars  PROVE PairInv'
  OBVIOUS
<1>1. TypeOK
  BY DEF DueHyp, Rotating, Locked
<1>2. OnePair(token)'
  <2>1. CASE token' = token
    BY <2>1 DEF PairInv, OnePair
  <2>2. CASE token' # token
    <3>1. Coherent'
      BY <2>2, TokenChange
    <3>. QED  BY <3>1 DEF Coherent, CoherentWith, OnePair
  <2>. QED  BY <2>1, <2>2
<1>3. ASSUME NEW h \in Handlers
      PROVE  resp'[h].token \in {resp[h].token, token, NoToken}
  BY <1>1
  DEF TypeOK, Response, Blank, Next, RefresherStep, Start, Loop, TakeForDuration,
      ComputeDuration, WakeUp, BeginRefresh, WriteKey, Fetch, SaveToken, RetryOver,
      RefreshFails, RefresherDies, Tick, Stop, Join, Crash, ProcessEnds, Fork, Kill,
      HandlerStep, Request, Refuse, Acquire, ReadEcdsa, ReadPqc, ReadToken, Sign, SignPqc,
      ReadFails, Raise,
      Raise
<1>. QED  BY <1>2, <1>3 DEF PairInv, OnePair

\* What verifies is of one rotation, whatever the processes and their locks.
THEOREM VerifiableResponsesAreOnePair == Spec => []VerifiableIsOnePair
<1>1. Init => PairInv
  BY DEF Init, PairInv, OnePair, Blank
<1>2. PairInv => VerifiableIsOnePair
  BY DEF PairInv, OnePair, VerifiableIsOnePair, Verifiable
<1>. QED  BY <1>1, <1>2, PairStep, DueAlways, PTL DEF Spec

-----------------------------------------------------------------------------
(* Snapshots, where the request threads share the refresher's process. *)

OneProcess == \A h \in Handlers : Home[h] = Main

Taken == {"sign", "signPqc", "done"}

\* What a request thread has read is what is on disk, as long as it holds the
\* lock, and afterwards as long as it is clean.
SnapInv ==
  \A h \in Handlers :
    /\ hpc[h] \in {"readPqc", "readToken"} => resp[h].ecdsa = file["ecdsaPub"]
    /\ hpc[h] = "readToken" => resp[h].pqc = file["pqcPub"]
    /\ clean[h] /\ hpc[h] \in HHolds \cup {"sign", "signPqc"} => Coherent
    /\ clean[h] /\ hpc[h] \in {"sign", "signPqc"} =>
         /\ resp[h].ecdsa = file["ecdsaPub"] /\ resp[h].pqc = file["pqcPub"]
         /\ resp[h].token = token
    /\ clean[h] /\ hpc[h] = "signPqc" => resp[h].sig = file["ecdsaPriv"]

Snapped == Locked /\ SnapInv /\ CleanResponseVerifies

\* While a request thread of Main holds the lock, no file is replaced.
LEMMA WritersHoldLock ==
  ASSUME Locked, [Next]_vars, NEW h \in Handlers, lock[Main] = h, Main \in alive'
  PROVE  UNCHANGED <<file, token>>
<1> USE ProcessAssumption DEF Locked, LockInv, RHolds, Refreshing, FileNames
<1>1. rpc \notin RHolds
  OBVIOUS
<1>2. ~SaveToken /\ \A n \in FileNames : ~WriteKey(n)
  BY <1>1 DEF SaveToken, WriteKey
<1>3. ~Crash
  BY DEF Crash, ProcessEnds
<1>. QED
  BY <1>2, <1>3
  DEF Next, RefresherStep, Start, Loop, TakeForDuration, ComputeDuration, WakeUp,
      BeginRefresh, Fetch, RetryOver, RefreshFails, RefresherDies, Tick, Stop, Join, Fork,
      Kill, HandlerStep, Request, Refuse, Acquire, ReadEcdsa, ReadPqc, ReadToken, Sign, SignPqc,
      ReadFails, Raise

\* A snapshot is not disturbed while it is taken.
THEOREM SnapshotsAreStable == Spec => SnapshotStable
<1>1. Locked /\ [Next]_vars =>
        [\A h \in Handlers : lock[Main] = h /\ Main \in alive' =>
           UNCHANGED <<file, token>>]_vars
  BY WritersHoldLock
<1>2. Spec => []Locked
  <2>1. Init => Locked
    BY LockInit, TypeInit DEF Locked
  <2>2. Locked /\ [Next]_vars /\ TypeOK' => Locked'
    BY LockStep DEF Locked
  <2>. QED  BY <2>1, <2>2, TypeCorrect, PTL DEF Spec
<1>. QED  BY <1>1, <1>2, PTL DEF Spec, SnapshotStable

\* A write of the refresher finds no thread between its reads, and leaves no
\* thread that signs clean.
LEMMA SnapWrite ==
  ASSUME OneProcess, Snapped, rpc \in RHolds, Disturb, UNCHANGED <<hpc, resp>>
  PROVE  SnapInv' /\ CleanResponseVerifies'
<1>1. \A h \in Handlers : hpc[h] \notin HHolds
  BY ProcessAssumption DEF OneProcess, Snapped, Locked, LockInv
<1>2. \A h \in Handlers : clean'[h] => clean[h] /\ hpc[h] \notin {"sign", "signPqc"}
  BY DEF Disturb
<1>. QED
  BY <1>1, <1>2 DEF Snapped, SnapInv, HHolds, CleanResponseVerifies

\* A step of one thread concerns only its own snapshot.
LEMMA SnapHandler ==
  ASSUME OneProcess, Snapped, NEW h \in Handlers, HandlerStep(h)
  PROVE  SnapInv' /\ CleanResponseVerifies'
<1> USE DEF Snapped, Locked, TypeOK, HHolds
<1>0. UNCHANGED <<file, token>> /\ Coherent' = Coherent
  BY SameDisk DEF HandlerStep, Acquire, ReadEcdsa, ReadPqc, ReadToken, Sign, SignPqc, ReadFails
<1>1. ASSUME NEW g \in Handlers, g # h
      PROVE  hpc'[g] = hpc[g] /\ resp'[g] = resp[g] /\ clean'[g] = clean[g]
  BY <1>1 DEF HandlerStep, Acquire, ReadEcdsa, ReadPqc, ReadToken, Sign, SignPqc, ReadFails, Raise
<1>2. CASE Acquire(h)
  BY <1>0, <1>1, <1>2 DEF Acquire, SnapInv, CleanResponseVerifies
<1>3. CASE ReadEcdsa(h)
  <2>1. /\ clean'[h] = clean[h] /\ hpc[h] = "readEcdsa"
        /\ \/ hpc'[h] = "readPqc" /\ resp'[h].ecdsa = file["ecdsaPub"]
           \/ hpc'[h] = "error"
    BY <1>3 DEF ReadEcdsa, Raise, Response
  <2>. QED  BY <1>0, <1>1, <2>1 DEF SnapInv, CleanResponseVerifies
<1>4. CASE ReadPqc(h)
  <2>1. /\ clean'[h] = clean[h] /\ hpc[h] = "readPqc"
        /\ \/ /\ hpc'[h] = "readToken" /\ resp'[h].pqc = file["pqcPub"]
              /\ resp'[h].ecdsa = resp[h].ecdsa
           \/ hpc'[h] = "error"
    BY <1>4 DEF ReadPqc, Raise, Response
  <2>. QED  BY <1>0, <1>1, <2>1 DEF SnapInv, CleanResponseVerifies
<1>5. CASE ReadToken(h)
  <2>1. /\ clean'[h] = clean[h] /\ hpc[h] = "readToken" /\ hpc'[h] = "sign"
        /\ resp'[h].token = token /\ resp'[h].pqc = resp[h].pqc
        /\ resp'[h].ecdsa = resp[h].ecdsa
    BY <1>5 DEF ReadToken, Response
  <2>. QED  BY <1>0, <1>1, <2>1 DEF SnapInv, CleanResponseVerifies
<1>6. CASE Sign(h)
  <2>1. /\ clean'[h] = clean[h] /\ hpc[h] = "sign"
        /\ \/ /\ hpc'[h] = "signPqc" /\ resp'[h].sig = file["ecdsaPriv"]
              /\ resp'[h].pqc = resp[h].pqc /\ resp'[h].ecdsa = resp[h].ecdsa
              /\ resp'[h].token = resp[h].token
           \/ hpc'[h] = "error"
    BY <1>6 DEF Sign, Raise, Response
  <2>. QED  BY <1>0, <1>1, <2>1 DEF SnapInv, CleanResponseVerifies
<1>7. CASE SignPqc(h)
  <2>1. /\ clean'[h] = clean[h] /\ hpc[h] = "signPqc"
        /\ \/ /\ hpc'[h] = "done" /\ resp'[h].pqcSig = file["pqcPriv"]
              /\ resp'[h].pqc = resp[h].pqc /\ resp'[h].ecdsa = resp[h].ecdsa
              /\ resp'[h].token = resp[h].token /\ resp'[h].sig = resp[h].sig
           \/ hpc'[h] = "error"
    BY <1>7 DEF SignPqc, Raise, Response
  <2>2. SnapInv'
    BY <1>0, <1>1, <2>1 DEF SnapInv
  <2>3. CleanResponseVerifies'
    BY <1>0, <1>1, <2>1
    DEF SnapInv, CleanResponseVerifies, Coherent, CoherentWith, FileNames
  <2>. QED  BY <2>2, <2>3
<1>8. CASE ReadFails(h)
  <2>1. hpc'[h] = "error"
    BY <1>8 DEF ReadFails, Raise
  <2>. QED  BY <1>0, <1>1, <2>1 DEF SnapInv, CleanResponseVerifies
<1>. QED  BY <1>2, <1>3, <1>4, <1>5, <1>6, <1>7, <1>8 DEF HandlerStep

LEMMA SnapStep ==
  ASSUME OneProcess, Snapped, [Next]_vars
  PROVE  SnapInv' /\ CleanResponseVerifies'
<1>1. CASE UNCHANGED <<file, token, hpc, resp, clean>>
  BY <1>1, SameDisk DEF Snapped, SnapInv, CleanResponseVerifies
<1>2. CASE SaveToken \/ \E n \in FileNames : WriteKey(n)
  BY <1>2, SnapWrite DEF SaveToken, WriteKey, RHolds, Refreshing
<1>3. CASE Join \/ Crash
  BY <1>3 DEF Join, Crash, ProcessEnds, SnapInv, CleanResponseVerifies, HHolds
<1>4. ASSUME NEW w \in Processes, Kill(w)  PROVE UNCHANGED <<file, token, hpc, resp, clean>>
  BY <1>4 DEF Kill, OneProcess, Snapped, Locked, TypeOK
<1>5. ASSUME NEW h \in Handlers, Request(h) \/ Refuse(h)
      PROVE  SnapInv' /\ CleanResponseVerifies'
  BY <1>5, SameDisk
  DEF Request, Refuse, Snapped, Locked, TypeOK, SnapInv, CleanResponseVerifies, HHolds
<1>6. ASSUME NEW h \in Handlers, HandlerStep(h)  PROVE SnapInv' /\ CleanResponseVerifies'
  BY <1>6, SnapHandler
<1>. QED
  BY <1>1, <1>2, <1>3, <1>4, <1>5, <1>6
  DEF Next, RefresherStep, Start, Loop, TakeForDuration, ComputeDuration, WakeUp,
      BeginRefresh, Fetch, RetryOver, RefreshFails, RefresherDies, Tick, Stop, Fork

LEMMA SnappedAlways ==
  ASSUME OneProcess
  PROVE  Spec => []Snapped
<1>1. Init => Snapped
  BY LockInit, TypeInit
  DEF Snapped, Locked, Init, SnapInv, CleanResponseVerifies, HHolds
<1>2. Snapped /\ [Next]_vars /\ TypeOK' => Snapped'
  BY SnapStep, LockStep DEF Snapped, Locked
<1>. QED  BY <1>1, <1>2, TypeCorrect, PTL DEF Spec

\* A response whose snapshot began on a coherent identity, and that no write
\* overtook while it was signed, verifies.
THEOREM CleanResponsesVerify ==
  ASSUME OneProcess
  PROVE  Spec => []CleanResponseVerifies
<1>1. Snapped => CleanResponseVerifies
  BY DEF Snapped
<1>. QED  BY <1>1, SnappedAlways, PTL

-----------------------------------------------------------------------------
(* When what the documents say does hold: see the runs that violate it. *)

\* In the refresher's process a snapshot that began on a coherent identity shows
\* the keys and the token together.
THEOREM SnapshotsAreTogether ==
  ASSUME OneProcess
  PROVE  Spec => []SnapshotTogether
<1>1. Snapped => SnapshotTogether
  BY DEF Snapped, SnapInv, SnapshotTogether, Coherent, CoherentWith, FileNames
<1>. QED  BY <1>1, SnappedAlways, PTL

\* Until something fails, the disk only lacks coherence during a rotation, which no
\* request thread of Main looks at, or before the first one.
FaultFreeInv ==
  faults = 0 =>
    /\ rpc \notin Refreshing => Coherent \/ (file = NoFiles /\ token = NoToken)
    /\ \A h \in Handlers :
         /\ hpc[h] \in {"readPqc", "readToken"} => Coherent
         /\ hpc[h] \in Taken =>
              /\ resp[h].token # NoToken
              /\ resp[h].token.ecdsa = resp[h].ecdsa /\ resp[h].token.pqc = resp[h].pqc

FaultFreeHyp == Snapped /\ Rotating /\ FaultFreeInv

LEMMA FaultFreeHandler ==
  ASSUME OneProcess, FaultFreeHyp, NEW h \in Handlers,
         Request(h) \/ Refuse(h) \/ HandlerStep(h)
  PROVE  FaultFreeInv'
<1> USE DEF FaultFreeHyp, Snapped, Locked, TypeOK, FaultFreeInv, Taken
<1>0. UNCHANGED <<file, token, rpc>> /\ Coherent' = Coherent /\ (faults' = 0 => faults = 0)
  BY SameDisk, TimeAssumption
  DEF HandlerStep, Request, Refuse, Acquire, ReadEcdsa, ReadPqc, ReadToken, Sign, SignPqc,
      ReadFails
<1>1. ASSUME NEW g \in Handlers, g # h
      PROVE  hpc'[g] = hpc[g] /\ resp'[g] = resp[g]
  BY <1>1 DEF HandlerStep, Request, Refuse, Acquire, ReadEcdsa, ReadPqc, ReadToken, Sign,
              SignPqc, ReadFails, Raise
<1>2. CASE Request(h) \/ Refuse(h) \/ Acquire(h)
  <2>1. hpc'[h] \in {"snapshot", "error", "readEcdsa"}
    BY <1>2 DEF Request, Refuse, Acquire
  <2>. QED  BY <1>0, <1>1, <2>1
<1>3. CASE ReadEcdsa(h)
  <2>1. hpc'[h] = "error" \/ (hpc'[h] = "readPqc" /\ file["ecdsaPub"] # NoKey)
    BY <1>3 DEF ReadEcdsa, Raise
  <2>2. rpc \notin Refreshing
    BY <1>3, ProcessAssumption DEF ReadEcdsa, LockInv, OneProcess, HHolds, RHolds
  <2>3. file["ecdsaPub"] # NoKey => file # NoFiles
    BY DEF NoFiles, FileNames
  <2>. QED  BY <1>0, <1>1, <2>1, <2>2, <2>3
<1>4. CASE ReadPqc(h)
  <2>1. hpc[h] = "readPqc" /\ hpc'[h] \in {"error", "readToken"}
    BY <1>4 DEF ReadPqc, Raise
  <2>. QED  BY <1>0, <1>1, <2>1
<1>5. CASE ReadToken(h)
  <2>1. /\ hpc[h] = "readToken" /\ hpc'[h] = "sign"
        /\ resp'[h].ecdsa = file["ecdsaPub"] /\ resp'[h].pqc = file["pqcPub"]
        /\ resp'[h].token = token
    BY <1>5 DEF ReadToken, Response, SnapInv
  <2>. QED
    BY <1>0, <1>1, <2>1 DEF Coherent, CoherentWith, FileNames
<1>6. CASE Sign(h) \/ SignPqc(h)
  <2>1. \/ hpc'[h] = "error"
        \/ /\ hpc[h] \in Taken /\ hpc'[h] \in {"signPqc", "done"}
           /\ resp'[h].ecdsa = resp[h].ecdsa /\ resp'[h].pqc = resp[h].pqc
           /\ resp'[h].token = resp[h].token
    BY <1>6 DEF Sign, SignPqc, Raise, Response
  <2>. QED  BY <1>0, <1>1, <2>1
<1>7. CASE ReadFails(h)
  BY <1>7, TimeAssumption DEF ReadFails
<1>. QED  BY <1>2, <1>3, <1>4, <1>5, <1>6, <1>7 DEF HandlerStep

LEMMA FaultFreeStep ==
  ASSUME OneProcess, FaultFreeHyp, TypeOK', [Next]_vars
  PROVE  FaultFreeInv'
<1> USE DEF FaultFreeHyp, Snapped, Locked, TypeOK, Taken
<1>1. CASE RefreshFails \/ RefresherDies \/ Crash
  BY <1>1 DEF RefreshFails, RefresherDies, Crash, FaultFreeInv
<1>2. CASE \/ Start \/ Loop \/ TakeForDuration \/ ComputeDuration \/ WakeUp \/ RetryOver
           \/ Tick \/ Stop \/ Fetch \/ BeginRefresh \/ \E w \in Processes : Fork(w)
  <2>1. UNCHANGED <<file, token, hpc, resp, faults>>
    BY <1>2 DEF Start, Loop, TakeForDuration, ComputeDuration, WakeUp, RetryOver, Tick,
                Stop, Fork, Fetch, BeginRefresh
  <2>2. rpc' \notin Refreshing => rpc \notin Refreshing
    BY <1>2, ProcessAssumption
    DEF Start, Loop, TakeForDuration, ComputeDuration, WakeUp, RetryOver, Tick, Stop, Fork,
        Fetch, BeginRefresh, Refreshing, FileNames, ProcessInv
  <2>. QED  BY <2>1, <2>2, SameDisk DEF FaultFreeInv
<1>3. ASSUME NEW n \in FileNames, WriteKey(n)  PROVE FaultFreeInv'
  <2>1. /\ UNCHANGED <<hpc, resp, faults>> /\ rpc' \in Refreshing
        /\ \A h \in Handlers : hpc[h] \notin HHolds
    BY <1>3, ProcessAssumption
    DEF WriteKey, After, Refreshing, FileNames, RHolds, LockInv, OneProcess
  <2>. QED  BY <2>1 DEF FaultFreeInv, HHolds
<1>4. CASE SaveToken
  <2>1. Coherent'
    BY <1>4, SaveIsCoherent
  <2>2. UNCHANGED <<hpc, resp, faults>>
    BY <1>4 DEF SaveToken
  <2>. QED  BY <2>1, <2>2 DEF FaultFreeInv
<1>5. CASE Join
  <2>1. /\ UNCHANGED <<file, token, faults>> /\ rpc \notin Refreshing
        /\ \A h \in Handlers : hpc'[h] = "idle"
    BY <1>5 DEF Join, ProcessEnds, Refreshing, FileNames
  <2>. QED  BY <2>1, SameDisk DEF FaultFreeInv
<1>6. CASE UNCHANGED vars \/ \E w \in Processes : Kill(w)
  <2>1. UNCHANGED <<file, token, hpc, resp, faults, rpc>>
    BY <1>6 DEF Kill, OneProcess
  <2>. QED  BY <2>1, SameDisk DEF FaultFreeInv
<1>. QED
  BY <1>1, <1>2, <1>3, <1>4, <1>5, <1>6, FaultFreeHandler DEF Next, RefresherStep

\* With one process, a token that does not bind the keys beside it in a response
\* takes a failure or a crash.
THEOREM FaultFreeResponsesBind ==
  ASSUME OneProcess
  PROVE  Spec => []BindsUntilFault
<1>1. Init => FaultFreeInv
  BY DEF Init, FaultFreeInv, Taken
<1>2. Snapped /\ Rotating /\ FaultFreeInv /\ TypeOK' /\ [Next]_vars => FaultFreeInv'
  BY FaultFreeStep DEF FaultFreeHyp
<1>3. FaultFreeInv => BindsUntilFault
  BY DEF FaultFreeInv, BindsUntilFault, ResponseTokenBindsKeys, Taken
<1>4. DueHyp => Rotating
  BY DEF DueHyp
<1>. QED
  BY <1>1, <1>2, <1>3, <1>4, SnappedAlways, DueAlways, TypeCorrect, PTL DEF Spec

\* A token that is not UTF-8 stops the refresher before it takes the lock to
\* refresh.
Undecodable == token # NoToken /\ token.kind = "binary"
UndecodableInv == Undecodable => rpc \notin Refreshing \cup {"wait", "acquire"}

LEMMA UndecodableStep ==
  ASSUME TypeOK, UndecodableInv, [Next]_vars
  PROVE  /\ UndecodableInv'
         /\ Undecodable => UNCHANGED token /\ (file' = file \/ Main \notin alive')
<1> USE DEF UndecodableInv, Undecodable, Refreshing, FileNames
<1>1. CASE Start \/ Loop \/ TakeForDuration \/ RetryOver \/ RefreshFails \/ RefresherDies
  BY <1>1 DEF Start, Loop, TakeForDuration, RetryOver, RefreshFails, RefresherDies, disk
<1>2. CASE ComputeDuration
  BY <1>2 DEF ComputeDuration, Decodes, disk
<1>3. CASE WakeUp \/ BeginRefresh \/ Fetch
  BY <1>3 DEF WakeUp, BeginRefresh, Fetch, disk
<1>4. ASSUME NEW n \in FileNames, WriteKey(n)
      PROVE  UndecodableInv' /\ ~Undecodable
  BY <1>4 DEF WriteKey
<1>5. CASE SaveToken
  BY <1>5 DEF SaveToken
<1>6. CASE Join \/ Crash
  BY <1>6 DEF Join, Crash, ProcessEnds, disk
<1>7. CASE UNCHANGED vars \/ Tick \/ Stop \/ \E w \in Processes : Fork(w) \/ Kill(w)
  BY <1>7 DEF vars, Tick, Stop, Fork, Kill, disk, refresher
<1>8. ASSUME NEW h \in Handlers, Request(h) \/ Refuse(h) \/ HandlerStep(h)
      PROVE  UNCHANGED <<disk, rpc>>
  BY <1>8 DEF HandlerStep, Request, Refuse, Acquire, ReadEcdsa, ReadPqc, ReadToken, Sign,
              SignPqc, ReadFails, Raise, refresher
<1>. QED
  BY <1>1, <1>2, <1>3, <1>4, <1>5, <1>6, <1>7, <1>8 DEF Next, RefresherStep, disk

\* What `binary_token' shows is for good: neither retries nor restarts ever
\* replace such a token, nor, but for a crash that loses them, the keys.
THEOREM UndecodableTokensStay ==
  Spec => [][Undecodable => UNCHANGED token /\ (file' = file \/ Main \notin alive')]_vars
<1>1. Init => UndecodableInv
  BY DEF Init, UndecodableInv, Undecodable
<1>2. TypeOK /\ UndecodableInv /\ [Next]_vars => UndecodableInv'
  BY UndecodableStep
<1>3. TypeOK /\ UndecodableInv /\ [Next]_vars =>
        [Undecodable => UNCHANGED token /\ (file' = file \/ Main \notin alive')]_vars
  BY UndecodableStep
<1>. QED  BY <1>1, <1>2, <1>3, TypeCorrect, PTL DEF Spec

-----------------------------------------------------------------------------
(* What ShutdownCompletes rests on: fairness and the lock apart, the refresher  *)
(* comes closer to its end with every step once the event is set.               *)

StopInv ==
  /\ stop => Main \in alive
  /\ rpc = "retry" => timer <= Retry

LEMMA StopStep == StopInv /\ TypeOK /\ [Next]_vars => StopInv'
<1> SUFFICES ASSUME StopInv, TypeOK, [Next]_vars  PROVE StopInv'
  OBVIOUS
<1>1. (stop => Main \in alive)'
  BY ProcessAssumption
  DEF StopInv, TypeOK, Next, RefresherStep, Start, Loop, TakeForDuration, ComputeDuration,
      WakeUp, BeginRefresh, WriteKey, Fetch, SaveToken, RetryOver, RefreshFails,
      RefresherDies, Tick, Stop, Join, Crash, ProcessEnds, Fork, Kill, HandlerStep, Request,
      Refuse, Acquire, ReadEcdsa, ReadPqc, ReadToken, Sign, SignPqc, ReadFails, Raise
<1>2. ASSUME rpc' = "retry"  PROVE timer' <= Retry
  <2>1. CASE timer' = Retry
    BY <2>1, TimeAssumption
  <2>2. CASE rpc = "retry" /\ timer' \in {timer, timer - 1}
    BY <2>2, TimeAssumption DEF StopInv, TypeOK
  <2>3. \/ timer' = Retry
        \/ rpc = "retry" /\ timer' \in {timer, timer - 1}
    <3>1. CASE RefresherStep
      BY <1>2, <3>1
      DEF RefresherStep, Loop, TakeForDuration, ComputeDuration, WakeUp, BeginRefresh,
          WriteKey, After, FileNames, Fetch, SaveToken, RetryOver
    <3>2. CASE Start \/ RefreshFails \/ RefresherDies \/ Join \/ Crash
      BY <1>2, <3>2 DEF Start, RefreshFails, RefresherDies, Join, Crash, ProcessEnds
    <3>3. CASE Tick
      BY <1>2, <3>3 DEF Tick, TypeOK
    <3>4. CASE ~(\/ RefresherStep \/ Start \/ RefreshFails \/ RefresherDies \/ Join \/ Crash
                 \/ Tick)
      BY <1>2, <3>4
      DEF Next, Stop, Fork, Kill, HandlerStep, Request, Refuse, Acquire, ReadEcdsa, ReadPqc,
          ReadToken, Sign, SignPqc, ReadFails, Raise
    <3>. QED  BY <3>1, <3>2, <3>3, <3>4
  <2>. QED  BY <2>1, <2>2, <2>3
<1>. QED  BY <1>1, <1>2 DEF StopInv

\* The steps, and the ticks of a retry, that are left of the refresher when the
\* event is set.
LeftAt(where, ticks) ==
  CASE where \in {"off", "stopped", "dead"} -> 0
    [] where \in {"loop", "wait"}           -> 1
    [] where = "retry"                      -> 2 + ticks
    [] where \in {"duration", "save"}       -> 3 + Retry
    [] where \in {"getToken", "fetch"}      -> 4 + Retry
    [] where = "pqcPub"                     -> 5 + Retry
    [] where = "pqcPriv"                    -> 6 + Retry
    [] where = "ecdsaPub"                   -> 7 + Retry
    [] where = "ecdsaPriv"                  -> 8 + Retry
    [] where = "acquire"                    -> 9 + Retry
LeftToStop == LeftAt(rpc, timer)

LEMMA LeftValues ==
  ASSUME NEW ticks \in Nat
  PROVE  /\ \A w \in {"off", "stopped", "dead"} : LeftAt(w, ticks) = 0
         /\ \A w \in {"loop", "wait"} : LeftAt(w, ticks) = 1
         /\ LeftAt("retry", ticks) = 2 + ticks
         /\ \A w \in {"duration", "save"} : LeftAt(w, ticks) = 3 + Retry
         /\ \A w \in {"getToken", "fetch"} : LeftAt(w, ticks) = 4 + Retry
         /\ LeftAt("pqcPub", ticks) = 5 + Retry
         /\ LeftAt("pqcPriv", ticks) = 6 + Retry
         /\ LeftAt("ecdsaPub", ticks) = 7 + Retry
         /\ LeftAt("ecdsaPriv", ticks) = 8 + Retry
         /\ LeftAt("acquire", ticks) = 9 + Retry
<1>1. /\ LeftAt("off", ticks) = 0 /\ LeftAt("stopped", ticks) = 0 /\ LeftAt("dead", ticks) = 0
      /\ LeftAt("loop", ticks) = 1 /\ LeftAt("wait", ticks) = 1
  BY DEF LeftAt
<1>2. /\ LeftAt("retry", ticks) = 2 + ticks
      /\ LeftAt("duration", ticks) = 3 + Retry /\ LeftAt("save", ticks) = 3 + Retry
      /\ LeftAt("getToken", ticks) = 4 + Retry /\ LeftAt("fetch", ticks) = 4 + Retry
  BY DEF LeftAt
<1>3. LeftAt("pqcPub", ticks) = 5 + Retry /\ LeftAt("pqcPriv", ticks) = 6 + Retry
  BY DEF LeftAt
<1>4. /\ LeftAt("ecdsaPub", ticks) = 7 + Retry /\ LeftAt("ecdsaPriv", ticks) = 8 + Retry
      /\ LeftAt("acquire", ticks) = 9 + Retry
  BY DEF LeftAt
<1>. QED  BY <1>1, <1>2, <1>3, <1>4

LEMMA LeftTypes ==
  ASSUME NEW where \in RLocations, NEW ticks \in Nat
  PROVE  /\ LeftAt(where, ticks) \in Nat
         /\ (where = "retry" => ticks <= Retry) => LeftAt(where, ticks) <= 9 + Retry
  BY TimeAssumption, LeftValues DEF RLocations, RHolds, Refreshing, FileNames

LEMMA RefresherStops ==
  ASSUME TypeOK, TypeOK', stop, RefresherStep \/ RefreshFails \/ RefresherDies
  PROVE  LeftToStop' < LeftToStop
<1>0. timer \in Nat /\ timer' \in Nat
  BY DEF TypeOK
<1> USE <1>0, TimeAssumption, LeftValues DEF LeftToStop
<1>1. CASE Loop
  BY <1>1 DEF Loop
<1>2. CASE TakeForDuration
  BY <1>2 DEF TakeForDuration
<1>3. CASE ComputeDuration
  <2>1. rpc = "duration"
    BY <1>3 DEF ComputeDuration
  <2>2. CASE rpc' = "wait"
    BY <2>1, <2>2
  <2>3. CASE rpc' = "retry" /\ timer' = Retry
    BY <2>1, <2>3
  <2>. QED  BY <1>3, <2>2, <2>3, Zenon DEF ComputeDuration
<1>4. CASE WakeUp
  BY <1>4 DEF WakeUp
<1>5. CASE BeginRefresh
  BY <1>5 DEF BeginRefresh
<1>6. CASE \E n \in FileNames : WriteKey(n)
  BY <1>6 DEF WriteKey, FileNames, After
<1>7. CASE Fetch
  BY <1>7 DEF Fetch
<1>8. CASE SaveToken
  BY <1>8 DEF SaveToken
<1>9. CASE RetryOver
  BY <1>9 DEF RetryOver
<1>10. CASE RefresherDies
  BY <1>10 DEF RefresherDies
<1>11. CASE RefreshFails
  <2>1. rpc \in RHolds /\ rpc' = "retry" /\ timer' = Retry
    BY <1>11 DEF RefreshFails
  <2>2. LeftToStop >= 3 + Retry
    BY <2>1 DEF RHolds, Refreshing, FileNames
  <2>3. LeftToStop' = 2 + Retry
    BY <2>1
  <2>4. LeftToStop \in Nat
    BY <2>1, LeftTypes DEF RLocations
  <2>. QED  BY <2>2, <2>3, <2>4
<1>. QED
  BY <1>1, <1>2, <1>3, <1>4, <1>5, <1>6, <1>7, <1>8, <1>9, <1>10, <1>11 DEF RefresherStep

\* From the moment the event is set the refresher takes at most 9 + Retry steps
\* and ticks; failures, however many, and restarts of workers add none.
THEOREM ShutdownIsShort ==
  Spec => [][stop /\ stop' =>
               /\ LeftToStop' <= LeftToStop /\ LeftToStop <= 9 + Retry
               /\ RefresherStep \/ RefreshFails \/ RefresherDies =>
                    LeftToStop' < LeftToStop]_vars
<1>1. ASSUME TypeOK, TypeOK', StopInv, [Next]_vars, stop, stop'
      PROVE  LeftToStop' <= LeftToStop
  <2>0. LeftToStop \in Nat /\ LeftToStop' \in Nat
    <3>1. \A w \in RLocations, t \in Nat : LeftAt(w, t) \in Nat
      BY LeftTypes
    <3>. QED  BY <1>1, <3>1 DEF TypeOK, LeftToStop
  <2>1. CASE RefresherStep \/ RefreshFails \/ RefresherDies
    BY <1>1, <2>0, <2>1, RefresherStops
  <2>2. CASE Tick
    <3>1. rpc \in RLocations /\ timer \in Nat /\ timer' \in Nat
      BY <1>1 DEF TypeOK
    <3>2. rpc' = rpc /\ timer' <= timer
      BY <2>2, <3>1 DEF Tick
    <3>. QED
      BY <3>1, <3>2, LeftValues, TimeAssumption
      DEF LeftToStop, RLocations, RHolds, Refreshing, FileNames
  <2>3. CASE ~(RefresherStep \/ RefreshFails \/ RefresherDies \/ Tick)
    <3>1. UNCHANGED <<rpc, timer>>
      BY <1>1, <2>3
      DEF StopInv, Next, Start, Stop, Join, Crash, ProcessEnds, Fork, Kill, HandlerStep,
          Request, Refuse, Acquire, ReadEcdsa, ReadPqc, ReadToken, Sign, SignPqc, ReadFails
    <3>. QED  BY <2>0, <3>1 DEF LeftToStop
  <2>. QED  BY <2>1, <2>2, <2>3
<1>2. TypeOK /\ TypeOK' /\ StopInv /\ [Next]_vars =>
        [stop /\ stop' =>
           /\ LeftToStop' <= LeftToStop /\ LeftToStop <= 9 + Retry
           /\ RefresherStep \/ RefreshFails \/ RefresherDies =>
                LeftToStop' < LeftToStop]_vars
  <2>1. TypeOK /\ StopInv => LeftToStop <= 9 + Retry
    BY LeftTypes DEF TypeOK, StopInv, LeftToStop
  <2>. QED  BY <1>1, <2>1, RefresherStops
<1>3. Init => StopInv
  BY DEF Init, StopInv
<1>. QED  BY <1>2, <1>3, StopStep, TypeCorrect, PTL DEF Spec

-----------------------------------------------------------------------------
(* TokenManager implements IdentityStore. *)

Hyp == Snapped /\ TypeOK'

\* What a request thread that has its snapshot shows of it.
View(h) == <<resp[h].ecdsa, resp[h].pqc, resp[h].token>>
Views == [h \in Handlers |-> IF hpc[h] \in Taken THEN View(h) ELSE NoToken]

LEMMA IdentityType ==
  ASSUME TypeOK
  PROVE  Identity \in Maybe \X Maybe \X (Token \cup {NoToken})
  BY DEF TypeOK, Identity, FileNames

\* A step that changes neither what is shown nor the lock's user is a stutter.
LEMMA SameView ==
  ASSUME UNCHANGED <<file, token, hpc, resp>>, rpc' \in Refreshing <=> rpc \in Refreshing
  PROVE  UNCHANGED Store!vars
  BY DEF Store!vars, Identity

LEMMA StoreHandler ==
  ASSUME OneProcess, Hyp, NEW h \in Handlers, Request(h) \/ Refuse(h) \/ HandlerStep(h)
  PROVE  Store!Next \/ UNCHANGED Store!vars
<1> USE DEF Hyp, Snapped, Locked, TypeOK
<1>1. UNCHANGED <<file, token, rpc>>
  BY DEF HandlerStep, Request, Refuse, Acquire, ReadEcdsa, ReadPqc, ReadToken, Sign, SignPqc,
         ReadFails
<1>2. UNCHANGED Identity /\ (rpc' \in Refreshing) = (rpc \in Refreshing)
  BY <1>1 DEF Identity
<1>3. ASSUME NEW g \in Handlers, g # h
      PROVE  hpc'[g] = hpc[g] /\ resp'[g] = resp[g]
  BY <1>3 DEF HandlerStep, Request, Refuse, Acquire, ReadEcdsa, ReadPqc, ReadToken,
              Sign, SignPqc, ReadFails, Raise
<1>4. CASE hpc'[h] \notin Taken
  <2>1. Views' = [Views EXCEPT ![h] = NoToken]
    BY <1>3, <1>4 DEF Views, View
  <2>2. Store!Forget(h)
    BY <1>2, <2>1 DEF Store!Forget, Views, View, Taken
  <2>. QED  BY <2>2 DEF Store!Next
<1>5. CASE hpc'[h] \in Taken /\ ReadToken(h)
  <2>1. View(h)' = Identity
    BY <1>5 DEF ReadToken, View, Identity, Response, SnapInv
  <2>2. rpc \notin Refreshing
    BY <1>5, ProcessAssumption DEF ReadToken, LockInv, OneProcess, HHolds, RHolds
  <2>3. /\ Views[h] = NoToken
        /\ Views' = [Views EXCEPT ![h] = Identity]
    <3>1. hpc[h] \notin Taken
      BY <1>5 DEF ReadToken, Taken
    <3>2. \A g \in Handlers \ {h} : Views'[g] = Views[g]
      BY <1>3 DEF Views, View
    <3>. QED  BY <1>5, <2>1, <3>1, <3>2 DEF Views
  <2>4. Store!Snapshot(h)
    BY <1>2, <2>2, <2>3 DEF Store!Snapshot, Views, View, Taken
  <2>. QED  BY <2>4 DEF Store!Next
<1>6. CASE hpc'[h] \in Taken /\ ~ReadToken(h)
  <2>1. Sign(h) \/ SignPqc(h)
    BY <1>6 DEF HandlerStep, Request, Refuse, Acquire, ReadEcdsa, ReadPqc, ReadFails, Raise,
                     Taken
  <2>2. hpc[h] \in Taken /\ View(h)' = View(h)
    BY <1>6, <2>1 DEF Sign, SignPqc, Raise, Taken, View, Response
  <2>3. Views' = Views
    BY <1>3, <1>6, <2>2 DEF Views, View
  <2>. QED  BY <1>2, <2>3 DEF Store!vars, Views, View, Taken
<1>. QED  BY <1>4, <1>5, <1>6

LEMMA StoreStep ==
  ASSUME OneProcess, Hyp, [Next]_vars
  PROVE  Store!Next \/ UNCHANGED Store!vars
<1> USE DEF Hyp
<1>0. Identity' \in Maybe \X Maybe \X (Token \cup {NoToken})
  BY IdentityType DEF TypeOK, Identity, FileNames
<1>1. CASE UNCHANGED vars
  BY <1>1, SameView
<1>2. CASE \/ Start \/ Loop \/ TakeForDuration \/ ComputeDuration \/ WakeUp \/ RetryOver
           \/ Tick \/ Stop \/ \E w \in Processes : Fork(w)
  <2>1. UNCHANGED <<file, token, hpc, resp>>
    BY <1>2 DEF Start, Loop, TakeForDuration, ComputeDuration, WakeUp, RetryOver, Tick,
                Stop, Fork
  <2>2. CASE UNCHANGED rpc
    BY <2>1, <2>2, SameView
  <2>3. CASE rpc' # rpc
    <3>1. Start \/ Loop \/ TakeForDuration \/ ComputeDuration \/ WakeUp \/ RetryOver
      BY <1>2, <2>3 DEF Tick, Stop, Fork
    <3>2. rpc \notin Refreshing
      BY <3>1, ProcessAssumption
      DEF Start, Loop, TakeForDuration, ComputeDuration, WakeUp, RetryOver, Refreshing,
          FileNames, Snapped, Locked, ProcessInv
    <3>3. rpc' \notin Refreshing
      BY <3>1 DEF Start, Loop, TakeForDuration, ComputeDuration, WakeUp, RetryOver,
                  Refreshing, FileNames
    <3>. QED  BY <2>1, <3>2, <3>3, SameView
  <2>. QED  BY <2>2, <2>3
<1>3. CASE BeginRefresh
  <2>1. /\ UNCHANGED <<file, token, hpc, resp>>
        /\ rpc \notin Refreshing /\ rpc' \in Refreshing
    BY <1>3 DEF BeginRefresh, Refreshing, FileNames
  <2>2. Store!BeginRotation
    BY <2>1 DEF Store!BeginRotation, Identity
  <2>. QED  BY <2>2 DEF Store!Next
<1>4. CASE SaveToken \/ Fetch \/ RefresherDies \/ (RefreshFails /\ rpc \in Refreshing)
           \/ \E n \in FileNames : WriteKey(n)
  <2>1. UNCHANGED <<hpc, resp>> /\ rpc \in Refreshing
    BY <1>4 DEF SaveToken, Fetch, RefresherDies, RefreshFails, WriteKey, Refreshing
  <2>2. Store!Rotate
    BY <1>0, <2>1 DEF Store!Rotate
  <2>. QED  BY <2>2 DEF Store!Next
<1>5. CASE RefreshFails /\ rpc \notin Refreshing
  BY <1>5, SameView DEF RefreshFails, Refreshing, FileNames
<1>6. CASE Join \/ Crash
  <2>1. rpc' \notin Refreshing /\ \A h \in Handlers : hpc'[h] \notin Taken
    BY <1>6 DEF Join, Crash, ProcessEnds, Refreshing, FileNames, Taken
  <2>2. Store!Restart
    BY <1>0, <2>1 DEF Store!Restart, Taken
  <2>. QED  BY <2>2 DEF Store!Next
<1>7. ASSUME NEW w \in Processes, Kill(w)  PROVE UNCHANGED Store!vars
  <2>1. UNCHANGED <<file, token, hpc, resp, rpc>>
    BY <1>7 DEF Kill, OneProcess, Snapped, Locked, TypeOK
  <2>. QED  BY <2>1, SameView
<1>. QED
  BY <1>1, <1>2, <1>3, <1>4, <1>5, <1>6, <1>7, StoreHandler DEF Next, RefresherStep

\* The snapshot of a request thread, three reads of three files, is atomic, and
\* never shows a rotation under way.
THEOREM SnapshotIsAtomic ==
  ASSUME OneProcess
  PROVE  Spec => SnapshotsAreAtomic
<1>1. Init => Store!Init
  <2> SUFFICES ASSUME Init  PROVE Store!Init
    OBVIOUS
  <2>1. Identity \in Maybe \X Maybe \X (Token \cup {NoToken})
    BY IdentityType, TypeInit
  <2>2. rpc \notin Refreshing /\ \A h \in Handlers : hpc[h] \notin Taken
    BY DEF Init, Refreshing, FileNames, Taken
  <2>. QED  BY <2>1, <2>2 DEF Store!Init, Taken
<1>2. Snapped /\ TypeOK' /\ [Next]_vars => [Store!Next]_Store!vars
  BY StoreStep DEF Hyp
<1>. QED  BY <1>1, <1>2, SnappedAlways, TypeCorrect, PTL DEF Spec, SnapshotsAreAtomic, Store!Spec
=============================================================================
