------------------------------- MODULE Register -------------------------------
(***************************************************************************)
(* What write_file and read_file (server/common.py) promise together: an   *)
(* atomic register.  A write takes effect in one step or never, whole; a   *)
(* read returns the value of one moment between its begin and its end.     *)
(***************************************************************************)
CONSTANTS Data, None, Readers

VARIABLES
  value,    \* what the register holds, None at first
  writing,  \* the argument of the write_file call that runs, or None
  taken,    \* the value a read_file call that runs has settled on, or None
  got       \* what each reader's last call returned

vars == <<value, writing, taken, got>>

Init ==
  /\ value = None /\ writing = None
  /\ taken = [r \in Readers |-> None] /\ got = [r \in Readers |-> None]

BeginWrite ==
  /\ writing = None
  /\ writing' \in Data
  /\ UNCHANGED <<value, taken, got>>

\* The write is seen from here on.
TakeEffect ==
  /\ writing # None
  /\ value' = writing /\ writing' = None
  /\ UNCHANGED <<taken, got>>

\* An exception or a crash: the write is never seen.
Abandon ==
  /\ writing # None
  /\ writing' = None
  /\ UNCHANGED <<value, taken, got>>

Settle(r) ==
  /\ taken[r] = None /\ value # None
  /\ taken' = [taken EXCEPT ![r] = value]
  /\ UNCHANGED <<value, writing, got>>

Return(r) ==
  /\ taken[r] # None
  /\ got' = [got EXCEPT ![r] = taken[r]] /\ taken' = [taken EXCEPT ![r] = None]
  /\ UNCHANGED <<value, writing>>

\* FileNotFoundError: nothing was written yet.
ReturnNothing(r) ==
  /\ taken[r] = None /\ value = None
  /\ got' = [got EXCEPT ![r] = None]
  /\ UNCHANGED <<value, writing, taken>>

Next ==
  \/ BeginWrite \/ TakeEffect \/ Abandon
  \/ \E r \in Readers : Settle(r) \/ Return(r) \/ ReturnNothing(r)

Spec == Init /\ [][Next]_vars
=============================================================================
