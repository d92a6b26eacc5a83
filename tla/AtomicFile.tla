----------------------------- MODULE AtomicFile -----------------------------
(***************************************************************************)
(* One file of the server: write_file and read_file (server/common.py) and *)
(* the reads of the token file (server/token.py) at the level of names and *)
(* inodes.  It justifies that TokenManager replaces a file in one step.    *)
(* The one writer is the refresher thread; readers run in other threads    *)
(* and processes, and hold no lock when they sign.                         *)
(***************************************************************************)
EXTENDS Naturals

CONSTANTS
  Data,          \* what may be written
  Empty, Part,   \* contents of a file that is being written
  None,          \* no file, no descriptor, nothing read
  Inodes,
  Readers,
  MaxFaults      \* bound on errors and crashes

ASSUME FileAssumption ==
  /\ {Empty, Part, None} \cap Data = {} /\ None \notin Inodes
  /\ MaxFaults \in Nat

VARIABLES
  path, temp,  \* the inodes the name and the name plus ".tmp" refer to
  content,     \* of each inode
  wpc, data,   \* the writer
  fd, got,     \* what each reader has open, and what it returned last
  faults

names == <<path, temp>>
writer == <<wpc, data>>
readers == <<fd, got>>
vars == <<names, content, writer, readers, faults>>

Init ==
  /\ path = None /\ temp = None
  /\ content = [i \in Inodes |-> Empty]
  /\ wpc = "idle" /\ data = None
  /\ fd = [r \in Readers |-> None] /\ got = [r \in Readers |-> None]
  /\ faults = 0

Linked == {path, temp} \cup {fd[r] : r \in Readers}

\* Mutant of Open: it opens the name itself.
OpenInPlace ==
  /\ wpc = "idle"
  /\ \E d \in Data : data' = d
  /\ \E i \in IF path # None THEN {path} ELSE Inodes \ Linked :
       temp' = i /\ content' = [content EXCEPT ![i] = Empty]
  /\ wpc' = "write"
  /\ UNCHANGED <<path, readers, faults>>

\* os.open creates the temporary file, or truncates one that a crash left.
Open ==
  /\ wpc = "idle"
  /\ \E d \in Data : data' = d
  /\ \E i \in IF temp # None THEN {temp} ELSE Inodes \ Linked :
       temp' = i /\ content' = [content EXCEPT ![i] = Empty]
  /\ wpc' = "write"
  /\ UNCHANGED <<path, readers, faults>>

\* f.write and the close that flushes it reach the file piece by piece.
Write ==
  /\ wpc = "write"
  /\ \/ content' = [content EXCEPT ![temp] = Part] /\ wpc' = "write"
     \/ content' = [content EXCEPT ![temp] = data] /\ wpc' = "replace"
  /\ UNCHANGED <<names, data, readers, faults>>

\* os.replace
Replace ==
  /\ wpc = "replace"
  /\ path' = temp /\ temp' = None
  /\ wpc' = "idle" /\ data' = None
  /\ UNCHANGED <<content, readers, faults>>

\* Mutant of WriteFails: what was written is moved into place anyway.
WriteFailsReplacing ==
  /\ wpc \in {"write", "replace"} /\ faults < MaxFaults
  /\ faults' = faults + 1
  /\ path' = temp /\ temp' = None
  /\ wpc' = "idle" /\ data' = None
  /\ UNCHANGED <<content, readers>>

\* An exception anywhere, os.open included: a temporary file is removed, also
\* one left by a crash, unless that fails too.
WriteFails ==
  /\ faults < MaxFaults
  /\ faults' = faults + 1
  /\ temp' \in {None, temp}
  /\ wpc' = "idle" /\ data' = None
  /\ UNCHANGED <<path, content, readers>>

\* The writer's process dies where it is; names and contents stay.
Crash ==
  /\ wpc # "idle" /\ faults < MaxFaults
  /\ faults' = faults + 1
  /\ wpc' = "idle" /\ data' = None
  /\ UNCHANGED <<names, content, readers>>

\* open(path): it may not exist.
ReadOpen(r) ==
  /\ fd[r] = None
  /\ IF path = None THEN got' = [got EXCEPT ![r] = None] /\ UNCHANGED fd
                    ELSE fd' = [fd EXCEPT ![r] = path] /\ UNCHANGED got
  /\ UNCHANGED <<names, content, writer, faults>>

\* f.read and the close.
Read(r) ==
  /\ fd[r] # None
  /\ got' = [got EXCEPT ![r] = content[fd[r]]]
  /\ fd' = [fd EXCEPT ![r] = None]
  /\ UNCHANGED <<names, content, writer, faults>>

Next ==
  \/ Open \/ Write \/ Replace \/ WriteFails \/ Crash
  \/ \E r \in Readers : ReadOpen(r) \/ Read(r)

Spec == Init /\ [][Next]_vars

-----------------------------------------------------------------------------

\* Type invariant.
TypeOK ==
  /\ path \in Inodes \cup {None} /\ temp \in Inodes \cup {None}
  /\ content \in [Inodes -> Data \cup {Empty, Part}]
  /\ wpc \in {"idle", "write", "replace"} /\ data \in Data \cup {None}
  /\ fd \in [Readers -> Inodes \cup {None}]
  /\ got \in [Readers -> Data \cup {None}]
  /\ faults \in 0..MaxFaults

Visible == IF path = None THEN None ELSE content[path]

\* What the name refers to changes only from one complete content to another,
\* and only when the writer has reached os.replace: an error or a crash in the
\* middle of a write leaves the old content.
ReplacedWhole ==
  [][Visible' # Visible => wpc = "replace" /\ Visible' = data]_vars

\* A file that a reader has open does not change under it, although the writer
\* reuses the temporary name without any lock.
OpenFileIsStable ==
  [][\A r \in Readers : fd[r] # None /\ fd'[r] = fd[r] =>
       content'[fd[r]] = content[fd[r]] /\ content[fd[r]] \in Data]_vars

File == INSTANCE Register WITH
  value <- Visible, writing <- data,
  taken <- [r \in Readers |-> IF fd[r] = None THEN None ELSE content[fd[r]]]

\* write_file and read_file are an atomic register: every read returns one whole
\* value, that of the moment it opened the file, however many writes, errors and
\* crashes go on under it.
ReadsAreAtomic == File!Spec
=============================================================================
