--------------------------- MODULE AtomicFileProofs ---------------------------
(***************************************************************************)
(* write_file and read_file are an atomic register for any number of       *)
(* readers, values, inodes and faults.                                     *)
(***************************************************************************)
EXTENDS AtomicFile, TLAPS

USE DEF vars, names, writer, readers

\* What the writer holds, and the files that are complete: the one the name
\* refers to, and every one a reader has open.  The temporary file is neither.
Complete ==
  /\ wpc = "idle" <=> data = None
  /\ wpc # "idle" => temp # None
  /\ wpc = "replace" => content[temp] = data
  /\ path # None => path # temp /\ content[path] \in Data
  /\ \A r \in Readers : fd[r] # None => fd[r] # temp /\ content[fd[r]] \in Data

Inv == TypeOK /\ Complete

LEMMA InvInit == Init => Inv
  BY FileAssumption DEF Init, Inv, TypeOK, Complete

\* os.open never truncates a file that has a reader or the final name.
LEMMA OpenTakesUnlinked ==
  ASSUME Inv, Open
  PROVE  \E i \in Inodes :
           /\ temp' = i /\ content' = [content EXCEPT ![i] = Empty]
           /\ i # path /\ \A r \in Readers : i # fd[r]
<1> USE FileAssumption DEF Inv, TypeOK, Complete
<1>1. PICK i \in IF temp # None THEN {temp} ELSE Inodes \ Linked :
        temp' = i /\ content' = [content EXCEPT ![i] = Empty]
  BY DEF Open
<1>2. i \in Inodes
  BY <1>1
<1>3. i # path /\ \A r \in Readers : i # fd[r]
  <2>1. CASE temp # None
    BY <1>1, <2>1
  <2>2. CASE temp = None
    <3>1. i \notin Linked
      BY <1>1, <2>2
    <3>. QED  BY <3>1 DEF Linked
  <2>. QED  BY <2>1, <2>2
<1>. QED  BY <1>1, <1>2, <1>3

LEMMA InvStep == Inv /\ [Next]_vars => Inv'
<1> SUFFICES ASSUME Inv, [Next]_vars  PROVE Inv'
  OBVIOUS
<1> USE FileAssumption DEF Inv, TypeOK, Complete
<1>1. CASE Open
  <2>1. PICK i \in Inodes :
          /\ temp' = i /\ content' = [content EXCEPT ![i] = Empty]
          /\ i # path /\ \A r \in Readers : i # fd[r]
    BY <1>1, OpenTakesUnlinked
  <2>2. data' \in Data /\ data' # None
    BY <1>1 DEF Open
  <2>. QED  BY <1>1, <2>1, <2>2 DEF Open
<1>2. CASE Write
  BY <1>2 DEF Write
<1>3. CASE Replace
  BY <1>3 DEF Replace
<1>4. CASE WriteFails
  BY <1>4 DEF WriteFails
<1>5. CASE Crash
  BY <1>5 DEF Crash
<1>6. ASSUME NEW r \in Readers, ReadOpen(r)  PROVE Inv'
  BY <1>6 DEF ReadOpen
<1>7. ASSUME NEW r \in Readers, Read(r)  PROVE Inv'
  BY <1>7 DEF Read
<1>8. CASE UNCHANGED vars
  BY <1>8
<1>. QED  BY <1>1, <1>2, <1>3, <1>4, <1>5, <1>6, <1>7, <1>8 DEF Next

LEMMA InvAlways == Spec => []Inv
  BY InvInit, InvStep, PTL DEF Spec

\* Every variable keeps its type.
THEOREM TypeCorrect == Spec => []TypeOK
<1>1. Inv => TypeOK
  BY DEF Inv
<1>. QED  BY <1>1, InvAlways, PTL

\* The name changes from one whole content to another, in os.replace only.
THEOREM NamesAreReplacedWhole == Spec => ReplacedWhole
<1>1. Inv /\ [Next]_vars => [Visible' # Visible => wpc = "replace" /\ Visible' = data]_vars
  <2> SUFFICES ASSUME Inv, [Next]_vars, Visible' # Visible
               PROVE  wpc = "replace" /\ Visible' = data
    OBVIOUS
  <2> USE FileAssumption DEF Inv, TypeOK, Complete, Visible
  <2>1. CASE Open
    <3>1. PICK i \in Inodes : content' = [content EXCEPT ![i] = Empty] /\ i # path
      BY <2>1, OpenTakesUnlinked
    <3>. QED  BY <2>1, <3>1 DEF Open
  <2>2. CASE Write
    BY <2>2 DEF Write
  <2>3. CASE Replace
    BY <2>3 DEF Replace
  <2>4. CASE ~(Open \/ Write \/ Replace)
    BY <2>4 DEF Next, WriteFails, Crash, ReadOpen, Read
  <2>. QED  BY <2>1, <2>2, <2>3, <2>4
<1>. QED  BY <1>1, InvAlways, PTL DEF Spec, ReplacedWhole

\* No writer touches a file that a reader has open.
LEMMA OpenFilesStay ==
  ASSUME Inv, [Next]_vars, NEW r \in Readers, fd[r] # None
  PROVE  content'[fd[r]] = content[fd[r]] /\ content[fd[r]] \in Data
<1> USE FileAssumption DEF Inv, TypeOK, Complete
<1>1. CASE Open
  <2>1. PICK i \in Inodes : content' = [content EXCEPT ![i] = Empty] /\ i # fd[r]
    BY <1>1, OpenTakesUnlinked
  <2>. QED  BY <2>1
<1>2. CASE Write
  BY <1>2 DEF Write
<1>3. CASE ~(Open \/ Write)
  BY <1>3 DEF Next, Replace, WriteFails, Crash, ReadOpen, Read
<1>. QED  BY <1>1, <1>2, <1>3

THEOREM OpenFilesAreStable == Spec => OpenFileIsStable
<1>1. Inv /\ [Next]_vars =>
        [\A r \in Readers : fd[r] # None /\ fd'[r] = fd[r] =>
           content'[fd[r]] = content[fd[r]] /\ content[fd[r]] \in Data]_vars
  BY OpenFilesStay
<1>. QED  BY <1>1, InvAlways, PTL DEF Spec, OpenFileIsStable

-----------------------------------------------------------------------------
(* The refinement. *)

\* The register's view of the readers.
Taken == [r \in Readers |-> IF fd[r] = None THEN None ELSE content[fd[r]]]

LEMMA RegisterInit == Init => File!Init
  BY FileAssumption DEF Init, File!Init, Visible

\* The writer's steps leave what readers have taken.
LEMMA TakenStays ==
  ASSUME Inv, [Next]_vars, UNCHANGED fd
  PROVE  Taken' = Taken
<1>1. \A r \in Readers : fd[r] # None => content'[fd[r]] = content[fd[r]]
  BY OpenFilesStay
<1>. QED  BY <1>1 DEF Taken

LEMMA RegisterStep == Inv /\ [Next]_vars => [File!Next]_(File!vars)
<1> SUFFICES ASSUME Inv, [Next]_vars  PROVE [File!Next]_(File!vars)
  OBVIOUS
<1> USE FileAssumption DEF Inv, TypeOK, Complete, File!vars
<1>1. CASE Open
  <2>1. Visible' = Visible
    <3>1. PICK i \in Inodes : content' = [content EXCEPT ![i] = Empty] /\ i # path
      BY <1>1, OpenTakesUnlinked
    <3>. QED  BY <1>1, <3>1 DEF Open, Visible
  <2>2. Taken' = Taken /\ UNCHANGED got
    BY <1>1, TakenStays DEF Open
  <2>3. data = None /\ data' \in Data
    BY <1>1 DEF Open
  <2>. QED  BY <2>1, <2>2, <2>3 DEF File!Next, File!BeginWrite, Taken
<1>2. CASE Write
  <2>1. Taken' = Taken
    BY <1>2, TakenStays DEF Write
  <2>. QED  BY <1>2, <2>1 DEF Write, Visible, Taken
<1>3. CASE Replace
  <2>1. Taken' = Taken
    BY <1>3, TakenStays DEF Replace
  <2>. QED  BY <1>3, <2>1 DEF Replace, Visible, Taken, File!Next, File!TakeEffect
<1>4. CASE WriteFails \/ Crash
  <2>1. Taken' = Taken
    BY <1>4, TakenStays DEF WriteFails, Crash
  <2>2. Visible' = Visible /\ UNCHANGED got /\ data' = None
    BY <1>4 DEF WriteFails, Crash, Visible
  <2>. QED  BY <2>1, <2>2 DEF Taken, File!Next, File!Abandon
<1>5. ASSUME NEW r \in Readers, ReadOpen(r)  PROVE [File!Next]_(File!vars)
  <2>1. CASE path = None
    BY <1>5, <2>1 DEF ReadOpen, Visible, File!Next, File!ReturnNothing
  <2>2. CASE path # None
    <3>1. Taken' = [Taken EXCEPT ![r] = content[path]]
      BY <1>5, <2>2 DEF ReadOpen, Taken
    <3>2. Taken[r] = None /\ Visible = content[path] /\ Visible # None
      BY <1>5, <2>2 DEF ReadOpen, Taken, Visible
    <3>3. UNCHANGED <<Visible, data, got>>
      BY <1>5, <2>2 DEF ReadOpen, Visible
    <3>. QED  BY <3>1, <3>2, <3>3 DEF Taken, File!Next, File!Settle
  <2>. QED  BY <2>1, <2>2
<1>6. ASSUME NEW r \in Readers, Read(r)  PROVE [File!Next]_(File!vars)
  <2>1. Taken' = [Taken EXCEPT ![r] = None]
    BY <1>6 DEF Read, Taken
  <2>2. Taken[r] = content[fd[r]] /\ Taken[r] # None
    BY <1>6 DEF Read, Taken
  <2>3. UNCHANGED <<Visible, data>> /\ got' = [got EXCEPT ![r] = Taken[r]]
    BY <1>6, <2>2 DEF Read, Visible
  <2>. QED  BY <2>1, <2>2, <2>3 DEF Taken, File!Next, File!Return
<1>7. CASE UNCHANGED vars
  BY <1>7 DEF Visible
<1>. QED  BY <1>1, <1>2, <1>3, <1>4, <1>5, <1>6, <1>7 DEF Next

\* A file of the server is an atomic register.
THEOREM FileIsRegister == Spec => ReadsAreAtomic
<1>1. Init => File!Init
  BY RegisterInit
<1>2. Inv /\ [Next]_vars => [File!Next]_(File!vars)
  BY RegisterStep
<1>. QED  BY <1>1, <1>2, InvAlways, PTL DEF Spec, ReadsAreAtomic, File!Spec
=============================================================================
