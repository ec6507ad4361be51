--------------------------- MODULE HelpersProofs ----------------------------
(***************************************************************************)
(* Proofs about the helpers that share something with others.  The rolling *)
(* log, for any number of processes and threads, any sizes, and files that *)
(* other programs open at any moment: one process at a time has the log    *)
(* open and knows its length, and every file that holds anything begins    *)
(* with its only header; and RollingFile implements RollingLog.  The       *)
(* traced file, for any callers and texts: what is written and what is     *)
(* read is whole.  The questions, for any changes of the system: what is   *)
(* answered was so during the call.                                        *)
(***************************************************************************)
EXTENDS
  Helpers, FiniteSetTheorems, SequenceTheorems, WellFoundedInduction, TLAPS

Entry == (Threads \union {"header", "absent"}) \X Nat

PC ==
  {"idle", "enter", "close", "unlink", "rename", "open", "header", "write"}

(* Where a thread owns the mutex of its process.                           *)
Inside == PC \ {"idle", "enter"}

TypeOK ==
  /\ files \in [FileNumber -> Seq(Entry)]
  /\ viewed \subseteq Nat
  /\ listed \in [Processes -> Nat]
  /\ firstWrite \in [Processes -> BOOLEAN]
  /\ handle \in [Processes -> BOOLEAN]
  /\ fileSize \in [Processes -> Int]
  /\ holder \in [Processes -> Threads \union {None}]
  /\ pc \in [Threads -> PC]
  /\ sent \in [Threads -> Nat]
  /\ round \in [Threads -> Int]
  /\ number \in [Threads -> Int]
  /\ crashes \in Nat

(* m_mutex: a thread that is writing is the one that holds it.             *)
Exclusive ==
  \A t \in Threads : pc[t] \in Inside => holder[Process[t]] = t

(* A record's number counts from one, so no record is taken for a header.  *)
Counted == \A t \in Threads : pc[t] # "idle" => sent[t] > 0

(* Where the loop of rollLogFiles is; the files are moved while the        *)
(* process has none of them open.                                          *)
Rolling ==
  \A t \in Threads :
    /\ pc[t] \in {"close", "unlink", "rename"} => MaxFiles > 0
    /\ pc[t] = "rename" => number[t] \in 0 .. LastFile - 1
    /\ pc[t] \in {"unlink", "rename", "open"} => ~handle[Process[t]]

(* Before its first record a process has not opened the log.               *)
Unopened == \A p \in Processes : firstWrite[p] => ~handle[p]

(* An open log is empty only until its opener has written the header.      *)
Headed ==
  \A p \in Processes :
    handle[p] => 
      \/ fileSize[p] > 0
      \/ \E t \in Threads : Process[t] = p /\ pc[t] = "header"

(* The header is written into an empty file.                               *)
HeaderEmpty ==
  \A t \in Threads :
    pc[t] = "header" => handle[Process[t]] /\ fileSize[Process[t]] = 0

----------------------------------------------------------------------------
(* The type invariant.                                                     *)

LEMMA Numbers == /\ LastFile \in Nat /\ 0 \in FileNumber
                 /\ MaxFiles > 0 => LastFile = MaxFiles - 1
BY RollingFileConstants DEF LastFile, FileNumber

(* The handle stands at the end of the log, where the record goes.         *)
LEMMA WriteAppends ==
  ASSUME TypeOK, OneWriter, NEW p \in Processes, handle[p],
         NEW t \in Threads, Write(t, p)
  PROVE  files' = [files EXCEPT ![0] = Append(@, <<t, sent[t]>>)]
<1>1. files[0] \in Seq(Entry) /\ fileSize[p] = Len(files[0])
  BY Numbers DEF TypeOK, OneWriter
<1>2. SubSeq(files[0], 1, Len(files[0])) = files[0]
  BY <1>1, SubSeqFull
<1>3. SubSeq(files[0], Len(files[0]) + 2, Len(files[0])) = <<>>
  BY <1>1, SubSeqEmpty
<1>4. Append(files[0], <<t, sent[t]>>) \in Seq(Entry)
  BY <1>1 DEF TypeOK, Entry
<1>5. Append(files[0], <<t, sent[t]>>) \o <<>> = Append(files[0], <<t, sent[t]>>)
  BY <1>4, ConcatEmptySeq
<1>. QED  BY <1>1, <1>2, <1>3, <1>5 DEF Write

LEMMA NextType ==
  ASSUME TypeOK, OneWriter, Rolling, [Next]_vars
  PROVE  TypeOK'
<1>. USE RollingFileConstants, Numbers DEF TypeOK, PC, disk, appender, Goto
<1>1. CASE UNCHANGED vars
  BY <1>1 DEF vars
<1>2. ASSUME NEW p \in Processes, fplogInit(p) PROVE TypeOK'
  BY <1>2 DEF fplogInit
<1>3. ASSUME NEW t \in Threads, Log(t) PROVE TypeOK'
  BY <1>3 DEF Log
<1>4. ASSUME NEW t \in Threads, Step(t) PROVE TypeOK'
  <2>. DEFINE p == Process[t]
  <2>. p \in Processes /\ pc' = [pc EXCEPT ![t] = pc'[t]]
    BY <1>4 DEF Step, Enter, Close, Unlink, Rename, Open, Opened, OpenFailed,
       WriteHeader, Write
  <2>. HIDE DEF p
  <2>1. CASE Enter(t, p)
    BY <2>1 DEF Enter
  <2>2. CASE Close(t, p)
    BY <2>2 DEF Close
  <2>3. CASE Unlink(t, p)
    <3>1. Absent \in Seq(Entry)
      BY DEF Absent, Entry
    <3>2. files' \in [FileNumber -> Seq(Entry)]
      BY <2>3, <3>1 DEF Unlink
    <3>3. number' \in [Threads -> Int] /\ pc' \in [Threads -> PC]
      BY <2>3, SMTT(30) DEF Unlink
    <3>. QED  BY <2>3, <3>2, <3>3 DEF Unlink
  <2>4. CASE Rename(t, p)
    <3>1. number[t] \in 0 .. LastFile - 1 /\ number[t] + 1 \in FileNumber
      <4>1. pc[t] = "rename"
        BY <2>4 DEF Rename
      <4>2. number[t] \in 0 .. LastFile - 1
        BY <4>1 DEF Rolling
      <4>. QED  BY <4>2, SMTT(30) DEF FileNumber
    <3>2. files' \in [FileNumber -> Seq(Entry)]
      <4>1. Absent \in Seq(Entry)
        BY DEF Absent, Entry
      <4>2. files[number[t]] \in Seq(Entry)
        BY <3>1 DEF FileNumber
      <4>. QED  BY <2>4, <3>1, <4>1, <4>2 DEF Rename
    <3>3. number' \in [Threads -> Int] /\ pc' \in [Threads -> PC]
      BY <2>4, <3>1 DEF Rename
    <3>. QED  BY <2>4, <3>2, <3>3 DEF Rename
  <2>5. CASE Open(t, p)
    <3>1. ASSUME Opened(t, p) PROVE TypeOK'
      <4>1. PICK log \in Seq(Entry) :
              /\ files' = [files EXCEPT ![0] = log]
              /\ fileSize' = [fileSize EXCEPT ![p] = Len(log)]
        <5>1. (IF Exists(0) THEN files[0] ELSE <<>>) \in Seq(Entry)
          OBVIOUS
        <5>. QED  BY <3>1, <5>1 DEF Opened
      <4>2. Len(log) \in Int
        OBVIOUS
      <4>3. files' \in [FileNumber -> Seq(Entry)] /\ fileSize' \in [Processes -> Int]
        BY <4>1, <4>2
      <4>. QED  BY <2>5, <3>1, <4>3 DEF Open, Opened
    <3>2. CASE OpenFailed(t, p)
      BY <2>5, <3>2 DEF Open, OpenFailed
    <3>. QED  BY <2>5, <3>1, <3>2 DEF Open
  <2>6. CASE WriteHeader(t, p)
    <3>1. Append(files[0], Header) \in Seq(Entry)
      BY DEF Header, Entry
    <3>2. files' \in [FileNumber -> Seq(Entry)]
      BY <2>6, <3>1 DEF WriteHeader
    <3>3. fileSize' \in [Processes -> Int] /\ pc' \in [Threads -> PC]
      BY <2>6 DEF WriteHeader
    <3>. QED  BY <2>6, <3>2, <3>3 DEF WriteHeader
  <2>7. CASE Write(t, p)
    <3>1. <<t, sent[t]>> \in Entry /\ files[0] \in Seq(Entry)
      BY DEF Entry
    <3>2. files' \in [FileNumber -> Seq(Entry)]
      <4>1. CASE handle[p]
        <5>1. Append(files[0], <<t, sent[t]>>) \in Seq(Entry)
          BY <3>1
        <5>2. files' = [files EXCEPT ![0] = Append(@, <<t, sent[t]>>)]
          BY <2>7, <4>1, WriteAppends
        <5>. QED  BY <5>1, <5>2
      <4>2. CASE ~ handle[p]
        BY <2>7, <4>2 DEF Write
      <4>. QED  BY <4>1, <4>2
    <3>3. fileSize' \in [Processes -> Int]
      BY <2>7 DEF Write
    <3>4. round' \in [Threads -> Int]
      <4>1. round' = [round EXCEPT ![t] = @ - 1]
        BY <2>7 DEF Write
      <4>. QED  BY <4>1
    <3>5. pc' \in [Threads -> PC]
      BY <2>7 DEF Write
    <3>. QED  BY <2>7, <3>2, <3>3, <3>4, <3>5 DEF Write
  <2>. QED  BY <1>4, <2>1, <2>2, <2>3, <2>4, <2>5, <2>6, <2>7 DEF Step, p
<1>5. ASSUME NEW p \in Processes, Crash(p) PROVE TypeOK'
  BY <1>5 DEF Crash
<1>6. ASSUME NEW n \in FileNumber, View(n) \/ LookAway(n) PROVE TypeOK'
  BY <1>6 DEF View, LookAway, FileNumber
<1>. QED  BY <1>1, <1>2, <1>3, <1>4, <1>5, <1>6 DEF Next

----------------------------------------------------------------------------
(* The threads of a process and its mutex.                                 *)

Control ==
  /\ Exclusive /\ Counted /\ Rolling /\ Unopened /\ Headed /\ HeaderEmpty

(* A step is of one thread and touches the appender of its process alone.  *)
LEMMA StepAlone ==
  ASSUME TypeOK, NEW t \in Threads, Step(t)
  PROVE  LET p == Process[t] IN
         /\ p \in Processes
         /\ \A u \in Threads \ {t} : pc'[u] = pc[u] /\ number'[u] = number[u]
         /\ sent' = sent
         /\ \A q \in Processes \ {p} :
              /\ handle'[q] = handle[q] /\ fileSize'[q] = fileSize[q]
              /\ firstWrite'[q] = firstWrite[q] /\ holder'[q] = holder[q]
<1>. USE RollingFileConstants DEF TypeOK, appender, Goto
<1>1. Process[t] \in Processes
  OBVIOUS
<1>2. CASE Enter(t, Process[t]) \/ Close(t, Process[t])
  BY <1>1, <1>2 DEF Enter, Close
<1>3. CASE Unlink(t, Process[t]) \/ Rename(t, Process[t])
  BY <1>1, <1>3 DEF Unlink, Rename
<1>4. CASE Open(t, Process[t])
  BY <1>1, <1>4 DEF Open, Opened, OpenFailed
<1>5. CASE WriteHeader(t, Process[t])
  BY <1>1, <1>5 DEF WriteHeader
<1>6. CASE Write(t, Process[t])
  BY <1>1, <1>6 DEF Write
<1>. QED  BY <1>2, <1>3, <1>4, <1>5, <1>6 DEF Step

LEMMA StepControl ==
  ASSUME TypeOK, TypeOK', OneWriter, Control, NEW t \in Threads, Step(t)
  PROVE  Control'
<1>. DEFINE p == Process[t]
<1>1. p \in Processes
  BY RollingFileConstants
<1>2. \A u \in Threads \ {t} : Process[u] = p => pc[u] \notin Inside
  BY RollingFileConstants
     DEF Control, Exclusive, Step, Enter, Close, Unlink, Rename, Open, WriteHeader,
         Write, Inside, PC
<1>3. /\ \A u \in Threads \ {t} : pc'[u] = pc[u] /\ number'[u] = number[u]
      /\ sent' = sent
      /\ \A q \in Processes \ {p} :
           /\ handle'[q] = handle[q] /\ fileSize'[q] = fileSize[q]
           /\ firstWrite'[q] = firstWrite[q] /\ holder'[q] = holder[q]
  BY StepAlone
<1>4. \A u \in Threads : Process[u] \in Processes
  BY RollingFileConstants
<1>5. ASSUME pc'[t] \in Inside => holder'[p] = t,
             pc[t] # "idle",
             pc'[t] \in {"close", "unlink", "rename"} => MaxFiles > 0,
             pc'[t] = "rename" => number'[t] \in 0 .. LastFile - 1,
             pc'[t] \in {"unlink", "rename", "open"} => ~ handle'[p],
             firstWrite'[p] => ~ handle'[p],
             handle'[p] => fileSize'[p] > 0 \/ pc'[t] = "header",
             pc'[t] = "header" => handle'[p] /\ fileSize'[p] = 0
      PROVE  Control'
  <2>1. Exclusive'
    BY <1>2, <1>3, <1>4, <1>5 DEF Control, Exclusive
  <2>2. Counted'
    BY <1>3, <1>5 DEF Control, Counted
  <2>3. Rolling'
    <3>. SUFFICES ASSUME NEW u \in Threads
                  PROVE  /\ pc'[u] \in {"close", "unlink", "rename"} => MaxFiles > 0
                         /\ pc'[u] = "rename" => number'[u] \in 0 .. LastFile - 1
                         /\ pc'[u] \in {"unlink", "rename", "open"} =>
                              ~ handle'[Process[u]]
      BY DEF Rolling
    <3>1. CASE u = t
      BY <1>5, <3>1
    <3>2. CASE u # t /\ Process[u] = p
      BY <1>2, <1>3, <3>2 DEF Inside, PC
    <3>3. CASE u # t /\ Process[u] # p
      BY <1>3, <1>4, <3>3 DEF Control, Rolling
    <3>. QED  BY <3>1, <3>2, <3>3
  <2>4. Unopened'
    BY <1>3, <1>5 DEF Control, Unopened
  <2>5. Headed'
    <3>. SUFFICES ASSUME NEW q \in Processes, handle'[q]
                  PROVE  \/ fileSize'[q] > 0
                         \/ \E u \in Threads : Process[u] = q /\ pc'[u] = "header"
      BY DEF Headed
    <3>1. CASE q = p
      BY <1>5, <3>1
    <3>2. CASE q # p
      BY <1>3, <3>2 DEF Control, Headed
    <3>. QED  BY <3>1, <3>2
  <2>6. HeaderEmpty'
    <3>. SUFFICES ASSUME NEW u \in Threads, pc'[u] = "header"
                  PROVE  handle'[Process[u]] /\ fileSize'[Process[u]] = 0
      BY DEF HeaderEmpty
    <3>1. CASE u = t
      BY <1>5, <3>1
    <3>2. CASE u # t /\ Process[u] = p
      BY <1>2, <1>3, <3>2 DEF Inside, PC
    <3>3. CASE u # t /\ Process[u] # p
      BY <1>3, <1>4, <3>3 DEF Control, HeaderEmpty
    <3>. QED  BY <3>1, <3>2, <3>3
  <2>. QED  BY <2>1, <2>2, <2>3, <2>4, <2>5, <2>6 DEF Control
<1>6. pc[t] \in Inside => holder[p] = t
  BY DEF Control, Exclusive
<1>7. handle[p] => \/ fileSize[p] > 0
                   \/ pc[t] = "header"
  BY <1>1, <1>2 DEF Control, Headed, Inside, PC
<1>. HIDE DEF p
<1>8. CASE Enter(t, p)
  BY <1>1, <1>5, <1>7, <1>8 DEF Enter, Goto, appender, TypeOK, Control, Unopened
<1>9. CASE Close(t, p)
  BY <1>1, <1>5, <1>6, <1>7, <1>9
     DEF Close, Goto, TypeOK, Control, Rolling, Unopened, Inside, PC
<1>10. CASE Unlink(t, p)
  BY <1>1, <1>5, <1>6, <1>7, <1>10, RollingFileConstants, Numbers, SMTT(30)
     DEF Unlink, Goto, appender, TypeOK, Control, Rolling, Unopened, Inside, PC, p
<1>11. CASE Rename(t, p)
  <2>1. /\ pc[t] = "rename" /\ MaxFiles > 0 /\ ~ handle[p]
        /\ number[t] \in 0 .. LastFile - 1
    BY <1>11 DEF Rename, Control, Rolling, p
  <2>2. number'[t] = number[t] - 1
    BY <1>11 DEF Rename, TypeOK
  <2>3. pc'[t] = IF number[t] > 0 THEN "rename" ELSE "open"
    BY <1>11 DEF Rename, Goto, TypeOK
  <2>4. pc'[t] = "rename" => number'[t] \in 0 .. LastFile - 1
    BY <2>1, <2>2, <2>3, Numbers
  <2>5. holder[p] = t /\ UNCHANGED <<handle, firstWrite, holder>>
    BY <1>6, <1>11, <2>1 DEF Rename, appender, Inside, PC
  <2>. QED  BY <1>5, <2>1, <2>3, <2>4, <2>5
<1>12. CASE Open(t, p)
  BY <1>1, <1>5, <1>6, <1>12
     DEF Open, Opened, OpenFailed, Goto, TypeOK, Control, Rolling, Inside, PC, p
<1>13. CASE WriteHeader(t, p)
  BY <1>1, <1>5, <1>6, <1>13
     DEF WriteHeader, Goto, TypeOK, Control, Unopened, HeaderEmpty, Inside, PC, p
<1>14. CASE Write(t, p)
  BY <1>1, <1>5, <1>7, <1>14 DEF Write, Goto, TypeOK, Control, Unopened, Inside, PC
<1>. QED
  BY <1>8, <1>9, <1>10, <1>11, <1>12, <1>13, <1>14 DEF Step, p

LEMMA NextControl ==
  ASSUME TypeOK, TypeOK', OneWriter, Control, [Next]_vars
  PROVE  Control'
<1>. USE DEF Control, Exclusive, Counted, Rolling, Unopened, Headed, HeaderEmpty
<1>1. CASE UNCHANGED vars
  BY <1>1 DEF vars, appender
<1>2. ASSUME NEW p \in Processes, fplogInit(p) PROVE Control'
  BY <1>2 DEF fplogInit, appender
<1>3. ASSUME NEW t \in Threads, Log(t) PROVE Control'
  <2>1. /\ pc' = [pc EXCEPT ![t] = "enter"]
        /\ sent' = [sent EXCEPT ![t] = @ + 1]
        /\ UNCHANGED <<firstWrite, handle, fileSize, holder, number>>
        /\ pc[t] = "idle"
    BY <1>3 DEF Log, Goto, appender
  <2>2. Counted'
    BY <2>1 DEF TypeOK
  <2>3. Exclusive' /\ Rolling' /\ Unopened' /\ HeaderEmpty'
    BY <2>1 DEF TypeOK, Inside, PC
  <2>4. Headed'
    BY <2>1 DEF TypeOK
  <2>. QED  BY <2>2, <2>3, <2>4
<1>4. ASSUME NEW t \in Threads, Step(t) PROVE Control'
  BY <1>4, StepControl
<1>5. ASSUME NEW p \in Processes, Crash(p) PROVE Control'
  <2>1. /\ \A t \in Threads :
              pc'[t] = IF Process[t] = p THEN "idle" ELSE pc[t]
        /\ \A q \in Processes \ {p} :
              /\ handle'[q] = handle[q] /\ fileSize'[q] = fileSize[q]
              /\ firstWrite'[q] = firstWrite[q] /\ holder'[q] = holder[q]
        /\ ~ handle'[p]
        /\ UNCHANGED <<sent, number>>
    BY <1>5 DEF Crash, Own, TypeOK
  <2>2. \A t \in Threads : Process[t] \in Processes
    BY RollingFileConstants
  <2>3. Exclusive'
    BY <2>1, <2>2 DEF Inside
  <2>4. Counted'
    BY <2>1
  <2>5. Rolling'
    BY <2>1, <2>2
  <2>6. Unopened'
    BY <2>1
  <2>7. Headed'
    BY <2>1
  <2>8. HeaderEmpty'
    BY <2>1, <2>2
  <2>. QED  BY <2>3, <2>4, <2>5, <2>6, <2>7, <2>8
<1>6. ASSUME NEW n \in FileNumber, View(n) \/ LookAway(n) PROVE Control'
  BY <1>6 DEF View, LookAway, appender
<1>. QED  BY <1>1, <1>2, <1>3, <1>4, <1>5, <1>6 DEF Next

----------------------------------------------------------------------------
(* What stands in the files.                                               *)

(* A record or a header is added at the end of the log, a file is moved    *)
(* into a free place, the oldest is taken away, or the log comes into being.      *)
FilesStep(t, p) ==
  \/ files' = files
  \/ ~InUse(LastFile) /\ files' = [files EXCEPT ![LastFile] = Absent]
  \/ \E n \in FileNumber :
       /\ n + 1 \in FileNumber /\ ~InUse(n) /\ ~Exists(n + 1)
       /\ files' = [files EXCEPT ![n + 1] = files[n], ![n] = Absent]
  \/ MayOpen /\ ~Exists(0) /\ files' = [files EXCEPT ![0] = <<>>]
  \/ /\ handle[p] /\ files[0] = <<>>
     /\ files' = [files EXCEPT ![0] = Append(@, Header)]
  \/ /\ handle[p] /\ files[0] # <<>> /\ sent[t] > 0
     /\ files' = [files EXCEPT ![0] = Append(@, <<t, sent[t]>>)]

LEMMA StepFiles ==
  ASSUME TypeOK, OneWriter, Control, NEW t \in Threads, Step(t)
  PROVE  FilesStep(t, Process[t])
<1>. DEFINE p == Process[t]
<1>1. p \in Processes
  BY RollingFileConstants
<1>2. files[0] \in Seq(Entry)
  BY Numbers DEF TypeOK
<1>. HIDE DEF p
<1>3. CASE Enter(t, p) \/ Close(t, p)
  BY <1>3 DEF Enter, Close, disk, FilesStep
<1>4. CASE Unlink(t, p)
  <2>1. LastFile \in FileNumber
    BY Numbers DEF FileNumber
  <2>. QED  BY <1>4, <2>1 DEF Unlink, FilesStep
<1>5. CASE Rename(t, p)
  <2>1. number[t] \in FileNumber /\ number[t] + 1 \in FileNumber
    BY <1>5, Numbers DEF Rename, Control, Rolling, FileNumber
  <2>. QED  BY <1>5, <2>1 DEF Rename, FilesStep
<1>6. CASE Open(t, p)
  <2>1. CASE Exists(0) \/ OpenFailed(t, p)
    BY <1>6, <2>1, Numbers DEF Open, Opened, OpenFailed, FilesStep, TypeOK
  <2>2. CASE ~ Exists(0) /\ Opened(t, p)
    BY <2>2 DEF Opened, FilesStep
  <2>. QED  BY <1>6, <2>1, <2>2 DEF Open
<1>7. CASE WriteHeader(t, p)
  <2>1. pc[t] = "header" /\ files' = [files EXCEPT ![0] = Append(@, Header)]
    BY <1>7 DEF WriteHeader
  <2>2. handle[p] /\ fileSize[p] = 0
    BY <2>1 DEF Control, HeaderEmpty, p
  <2>3. files[0] = <<>>
    BY <1>1, <1>2, <2>2 DEF OneWriter
  <2>. QED  BY <2>1, <2>2, <2>3 DEF FilesStep, p
<1>8. CASE Write(t, p)
  <2>1. CASE ~ handle[p]
    BY <1>8, <2>1 DEF Write, FilesStep
  <2>2. CASE handle[p]
    <3>1. files' = [files EXCEPT ![0] = Append(@, <<t, sent[t]>>)]
      BY <1>1, <1>8, <2>2, WriteAppends
    <3>2. pc[t] = "write" /\ holder[p] = t
      BY <1>8 DEF Write, Control, Exclusive, Inside, PC, p
    <3>3. fileSize[p] > 0
      BY <1>1, <2>2, <3>2 DEF Control, Headed, Exclusive, Inside, PC
    <3>4. files[0] # <<>>
      BY <1>1, <1>2, <2>2, <3>3 DEF OneWriter
    <3>5. sent[t] > 0
      BY <3>2 DEF Control, Counted
    <3>. QED  BY <2>2, <3>1, <3>4, <3>5 DEF FilesStep, p
  <2>. QED  BY <2>1, <2>2
<1>. QED  BY <1>3, <1>4, <1>5, <1>6, <1>7, <1>8 DEF Step, p

(* A log or backup that is there.                                          *)
LEMMA Entries ==
  /\ Absent # <<>> /\ <<Header>> # Absent /\ Absent \in Seq(Entry)
  /\ Header \in Entry
  /\ \A s \in Seq(Entry), e \in Entry :
       (s # <<>> \/ e = Header) => Append(s, e) # Absent
<1>1. /\ Absent # <<>> /\ Absent \in Seq(Entry) /\ Len(Absent) = 1
      /\ Absent[1] = <<"absent", 0>>
  BY DEF Absent, Entry
<1>2. Header # <<"absent", 0>> /\ Header \in Entry
  BY DEF Header, Entry
<1>3. ASSUME NEW s \in Seq(Entry), NEW e \in Entry, s # <<>> \/ e = Header
      PROVE  Append(s, e) # Absent
  <2>1. Len(Append(s, e)) = Len(s) + 1 /\ Append(s, e)[Len(s) + 1] = e
    OBVIOUS
  <2>2. CASE s = <<>>
    BY <1>1, <1>2, <1>3, <2>1, <2>2
  <2>3. CASE s # <<>>
    <3>1. Len(s) > 0
      BY <2>3, EmptySeq
    <3>. QED  BY <1>1, <2>1, <3>1
  <2>. QED  BY <2>2, <2>3
<1>4. <<Header>> # Absent
  BY <1>1, <1>2, SMTT(30)
<1>. QED  BY <1>1, <1>2, <1>3, <1>4

(* A file begins with its only header, if it holds anything.               *)
Begun(s) ==
  s # <<>> => s[1] = Header /\ \A i \in 2 .. Len(s) : s[i] # Header

LEMMA HeaderFirstStep ==
  ASSUME TypeOK, OneWriter, HeaderFirst, NEW t \in Threads,
         NEW p \in Processes, FilesStep(t, p)
  PROVE  HeaderFirst'
<1>1. HeaderFirst <=> \A n \in FileNumber : Exists(n) => Begun(files[n])
  BY DEF HeaderFirst, Begun
<1>2. HeaderFirst' <=> \A n \in FileNumber : files'[n] # Absent => Begun(files'[n])
  BY DEF HeaderFirst, Begun, Exists
<1>. SUFFICES ASSUME NEW n \in FileNumber, files'[n] # Absent
              PROVE  Begun(files'[n])
  BY <1>2
<1>3. \A m \in FileNumber : files[m] # Absent => Begun(files[m])
  BY <1>1 DEF Exists
<1>4. CASE files'[n] \in {files[m] : m \in FileNumber}
  BY <1>3, <1>4
<1>5. CASE files'[n] = <<>>
  BY <1>5 DEF Begun
<1>6. CASE files[0] = <<>> /\ files'[n] = Append(files[0], Header)
  <2>1. Len(files'[n]) = 1 /\ files'[n][1] = Header
    BY <1>6
  <2>. QED  BY <2>1 DEF Begun
<1>7. CASE /\ files[0] # <<>> /\ sent[t] > 0 /\ Exists(0)
           /\ files'[n] = Append(files[0], <<t, sent[t]>>)
  <2>. DEFINE s == files[0]
              e == <<t, sent[t]>>
  <2>1. s \in Seq(Entry) /\ e \in Entry /\ Begun(s)
    BY <1>3, <1>7, Numbers DEF TypeOK, Entry, Exists
  <2>2. e # Header
    BY <1>7 DEF Header
  <2>3. /\ Len(Append(s, e)) = Len(s) + 1 /\ Append(s, e)[Len(s) + 1] = e
        /\ \A i \in 1 .. Len(s) : Append(s, e)[i] = s[i]
    BY <2>1
  <2>4. Len(s) \in Nat \ {0}
    BY <1>7, <2>1
  <2>. HIDE DEF s, e
  <2>5. s # <<>>
    BY <1>7 DEF s
  <2>6. Append(s, e)[1] = Header
    BY <2>1, <2>3, <2>4, <2>5 DEF Begun
  <2>7. ASSUME NEW i \in 2 .. Len(s) + 1 PROVE Append(s, e)[i] # Header
    BY <2>1, <2>2, <2>3, <2>4, <2>5 DEF Begun
  <2>8. files'[n] = Append(s, e)
    BY <1>7 DEF s, e
  <2>. QED  BY <2>3, <2>6, <2>7, <2>8 DEF Begun
<1>8. \A m \in FileNumber : files'[m] \in {files[k] : k \in FileNumber}
        \/ files'[m] = Absent
        \/ files'[m] = <<>>
        \/ (files[0] = <<>> /\ files'[m] = Append(files[0], Header))
        \/ (/\ files[0] # <<>> /\ sent[t] > 0 /\ Exists(0)
            /\ files'[m] = Append(files[0], <<t, sent[t]>>))
  <2>1. handle[p] => Exists(0)
    BY DEF OneWriter
  <2>. QED  BY <2>1, Numbers DEF FilesStep, TypeOK
<1>. QED  BY <1>4, <1>5, <1>6, <1>7, <1>8

(* The log is there while it is open, and grows only through its handle.   *)
LEMMA LogStep ==
  ASSUME TypeOK, OneWriter, NEW t \in Threads, NEW p \in Processes,
         FilesStep(t, p), files'[0] # files[0]
  PROVE  \/ \A q \in Processes : ~ handle[q]
         \/ /\ handle[p] /\ files'[0] # Absent
            /\ Len(files'[0]) = Len(files[0]) + 1
<1>1. 0 \in FileNumber /\ files[0] \in Seq(Entry)
  BY Numbers DEF TypeOK
<1>2. CASE ~InUse(LastFile) /\ files' = [files EXCEPT ![LastFile] = Absent]
  BY <1>1, <1>2 DEF InUse, TypeOK
<1>3. CASE \E n \in FileNumber :
             /\ n + 1 \in FileNumber /\ ~InUse(n) /\ ~Exists(n + 1)
             /\ files' = [files EXCEPT ![n + 1] = files[n], ![n] = Absent]
  <2>1. PICK n \in FileNumber :
             /\ n + 1 \in FileNumber /\ ~InUse(n)
             /\ files' = [files EXCEPT ![n + 1] = files[n], ![n] = Absent]
    BY <1>3
  <2>2. n + 1 # 0 /\ n \in Nat
    BY Numbers DEF FileNumber
  <2>3. n = 0
    BY <1>1, <2>1, <2>2 DEF TypeOK
  <2>. QED  BY <2>1, <2>3 DEF InUse
<1>4. CASE MayOpen
  BY <1>4 DEF MayOpen
<1>5. CASE /\ handle[p] /\ files[0] = <<>>
           /\ files' = [files EXCEPT ![0] = Append(@, Header)]
  <2>1. files'[0] = Append(files[0], Header)
    BY <1>1, <1>5 DEF TypeOK
  <2>. QED  BY <1>1, <1>5, <2>1, Entries
<1>6. CASE /\ handle[p] /\ files[0] # <<>> /\ sent[t] > 0
           /\ files' = [files EXCEPT ![0] = Append(@, <<t, sent[t]>>)]
  <2>1. files'[0] = Append(files[0], <<t, sent[t]>>)
    BY <1>1, <1>6 DEF TypeOK
  <2>2. <<t, sent[t]>> \in Entry
    BY DEF TypeOK, Entry
  <2>. QED  BY <1>1, <1>6, <2>1, <2>2, Entries
<1>. QED  BY <1>2, <1>3, <1>4, <1>5, <1>6 DEF FilesStep

LEMMA StepOneWriter ==
  ASSUME TypeOK, OneWriter, Control, NEW t \in Threads, Step(t)
  PROVE  OneWriter'
<1>. DEFINE p == Process[t]
<1>1. p \in Processes /\ FilesStep(t, p)
  BY RollingFileConstants, StepFiles
<1>2. /\ files \in [FileNumber -> Seq(Entry)] /\ 0 \in FileNumber
      /\ handle \in [Processes -> BOOLEAN] /\ fileSize \in [Processes -> Int]
  BY Numbers DEF TypeOK
<1>3. files'[0] # files[0] =>
        \/ \A q \in Processes : ~ handle[q]
        \/ /\ handle[p] /\ files'[0] # Absent
           /\ Len(files'[0]) = Len(files[0]) + 1
  BY <1>1, LogStep
<1>4. pc[t] \in {"unlink", "rename", "open"} => ~ handle[p]
  BY DEF Control, Rolling
<1>. HIDE DEF p
<1>5. CASE Enter(t, p) \/ Close(t, p)
  BY <1>1, <1>2, <1>5 DEF Enter, Close, OneWriter, Exists, appender, disk
<1>6. CASE Unlink(t, p) \/ Rename(t, p)
  <2>1. UNCHANGED <<handle, fileSize>> /\ ~ handle[p]
    BY <1>4, <1>6 DEF Unlink, Rename, appender
  <2>. QED  BY <1>3, <2>1 DEF OneWriter, Exists
<1>7. CASE Open(t, p) /\ Opened(t, p)
  <2>1. \A q \in Processes : handle'[q] => q = p
    BY <1>2, <1>7 DEF Opened, MayOpen
  <2>2. PICK log \in Seq(Entry) : /\ log # Absent /\ files'[0] = log
                                  /\ fileSize'[p] = Len(log)
    <3>1. (IF Exists(0) THEN files[0] ELSE <<>>) \in Seq(Entry)
      BY <1>2
    <3>2. (IF Exists(0) THEN files[0] ELSE <<>>) # Absent
      BY Entries DEF Exists
    <3>. QED  BY <1>1, <1>2, <1>7, <3>1, <3>2 DEF Opened
  <2>. QED  BY <2>1, <2>2 DEF OneWriter, Exists
<1>8. CASE Open(t, p) /\ OpenFailed(t, p)
  <2>1. pc[t] = "open" /\ UNCHANGED <<files, handle>>
        /\ \A q \in Processes \ {p} : fileSize'[q] = fileSize[q]
    BY <1>2, <1>8 DEF Open, OpenFailed
  <2>. QED  BY <1>4, <2>1 DEF OneWriter, Exists
<1>9. ASSUME handle[p], files'[0] # files[0], UNCHANGED handle,
             fileSize' = [fileSize EXCEPT ![p] = @ + 1]
      PROVE  OneWriter'
  <2>1. files'[0] # Absent /\ Len(files'[0]) = Len(files[0]) + 1
    BY <1>1, <1>3, <1>9
  <2>2. \A q \in Processes : handle[q] => q = p /\ fileSize[q] = Len(files[0])
    BY <1>1, <1>9 DEF OneWriter
  <2>3. fileSize'[p] = Len(files[0]) + 1
    BY <1>1, <1>2, <1>9, <2>2
  <2>. QED  BY <1>9, <2>1, <2>2, <2>3 DEF OneWriter, Exists
<1>10. ASSUME NEW s \in Seq(Entry), NEW e \in Entry PROVE Append(s, e) # s
  <2>1. Len(Append(s, e)) = Len(s) + 1 /\ Len(s) \in Nat
    OBVIOUS
  <2>. QED  BY <2>1
<1>11. CASE WriteHeader(t, p)
  <2>1. /\ pc[t] = "header" /\ UNCHANGED handle
        /\ fileSize' = [fileSize EXCEPT ![p] = @ + 1]
        /\ files'[0] = Append(files[0], Header)
    BY <1>2, <1>11 DEF WriteHeader
  <2>2. handle[p]
    BY <2>1 DEF Control, HeaderEmpty, p
  <2>. QED  BY <1>2, <1>9, <1>10, <2>1, <2>2, Entries
<1>12. CASE Write(t, p) /\ handle[p]
  <2>1. /\ UNCHANGED handle /\ fileSize' = [fileSize EXCEPT ![p] = @ + 1]
        /\ files' = [files EXCEPT ![0] = Append(@, <<t, sent[t]>>)]
    BY <1>1, <1>12, WriteAppends DEF Write
  <2>2. <<t, sent[t]>> \in Entry
    BY DEF TypeOK, Entry
  <2>. QED  BY <1>2, <1>9, <1>10, <1>12, <2>1, <2>2
<1>13. CASE Write(t, p) /\ ~ handle[p]
  BY <1>13 DEF Write, OneWriter, Exists
<1>. QED
  BY <1>5, <1>6, <1>7, <1>8, <1>11, <1>12, <1>13 DEF Step, Open, p

----------------------------------------------------------------------------

LogInv == TypeOK /\ LogFilesRight /\ Control

LEMMA NextLogInv == LogInv /\ [Next]_vars => LogInv'
<1>. SUFFICES ASSUME TypeOK, OneWriter, HeaderFirst, Control, [Next]_vars
              PROVE  LogInv'
  BY DEF LogInv, LogFilesRight
<1>1. TypeOK'
  BY NextType DEF Control
<1>2. Control'
  BY <1>1, NextControl
<1>3. ASSUME UNCHANGED <<files, handle, fileSize>>
      PROVE  OneWriter' /\ HeaderFirst'
  BY <1>3 DEF OneWriter, HeaderFirst, Exists
<1>4. ASSUME UNCHANGED vars PROVE OneWriter' /\ HeaderFirst'
  BY <1>3, <1>4 DEF vars, disk, appender
<1>5. ASSUME NEW p \in Processes, fplogInit(p) PROVE OneWriter' /\ HeaderFirst'
  BY <1>3, <1>5 DEF fplogInit, disk, appender
<1>6. ASSUME NEW t \in Threads, Log(t) PROVE OneWriter' /\ HeaderFirst'
  BY <1>3, <1>6 DEF Log, disk, appender
<1>7. ASSUME NEW t \in Threads, Step(t) PROVE OneWriter' /\ HeaderFirst'
  <2>1. Process[t] \in Processes
    BY RollingFileConstants
  <2>. QED  BY <1>7, <2>1, StepFiles, HeaderFirstStep, StepOneWriter
<1>8. ASSUME NEW p \in Processes, Crash(p) PROVE OneWriter' /\ HeaderFirst'
  BY <1>8 DEF Crash, disk, OneWriter, HeaderFirst, Exists, TypeOK
<1>9. ASSUME NEW n \in FileNumber, View(n) \/ LookAway(n)
      PROVE  OneWriter' /\ HeaderFirst'
  BY <1>3, <1>9 DEF View, LookAway, appender
<1>10. OneWriter' /\ HeaderFirst'
  BY <1>4, <1>5, <1>6, <1>7, <1>8, <1>9 DEF Next
<1>. QED  BY <1>1, <1>2, <1>10 DEF LogInv, LogFilesRight

LEMMA InitLogInv == Init => LogInv
<1>. SUFFICES ASSUME Init PROVE LogInv
  OBVIOUS
<1>1. TypeOK
  BY Entries DEF Init, TypeOK, PC
<1>2. OneWriter /\ HeaderFirst
  BY DEF Init, OneWriter, HeaderFirst, Exists
<1>3. Control
  BY RollingFileConstants
     DEF Init, Control, Exclusive, Counted, Rolling, Unopened, Headed, HeaderEmpty,
         Inside
<1>. QED  BY <1>1, <1>2, <1>3 DEF LogInv, LogFilesRight

(* Of all the processes that log to the same file at most one has it open, *)
(* and it knows the file's length, so that nothing is written over; and    *)
(* every file that holds anything begins with its only header, whatever    *)
(* processes are ended and whatever files others have open                 *)
(* (RollingFileAppender.h:28-88).                                          *)
THEOREM LogsRight == Spec => []LogFilesRight
<1>1. LogInv => LogFilesRight
  BY DEF LogInv
<1>. QED  BY <1>1, InitLogInv, NextLogInv, PTL DEF Spec

----------------------------------------------------------------------------
(* Concatenations of any length.  What is so of every beginning is shown   *)
(* by way of the shortest beginning of which it is not.                    *)

LEMMA Smallest ==
  ASSUME NEW T, T \subseteq Nat, T # {}
  PROVE  \E x \in T : \A y \in T : x <= y
<1>1. PICK x \in T : \A y \in T : ~ (<<y, x>> \in OpToRel(<, Nat))
  BY NatLessThanWellFounded, WFMin, Zenon
<1>2. \A y \in T : <<y, x>> \in Nat \X Nat /\ ~ (y < x)
  BY <1>1 DEF OpToRel
<1>3. ASSUME NEW y \in T PROVE x <= y
  <2>1. x \in Nat /\ y \in Nat /\ ~ (y < x)
    BY <1>2
  <2>. QED  BY <2>1
<1>. QED  BY <1>3

(* g[i] is what the first i of the sequences ss make together.             *)
Joins(g, ss, n) ==
  \A i \in 1 .. n : g[i] = IF i = 1 THEN ss[i] ELSE g[i - 1] \o ss[i]

LEMMA JoinsExist ==
  ASSUME NEW ss, NEW n \in Nat
  PROVE  \E g : g = [i \in 1 .. n |-> IF i = 1 THEN ss[i] ELSE g[i - 1] \o ss[i]]
<1>. DEFINE Joined(g, m) ==
              g = [i \in 1 .. m |-> IF i = 1 THEN ss[i] ELSE g[i - 1] \o ss[i]]
            S == {m \in Nat : ~ \E g : Joined(g, m)}
<1>. SUFFICES ASSUME S # {} PROVE FALSE
  OBVIOUS
<1>1. PICK k \in S : \A j \in S : k <= j
  <2>1. S \subseteq Nat
    OBVIOUS
  <2>. QED  BY <2>1, Smallest
<1>2. k # 0
  <2>. SUFFICES ASSUME k = 0 PROVE FALSE
    OBVIOUS
  <2>1. Joined([i \in 1 .. 0 |-> 0], 0)
    OBVIOUS
  <2>. QED  BY <2>1
<1>3. k \in Nat /\ k - 1 \in Nat
  BY <1>2
<1>4. k - 1 \notin S
  <2>. SUFFICES ASSUME k - 1 \in S PROVE FALSE
    OBVIOUS
  <2>. HIDE DEF S
  <2>1. k <= k - 1
    BY <1>1
  <2>. QED  BY <1>3, <2>1
<1>5. PICK g : Joined(g, k - 1)
  BY <1>3, <1>4
<1>. DEFINE h == [i \in 1 .. k |-> IF i # k THEN g[i]
                                   ELSE IF k = 1 THEN ss[k] ELSE g[k - 1] \o ss[k]]
<1>6. ASSUME NEW i \in 1 .. k
      PROVE  h[i] = IF i = 1 THEN ss[i] ELSE h[i - 1] \o ss[i]
  <2>1. CASE i = k
    <3>1. k # 1 => h[k - 1] = g[k - 1]
      BY <1>3
    <3>. QED  BY <2>1, <3>1
  <2>2. CASE i # k
    <3>1. i \in 1 .. k - 1 /\ h[i] = g[i] /\ (i # 1 => h[i - 1] = g[i - 1])
      BY <1>3, <2>2
    <3>2. g[i] = IF i = 1 THEN ss[i] ELSE g[i - 1] \o ss[i]
      BY <1>5, <3>1
    <3>. QED  BY <3>1, <3>2
  <2>. QED  BY <2>1, <2>2
<1>7. h = [i \in 1 .. k |-> h[i]]
  OBVIOUS
<1>. HIDE DEF h
<1>8. Joined(h, k)
  BY <1>6, <1>7
<1>. QED  BY <1>1, <1>8

LEMMA FlattenJoins ==
  ASSUME NEW ss, Len(ss) \in Nat \ {0}
  PROVE  \E g : Joins(g, ss, Len(ss)) /\ FlattenSeq(ss) = g[Len(ss)]
<1>. DEFINE n == Len(ss)
            F == CHOOSE g : g = [i \in 1 .. n |->
                                  IF i = 1 THEN ss[i] ELSE g[i - 1] \o ss[i]]
<1>1. \E g : g = [i \in 1 .. n |-> IF i = 1 THEN ss[i] ELSE g[i - 1] \o ss[i]]
  BY JoinsExist
<1>2. F = [i \in 1 .. n |-> IF i = 1 THEN ss[i] ELSE F[i - 1] \o ss[i]]
  BY <1>1, Zenon
<1>3. FlattenSeq(ss) = F[n]
  BY DEF FlattenSeq
<1>. HIDE DEF F
<1>. QED  BY <1>2, <1>3 DEF Joins

LEMMA Associative ==
  \A X : \A r, s, t \in Seq(X) : (r \o s) \o t = r \o (s \o t)
BY ONLY ConcatAssociative

LEMMA NothingJoined ==
  ASSUME NEW X, NEW s \in Seq(X)
  PROVE  <<>> \o s = s /\ s \o <<>> = s /\ <<>> \in Seq(X)
OBVIOUS

(* Two rows of sequences that are the same behind place m.                 *)
SameBehind(X, n, m, ss, tt, g, h, p) ==
  /\ n \in Nat /\ m \in 1 .. n /\ p \in Seq(X) /\ g[m] = p \o h[m]
  /\ h[m] \in Seq(X)
  /\ \A i \in m + 1 .. n : ss[i] \in Seq(X) /\ ss[i] = tt[i]
  /\ Joins(g, ss, n) /\ Joins(h, tt, n)

LEMMA JoinsBehind ==
  ASSUME NEW X, NEW n, NEW m, NEW ss, NEW tt, NEW g, NEW h, NEW p,
         SameBehind(X, n, m, ss, tt, g, h, p)
  PROVE  g[n] = p \o h[n] /\ h[n] \in Seq(X)
<1>. /\ n \in Nat /\ m \in 1 .. n /\ p \in Seq(X)
     /\ Joins(g, ss, n) /\ Joins(h, tt, n)
     /\ \A i \in m + 1 .. n : ss[i] \in Seq(X) /\ ss[i] = tt[i]
  BY DEF SameBehind
<1>. DEFINE S == {i \in m .. n : ~ (g[i] = p \o h[i] /\ h[i] \in Seq(X))}
<1>. SUFFICES S = {}
  BY SMTT(30) DEF SameBehind
<1>. SUFFICES ASSUME S # {} PROVE FALSE
  OBVIOUS
<1>1. PICK k \in S : \A j \in S : k <= j
  <2>1. S \subseteq Nat
    OBVIOUS
  <2>. QED  BY <2>1, Smallest
<1>2. k \in m .. n /\ k # m
  BY <1>1 DEF SameBehind
<1>3. /\ k \in m + 1 .. n /\ k \in 1 .. n /\ k # 1
      /\ k - 1 \in m .. n /\ ~ (k <= k - 1)
  BY <1>2
<1>4. g[k - 1] = p \o h[k - 1] /\ h[k - 1] \in Seq(X)
  BY <1>1, <1>3
<1>5. ~ (g[k] = p \o h[k] /\ h[k] \in Seq(X))
  BY <1>1
<1>. HIDE DEF S
<1>6. g[k] = g[k - 1] \o ss[k] /\ h[k] = h[k - 1] \o ss[k] /\ ss[k] \in Seq(X)
  BY <1>3 DEF Joins
<1>. PICK u, v : u = h[k - 1] /\ v = ss[k]
  OBVIOUS
<1>7. u \in Seq(X) /\ v \in Seq(X) /\ p \in Seq(X)
  BY <1>4, <1>6
<1>8. u \o v \in Seq(X)
  BY ONLY <1>7
<1>9. (p \o u) \o v = p \o (u \o v)
  BY ONLY <1>7, Associative
<1>. QED  BY <1>4, <1>5, <1>6, <1>8, <1>9

(* Two rows of sequences, the second made from the first.                  *)
Rows(X, ss, tt) ==
  /\ ss \in Seq(Seq(X)) /\ tt \in Seq(Seq(X))
  /\ Len(ss) # 0 /\ Len(tt) = Len(ss)

(* The first sequence is dropped.                                          *)
LEMMA FlattenDrop ==
  ASSUME NEW X, NEW ss, NEW tt, Rows(X, ss, tt),
         tt[1] = <<>>, \A i \in 2 .. Len(ss) : tt[i] = ss[i]
  PROVE  FlattenSeq(ss) = ss[1] \o FlattenSeq(tt) /\ FlattenSeq(tt) \in Seq(X)
<1>. PICK n : n = Len(ss)
  OBVIOUS
<1>1. /\ n \in Nat \ {0} /\ n = Len(tt)
      /\ \A i \in 1 .. n : ss[i] \in Seq(X) /\ tt[i] \in Seq(X)
  BY DEF Rows
<1>2. PICK g : Joins(g, ss, n) /\ FlattenSeq(ss) = g[n]
  BY <1>1, FlattenJoins
<1>3. PICK h : Joins(h, tt, n) /\ FlattenSeq(tt) = h[n]
  BY <1>1, FlattenJoins
<1>4. g[1] = ss[1] /\ h[1] = <<>>
  BY <1>1, <1>2, <1>3 DEF Joins
<1>. PICK p : p = ss[1]
  OBVIOUS
<1>5. SameBehind(X, n, 1, ss, tt, g, h, p)
  <2>1. p \in Seq(X) /\ <<>> \in Seq(X) /\ p = p \o <<>> /\ 1 \in 1 .. n
    BY <1>1, NothingJoined
  <2>2. \A i \in 2 .. n : i \in 1 .. n /\ ss[i] = tt[i]
    BY <1>1
  <2>. QED  BY <1>1, <1>2, <1>3, <1>4, <2>1, <2>2 DEF SameBehind
<1>6. g[n] = p \o h[n] /\ h[n] \in Seq(X)
  BY ONLY <1>5, JoinsBehind
<1>. QED  BY <1>2, <1>3, <1>6

(* Rows that begin alike.                                                  *)
SameBefore(X, n, m, ss, tt, g, h) ==
  /\ n \in Nat /\ m \in 1 .. n
  /\ \A i \in 1 .. m : ss[i] \in Seq(X) /\ ss[i] = tt[i]
  /\ Joins(g, ss, n) /\ Joins(h, tt, n)

LEMMA JoinsBefore ==
  ASSUME NEW X, NEW n, NEW m, NEW ss, NEW tt, NEW g, NEW h,
         SameBefore(X, n, m, ss, tt, g, h)
  PROVE  g[m] = h[m] /\ h[m] \in Seq(X)
<1>1. /\ m \in Nat /\ 1 \in 1 .. m /\ \A i \in 1 .. m : i \in 1 .. n
      /\ \A i \in 1 .. m : ss[i] \in Seq(X) /\ ss[i] = tt[i]
  BY DEF SameBefore
<1>2. Joins(g, ss, m) /\ Joins(h, tt, m)
  BY ONLY <1>1, SameBefore(X, n, m, ss, tt, g, h) DEF SameBefore, Joins
<1>3. g[1] = ss[1] /\ h[1] = ss[1] /\ ss[1] \in Seq(X)
  BY ONLY <1>1, <1>2 DEF Joins
<1>4. <<>> \in Seq(X) /\ ss[1] = <<>> \o ss[1]
  BY ONLY <1>3, NothingJoined
<1>5. SameBehind(X, m, 1, ss, tt, g, h, <<>>)
  BY ONLY <1>1, <1>2, <1>3, <1>4 DEF SameBehind
<1>6. g[m] = <<>> \o h[m] /\ h[m] \in Seq(X)
  BY ONLY <1>5, JoinsBehind
<1>. QED  BY ONLY <1>6, NothingJoined

(* The last sequence grows.                                                *)
LEMMA FlattenAppend ==
  ASSUME NEW X, NEW ss, NEW tt, Rows(X, ss, tt), NEW r \in X,
         \A i \in 1 .. Len(ss) - 1 : tt[i] = ss[i],
         tt[Len(ss)] = Append(ss[Len(ss)], r)
  PROVE  FlattenSeq(tt) = Append(FlattenSeq(ss), r)
<1>. PICK n : n = Len(ss)
  OBVIOUS
<1>1. /\ n \in Nat \ {0} /\ n = Len(tt)
      /\ \A i \in 1 .. n : ss[i] \in Seq(X) /\ tt[i] \in Seq(X)
  BY DEF Rows
<1>2. PICK g : Joins(g, ss, n) /\ FlattenSeq(ss) = g[n]
  BY <1>1, FlattenJoins
<1>3. PICK h : Joins(h, tt, n) /\ FlattenSeq(tt) = h[n]
  BY <1>1, FlattenJoins
<1>4. CASE n = 1
  BY <1>1, <1>2, <1>3, <1>4 DEF Joins
<1>5. CASE n # 1
  <2>1. n - 1 \in 1 .. n /\ \A i \in 1 .. n - 1 : ss[i] \in Seq(X) /\ ss[i] = tt[i]
    BY <1>1, <1>5
  <2>2. SameBefore(X, n, n - 1, ss, tt, g, h)
    BY <1>1, <1>2, <1>3, <2>1 DEF SameBefore
  <2>3. g[n - 1] = h[n - 1] /\ h[n - 1] \in Seq(X)
    BY ONLY <2>2, JoinsBefore
  <2>4. n \in 1 .. n /\ tt[n] = Append(ss[n], r)
    BY <1>1
  <2>5. g[n] = g[n - 1] \o ss[n] /\ h[n] = h[n - 1] \o Append(ss[n], r)
    BY ONLY <1>2, <1>3, <1>5, <2>4 DEF Joins
  <2>. PICK u, v : u = h[n - 1] /\ v = ss[n]
    OBVIOUS
  <2>6. u \in Seq(X) /\ v \in Seq(X)
    BY <1>1, <2>3, <2>4
  <2>7. u \o Append(v, r) = Append(u \o v, r)
    BY ONLY <2>6, r \in X
  <2>. QED  BY <1>2, <1>3, <2>3, <2>5, <2>7
<1>. QED  BY <1>4, <1>5

(* A sequence is moved into an empty place before it.                      *)
Moved(X, ss, tt, k) ==
  /\ Rows(X, ss, tt) /\ k \in 1 .. Len(ss) /\ k + 1 \in 1 .. Len(ss)
  /\ ss[k] = <<>> /\ tt[k] = ss[k + 1] /\ tt[k + 1] = <<>>
  /\ \A i \in 1 .. Len(ss) : i # k /\ i # k + 1 => tt[i] = ss[i]

LEMMA FlattenMove ==
  ASSUME NEW X, NEW ss, NEW tt, NEW k, Moved(X, ss, tt, k)
  PROVE  FlattenSeq(tt) = FlattenSeq(ss)
<1>. PICK n : n = Len(ss)
  OBVIOUS
<1>1. /\ n \in Nat \ {0} /\ n = Len(tt) /\ k \in 1 .. n /\ k + 1 \in 1 .. n
      /\ \A i \in 1 .. n : ss[i] \in Seq(X) /\ tt[i] \in Seq(X)
  <2>1. Rows(X, ss, tt) /\ k \in 1 .. n /\ k + 1 \in 1 .. n
    BY DEF Moved
  <2>. QED  BY ONLY <2>1, n = Len(ss) DEF Rows
<1>2. \A i \in 1 .. n : i # k /\ i # k + 1 => ss[i] \in Seq(X) /\ ss[i] = tt[i]
  BY <1>1 DEF Moved
<1>3. PICK g : Joins(g, ss, n) /\ FlattenSeq(ss) = g[n]
  BY <1>1, FlattenJoins
<1>4. PICK h : Joins(h, tt, n) /\ FlattenSeq(tt) = h[n]
  BY <1>1, FlattenJoins
<1>. PICK x : x = ss[k + 1]
  OBVIOUS
<1>5. /\ ss[k] = <<>> /\ tt[k] = x /\ tt[k + 1] = <<>>
      /\ x \in Seq(X) /\ ss[k + 1] = x
  BY <1>1 DEF Moved
<1>6. k + 1 # 1 /\ (k + 1) - 1 = k
  BY <1>1
<1>7. g[k + 1] = g[k] \o x /\ h[k + 1] = h[k] \o <<>>
  BY ONLY <1>1, <1>3, <1>4, <1>5, <1>6 DEF Joins
<1>8. g[k + 1] = h[k + 1] /\ h[k + 1] \in Seq(X)
  <2>1. CASE k = 1
    <3>1. g[k] = <<>> /\ h[k] = x
      BY ONLY <1>1, <1>3, <1>4, <1>5, <2>1 DEF Joins
    <3>. QED  BY ONLY <1>5, <1>7, <3>1, NothingJoined
  <2>2. CASE k # 1
    <3>1. k - 1 \in 1 .. n /\ \A i \in 1 .. k - 1 : i \in 1 .. n /\ i # k /\ i # k + 1
      BY ONLY <1>1, <2>2
    <3>2. SameBefore(X, n, k - 1, ss, tt, g, h)
      BY ONLY <1>1, <1>2, <1>3, <1>4, <3>1 DEF SameBefore
    <3>3. g[k - 1] = h[k - 1] /\ h[k - 1] \in Seq(X)
      BY ONLY <3>2, JoinsBefore
    <3>4. g[k] = g[k - 1] \o <<>> /\ h[k] = h[k - 1] \o x
      BY ONLY <1>1, <1>3, <1>4, <1>5, <2>2 DEF Joins
    <3>. PICK u : u = h[k - 1]
      OBVIOUS
    <3>5. u \in Seq(X) /\ u \o x \in Seq(X)
      BY ONLY <1>5, <3>3, u = h[k - 1]
    <3>6. u \o <<>> = u /\ (u \o x) \o <<>> = u \o x
      BY ONLY <3>5, NothingJoined
    <3>. QED  BY ONLY <1>7, <3>3, <3>4, <3>5, <3>6, u = h[k - 1]
  <2>. QED  BY <2>1, <2>2
<1>9. <<>> \in Seq(X) /\ g[k + 1] = <<>> \o h[k + 1]
  BY ONLY <1>8, NothingJoined
<1>10. \A i \in k + 1 + 1 .. n : ss[i] \in Seq(X) /\ ss[i] = tt[i]
  BY ONLY <1>1, <1>2
<1>11. SameBehind(X, n, k + 1, ss, tt, g, h, <<>>)
  BY ONLY <1>1, <1>3, <1>4, <1>8, <1>9, <1>10 DEF SameBehind
<1>12. g[n] = <<>> \o h[n] /\ h[n] \in Seq(X)
  BY ONLY <1>11, JoinsBehind
<1>13. g[n] = h[n]
  BY ONLY <1>12, NothingJoined
<1>. QED  BY <1>3, <1>4, <1>13

(* There is nothing in any of them.                                        *)
LEMMA FlattenNothing ==
  ASSUME NEW ss, Len(ss) \in Nat \ {0}, \A i \in 1 .. Len(ss) : ss[i] = <<>>
  PROVE  FlattenSeq(ss) = <<>>
<1>. PICK n : n = Len(ss)
  OBVIOUS
<1>1. n \in Nat \ {0} /\ \A i \in 1 .. n : ss[i] = <<>>
  OBVIOUS
<1>2. PICK g : Joins(g, ss, n) /\ FlattenSeq(ss) = g[n]
  BY <1>1, FlattenJoins
<1>. PICK h : h = [i \in 1 .. n |-> <<>>]
  OBVIOUS
<1>3. \A i \in 1 .. n : h[i] = <<>>
  OBVIOUS
<1>4. <<>> \in Seq({}) /\ <<>> = <<>> \o <<>>
  BY ONLY NothingJoined
<1>5. ASSUME NEW i \in 1 .. n PROVE h[i] = IF i = 1 THEN ss[i] ELSE h[i - 1] \o ss[i]
  <2>1. CASE i = 1
    BY <1>1, <1>3, <2>1
  <2>2. CASE i # 1
    <3>1. i - 1 \in 1 .. n
      BY <1>1, <2>2
    <3>. QED  BY <1>1, <1>3, <1>4, <2>2, <3>1
  <2>. QED  BY <2>1, <2>2
<1>6. Joins(h, ss, n)
  BY <1>5 DEF Joins
<1>7. 1 \in 1 .. n /\ n \in 1 .. n
  BY <1>1
<1>8. g[1] = <<>>
  BY <1>1, <1>2, <1>7 DEF Joins
<1>9. \A i \in 2 .. n : ss[i] \in Seq({}) /\ ss[i] = ss[i]
  <2>. SUFFICES ASSUME NEW i \in 2 .. n PROVE ss[i] \in Seq({})
    OBVIOUS
  <2>1. i \in 1 .. n
    BY <1>1
  <2>. QED  BY <1>1, <1>4, <2>1
<1>10. SameBehind({}, n, 1, ss, ss, g, h, <<>>)
  <2>1. h[1] = <<>> /\ g[1] = <<>> \o h[1] /\ h[1] \in Seq({})
    BY ONLY <1>3, <1>4, <1>7, <1>8
  <2>2. n \in Nat /\ 1 + 1 = 2
    BY ONLY <1>1
  <2>. QED
    BY ONLY <1>2, <1>4, <1>6, <1>7, <1>9, <2>1, <2>2, Zenon DEF SameBehind
<1>11. g[n] = <<>> \o h[n]
  BY ONLY <1>10, JoinsBehind
<1>. QED  BY <1>2, <1>3, <1>4, <1>7, <1>11

(* The files as a row of what stands behind their headers.                 *)
Behind(s) == IF s # Absent /\ s # <<>> THEN Tail(s) ELSE <<>>

Row(f) == [i \in 1 .. LastFile + 1 |-> Behind(f[LastFile + 1 - i])]

LEMMA BehindIs ==
  /\ Behind(Absent) = <<>> /\ Behind(<<>>) = <<>> /\ Behind(<<Header>>) = <<>>
  /\ \A s \in Seq(Entry) : Behind(s) \in Seq(Entry)
  /\ \A s \in Seq(Entry), e \in Entry :
       s # Absent /\ s # <<>> => Behind(Append(s, e)) = Append(Behind(s), e)
<1>1. Behind(Absent) = <<>> /\ Behind(<<>>) = <<>>
  BY DEF Behind
<1>2. Behind(<<Header>>) = <<>>
  <2>1. Tail(Append(<<>>, Header)) = <<>> /\ Append(<<>>, Header) = <<Header>>
    BY HeadTailAppend
  <2>. QED  BY <2>1 DEF Behind
<1>3. ASSUME NEW s \in Seq(Entry) PROVE Behind(s) \in Seq(Entry)
  <2>1. <<>> \in Seq(Entry) /\ (s # <<>> => Tail(s) \in Seq(Entry))
    BY HeadTailProperties
  <2>. QED  BY <2>1 DEF Behind
<1>4. ASSUME NEW s \in Seq(Entry), NEW e \in Entry, s # Absent, s # <<>>
      PROVE  Behind(Append(s, e)) = Append(Behind(s), e)
  <2>1. Append(s, e) # <<>> /\ Append(s, e) # Absent
    BY <1>4, Entries
  <2>2. Tail(Append(s, e)) = Append(Tail(s), e)
    BY <1>4, HeadTailAppend
  <2>. QED  BY <1>4, <2>1, <2>2 DEF Behind
<1>. QED  BY <1>1, <1>2, <1>3, <1>4

LEMMA KeptIs == Kept = FlattenSeq(Row(files)) /\ Kept' = FlattenSeq(Row(files'))
<1>1. \A n : Records(n) = Behind(files[n]) /\ Records(n)' = Behind(files'[n])
  BY DEF Records, Behind, Exists
<1>2. /\ [n \in 1 .. LastFile + 1 |-> Records(LastFile + 1 - n)] = Row(files)
      /\ [n \in 1 .. LastFile + 1 |-> Records(LastFile + 1 - n)]' = Row(files')
  BY <1>1 DEF Row
<1>. QED  BY <1>2 DEF Kept

LEMMA RowsOfFiles ==
  ASSUME NEW f \in [FileNumber -> Seq(Entry)],
         NEW g \in [FileNumber -> Seq(Entry)]
  PROVE  /\ Rows(Entry, Row(f), Row(g))
         /\ Len(Row(f)) = LastFile + 1
         /\ \A i \in 1 .. LastFile + 1 :
              LastFile + 1 - i \in FileNumber
              /\ Row(f)[i] = Behind(f[LastFile + 1 - i])
<1>1. LastFile \in Nat
  BY Numbers
<1>2. \A i \in 1 .. LastFile + 1 : LastFile + 1 - i \in FileNumber
  BY <1>1 DEF FileNumber
<1>3. ASSUME NEW h \in [FileNumber -> Seq(Entry)]
      PROVE  /\ Row(h) \in Seq(Seq(Entry)) /\ Len(Row(h)) = LastFile + 1
             /\ \A i \in 1 .. LastFile + 1 : Row(h)[i] = Behind(h[LastFile + 1 - i])
  <2>1. \A i \in 1 .. LastFile + 1 : Behind(h[LastFile + 1 - i]) \in Seq(Entry)
    BY <1>2, BehindIs
  <2>2. /\ Row(h) \in [1 .. LastFile + 1 -> Seq(Entry)]
        /\ \A i \in 1 .. LastFile + 1 : Row(h)[i] = Behind(h[LastFile + 1 - i])
    BY <2>1, Zenon DEF Row
  <2>3. LastFile + 1 \in Nat
    BY <1>1
  <2>4. Row(h) \in Seq(Seq(Entry)) /\ Len(Row(h)) = LastFile + 1
    BY ONLY <2>2, <2>3, SMTT(30)
  <2>. QED  BY <2>2, <2>4
<1>. QED  BY <1>1, <1>2, <1>3 DEF Rows

(* A step with the files adds a record, loses some of the oldest, or leaves *)
(* what is kept as it is.                                                  *)
KeptStep == Promise!Add \/ Promise!DropOldest \/ Kept' = Kept

LEMMA UnlinkKept ==
  ASSUME TypeOK, files' = [files EXCEPT ![LastFile] = Absent]
  PROVE  KeptStep
<1>. DEFINE ss == Row(files)
            tt == Row(files')
            q == ss[1]
            k == FlattenSeq(tt)
<1>1. files \in [FileNumber -> Seq(Entry)] /\ files' \in [FileNumber -> Seq(Entry)]
  BY Entries DEF TypeOK
<1>2. /\ Rows(Entry, ss, tt) /\ Len(ss) = LastFile + 1
      /\ \A i \in 1 .. Len(ss) :
           /\ LastFile + 1 - i \in FileNumber
           /\ ss[i] = Behind(files[LastFile + 1 - i])
           /\ tt[i] = Behind(files'[LastFile + 1 - i])
  BY <1>1, RowsOfFiles
<1>3. LastFile \in FileNumber /\ LastFile \in Nat
  BY Numbers DEF FileNumber
<1>4. tt[1] = <<>>
  <2>1. 1 \in 1 .. Len(ss) /\ LastFile + 1 - 1 = LastFile
    BY <1>2, <1>3
  <2>2. files'[LastFile] = Absent
    BY <1>3 DEF TypeOK
  <2>. QED  BY <1>2, <2>1, <2>2, BehindIs
<1>5. \A i \in 2 .. Len(ss) : tt[i] = ss[i]
  <2>. SUFFICES ASSUME NEW i \in 2 .. Len(ss) PROVE tt[i] = ss[i]
    OBVIOUS
  <2>1. i \in 1 .. Len(ss) /\ LastFile + 1 - i # LastFile
    BY <1>2, <1>3
  <2>2. LastFile + 1 - i \in FileNumber
    BY <1>2, <2>1
  <2>3. files'[LastFile + 1 - i] = files[LastFile + 1 - i]
    BY <2>1, <2>2 DEF TypeOK
  <2>. QED  BY <1>2, <2>1, <2>3
<1>6. q \in Seq(Entry)
  BY <1>2, <1>3 DEF Rows
<1>. HIDE DEF ss, tt
<1>7. FlattenSeq(ss) = q \o k /\ k \in Seq(Entry)
  BY <1>2, <1>4, <1>5, FlattenDrop
<1>8. Kept = q \o k /\ Kept' = k
  BY <1>7, KeptIs DEF ss, tt
<1>. HIDE DEF q, k
<1>9. CASE q = <<>>
  BY <1>7, <1>8, <1>9, NothingJoined DEF KeptStep
<1>10. CASE q # <<>>
  <2>1. Len(q) \in 1 .. Len(Kept) /\ Len(Kept) = Len(q) + Len(k) /\ Len(k) \in Nat
    BY <1>6, <1>7, <1>8, <1>10
  <2>2. CASE k = <<>>
    <3>1. SubSeq(Kept, Len(q) + 1, Len(Kept)) = <<>>
      BY <2>1, <2>2, SubSeqEmpty
    <3>. QED  BY <1>8, <2>1, <2>2, <3>1 DEF KeptStep, Promise!DropOldest
  <2>3. CASE k # <<>>
    <3>1. /\ Len(q) + 1 \in Len(q) + 1 .. Len(q) + Len(k)
          /\ Len(Kept) \in Len(q) + 1 .. Len(q) + Len(k)
          /\ Len(q) + 1 - Len(q) = 1 /\ Len(Kept) - Len(q) = Len(k)
      BY <1>7, <2>1, <2>3
    <3>2. SubSeq(Kept, Len(q) + 1, Len(Kept)) = SubSeq(k, 1, Len(k))
      BY <1>6, <1>7, <1>8, <3>1, SubSeqOfConcat2
    <3>3. SubSeq(k, 1, Len(k)) = k
      BY <1>7, SubSeqFull
    <3>. QED  BY <1>8, <2>1, <3>2, <3>3 DEF KeptStep, Promise!DropOldest
  <2>. QED  BY <2>2, <2>3
<1>. QED  BY <1>9, <1>10

LEMMA MoveKept ==
  ASSUME TypeOK, NEW n \in FileNumber, n + 1 \in FileNumber, ~ Exists(n + 1),
         files' = [files EXCEPT ![n + 1] = files[n], ![n] = Absent]
  PROVE  Kept' = Kept
<1>. DEFINE ss == Row(files)
            tt == Row(files')
            k == LastFile - n
<1>1. files \in [FileNumber -> Seq(Entry)] /\ files' \in [FileNumber -> Seq(Entry)]
  BY Entries DEF TypeOK
<1>2. /\ Rows(Entry, ss, tt) /\ Len(ss) = LastFile + 1
      /\ \A i \in 1 .. Len(ss) :
           /\ LastFile + 1 - i \in FileNumber
           /\ ss[i] = Behind(files[LastFile + 1 - i])
           /\ tt[i] = Behind(files'[LastFile + 1 - i])
  BY <1>1, RowsOfFiles
<1>3. LastFile \in Nat /\ n \in 0 .. LastFile /\ n + 1 \in 0 .. LastFile
  BY Numbers DEF FileNumber
<1>4. /\ k \in 1 .. Len(ss) /\ k + 1 \in 1 .. Len(ss)
      /\ LastFile + 1 - k = n + 1 /\ LastFile + 1 - (k + 1) = n
  BY <1>2, <1>3
<1>5. /\ files'[n + 1] = files[n] /\ files'[n] = Absent /\ files[n + 1] = Absent
      /\ \A m \in FileNumber : m # n /\ m # n + 1 => files'[m] = files[m]
  BY <1>1, <1>3 DEF Exists
<1>6. ss[k] = <<>> /\ tt[k] = ss[k + 1] /\ tt[k + 1] = <<>>
  <2>1. /\ ss[k] = Behind(files[n + 1]) /\ ss[k + 1] = Behind(files[n])
        /\ tt[k] = Behind(files'[n + 1]) /\ tt[k + 1] = Behind(files'[n])
    <3>. HIDE DEF ss, tt, k
    <3>. QED  BY ONLY <1>2, <1>4
  <2>. QED  BY ONLY <1>5, <2>1, BehindIs
<1>7. ASSUME NEW i \in 1 .. Len(ss), i # k, i # k + 1 PROVE tt[i] = ss[i]
  <2>. HIDE DEF ss, tt
  <2>1. LastFile + 1 - i # n /\ LastFile + 1 - i # n + 1
    <3>. PICK m : m = Len(ss)
      OBVIOUS
    <3>. QED  BY ONLY <1>2, <1>3, <1>7, i \in 1 .. m, m = Len(ss)
  <2>. QED  BY <1>2, <1>5, <2>1
<1>. HIDE DEF ss, tt, k
<1>8. Moved(Entry, ss, tt, k)
  BY ONLY <1>2, <1>4, <1>6, <1>7 DEF Moved
<1>9. FlattenSeq(tt) = FlattenSeq(ss)
  BY ONLY <1>8, FlattenMove
<1>. QED  BY <1>9, KeptIs DEF ss, tt

LEMMA CreateKept ==
  ASSUME TypeOK, ~ Exists(0), files' = [files EXCEPT ![0] = <<>>]
  PROVE  Kept' = Kept
<1>1. files \in [FileNumber -> Seq(Entry)] /\ files' \in [FileNumber -> Seq(Entry)]
  BY Numbers DEF TypeOK
<1>2. \A m \in FileNumber : Behind(files'[m]) = Behind(files[m])
  BY <1>1, BehindIs DEF Exists
<1>3. \A i \in 1 .. LastFile + 1 : LastFile + 1 - i \in FileNumber
  BY <1>1, RowsOfFiles
<1>4. Row(files') = Row(files)
  BY <1>2, <1>3 DEF Row
<1>. QED  BY <1>4, KeptIs

LEMMA HeaderKept ==
  ASSUME TypeOK, files[0] = <<>>, files' = [files EXCEPT ![0] = Append(@, Header)]
  PROVE  Kept' = Kept
<1>1. files \in [FileNumber -> Seq(Entry)] /\ files' \in [FileNumber -> Seq(Entry)]
  BY Numbers, Entries DEF TypeOK
<1>2. files'[0] = <<Header>>
  <2>1. files'[0] = Append(<<>>, Header)
    BY <1>1, Numbers
  <2>. QED  BY <2>1
<1>3. \A m \in FileNumber : Behind(files'[m]) = Behind(files[m])
  BY <1>1, <1>2, BehindIs
<1>4. \A i \in 1 .. LastFile + 1 : LastFile + 1 - i \in FileNumber
  BY <1>1, RowsOfFiles
<1>5. Row(files') = Row(files)
  BY <1>3, <1>4 DEF Row
<1>. QED  BY <1>5, KeptIs

LEMMA RecordKept ==
  ASSUME TypeOK, Exists(0), files[0] # <<>>, NEW e \in Entry,
         files' = [files EXCEPT ![0] = Append(@, e)]
  PROVE  Kept' = Append(Kept, e)
<1>. DEFINE ss == Row(files)
            tt == Row(files')
<1>1. files \in [FileNumber -> Seq(Entry)] /\ files' \in [FileNumber -> Seq(Entry)]
  BY Numbers DEF TypeOK
<1>2. /\ Rows(Entry, ss, tt) /\ Len(ss) = LastFile + 1
      /\ \A i \in 1 .. Len(ss) :
           /\ LastFile + 1 - i \in FileNumber
           /\ ss[i] = Behind(files[LastFile + 1 - i])
           /\ tt[i] = Behind(files'[LastFile + 1 - i])
  BY <1>1, RowsOfFiles
<1>3. LastFile \in Nat /\ 0 \in FileNumber
  BY Numbers
<1>4. /\ files'[0] = Append(files[0], e)
      /\ \A m \in FileNumber : m # 0 => files'[m] = files[m]
  BY <1>1, <1>3
<1>5. Behind(files'[0]) = Append(Behind(files[0]), e)
  BY <1>1, <1>3, <1>4, BehindIs DEF Exists
<1>. HIDE DEF ss, tt
<1>6. tt[Len(ss)] = Append(ss[Len(ss)], e)
  <2>1. Len(ss) \in 1 .. Len(ss) /\ LastFile + 1 - Len(ss) = 0
    BY ONLY <1>2, <1>3
  <2>. QED  BY ONLY <1>2, <1>5, <2>1
<1>7. ASSUME NEW i \in 1 .. Len(ss) - 1 PROVE tt[i] = ss[i]
  <2>1. i \in 1 .. Len(ss) /\ LastFile + 1 - i # 0
    BY ONLY <1>2, <1>3, i \in 1 .. Len(ss) - 1
  <2>. QED  BY ONLY <1>2, <1>4, <2>1
<1>8. FlattenSeq(tt) = Append(FlattenSeq(ss), e)
  <2>1. \A i \in 1 .. Len(ss) - 1 : tt[i] = ss[i]
    BY <1>7
  <2>. QED  BY ONLY <1>2, <1>6, <2>1, e \in Entry, FlattenAppend
<1>. QED  BY <1>8, KeptIs DEF ss, tt

(* A thread has never more records under way than it writes.               *)
Limited == \A t \in Threads : sent[t] <= MaxRecords[t]

LEMMA FilesKept ==
  ASSUME TypeOK, OneWriter, Limited, NEW t \in Threads, NEW p \in Processes,
         FilesStep(t, p)
  PROVE  KeptStep
<1>1. CASE files' = files
  BY <1>1, KeptIs DEF KeptStep
<1>2. CASE files' = [files EXCEPT ![LastFile] = Absent]
  BY <1>2, UnlinkKept
<1>3. CASE \E n \in FileNumber :
             /\ n + 1 \in FileNumber /\ ~InUse(n) /\ ~Exists(n + 1)
             /\ files' = [files EXCEPT ![n + 1] = files[n], ![n] = Absent]
  BY <1>3, MoveKept DEF KeptStep
<1>4. CASE ~Exists(0) /\ files' = [files EXCEPT ![0] = <<>>]
  BY <1>4, CreateKept DEF KeptStep
<1>5. CASE files[0] = <<>> /\ files' = [files EXCEPT ![0] = Append(@, Header)]
  BY <1>5, HeaderKept DEF KeptStep
<1>6. CASE /\ handle[p] /\ files[0] # <<>> /\ sent[t] > 0
           /\ files' = [files EXCEPT ![0] = Append(@, <<t, sent[t]>>)]
  <2>1. Exists(0) /\ <<t, sent[t]>> \in Entry
    BY <1>6 DEF OneWriter, TypeOK, Entry
  <2>2. Kept' = Append(Kept, <<t, sent[t]>>)
    BY <1>6, <2>1, RecordKept
  <2>3. sent[t] \in 1 .. MaxRecords[t]
    BY <1>6, RollingFileConstants DEF Limited, TypeOK
  <2>4. <<t, sent[t]>> \in Record
    BY <2>3 DEF Record
  <2>. QED  BY <2>2, <2>4 DEF KeptStep, Promise!Add
<1>. QED  BY <1>1, <1>2, <1>3, <1>4, <1>5, <1>6 DEF FilesStep

LEMMA NextKept ==
  ASSUME LogInv, Limited, [Next]_vars
  PROVE  [Promise!Add \/ Promise!DropOldest]_Kept
<1>1. ASSUME files' = files PROVE KeptStep
  BY <1>1, KeptIs DEF KeptStep
<1>2. ASSUME NEW t \in Threads, Step(t) PROVE KeptStep
  <2>1. Process[t] \in Processes
    BY RollingFileConstants
  <2>2. FilesStep(t, Process[t])
    BY <1>2, StepFiles DEF LogInv, LogFilesRight
  <2>. QED  BY <2>1, <2>2, FilesKept DEF LogInv, LogFilesRight
<1>3. files' = files \/ \E t \in Threads : Step(t)
  BY DEF Next, Log, fplogInit, Crash, View, LookAway, vars, disk
<1>. QED  BY <1>1, <1>2, <1>3 DEF KeptStep

LEMMA NextLimited ==
  ASSUME TypeOK, Limited, [Next]_vars
  PROVE  Limited'
<1>1. UNCHANGED sent \/ \E t \in Threads : Log(t)
  BY DEF Next, Step, Enter, Close, Unlink, Rename, Open, WriteHeader, Write,
         fplogInit, Crash, View, LookAway, vars
<1>2. ASSUME NEW t \in Threads, Log(t) PROVE Limited'
  <2>1. sent[t] < MaxRecords[t] /\ sent' = [sent EXCEPT ![t] = @ + 1]
    BY <1>2 DEF Log
  <2>2. sent \in [Threads -> Nat] /\ MaxRecords \in [Threads -> Nat]
    BY RollingFileConstants DEF TypeOK
  <2>3. \A s \in Threads : sent'[s] = IF s = t THEN sent[t] + 1 ELSE sent[s]
    BY <2>1, <2>2
  <2>4. sent[t] + 1 <= MaxRecords[t]
    BY <2>1, <2>2
  <2>. QED  BY <2>3, <2>4 DEF Limited
<1>. QED  BY <1>1, <1>2 DEF Limited

LEMMA InitKept == Init => Limited /\ Promise!Init
<1>. SUFFICES ASSUME Init PROVE Limited /\ Promise!Init
  OBVIOUS
<1>1. Limited
  BY RollingFileConstants DEF Init, Limited
<1>2. files \in [FileNumber -> Seq(Entry)] /\ \A n \in FileNumber : files[n] = Absent
  BY Entries DEF Init
<1>3. Len(Row(files)) = LastFile + 1 /\ LastFile \in Nat
      /\ \A i \in 1 .. LastFile + 1 : Row(files)[i] = <<>>
  BY <1>2, RowsOfFiles, Numbers, BehindIs
<1>4. FlattenSeq(Row(files)) = <<>>
  BY <1>3, FlattenNothing
<1>. QED  BY <1>1, <1>4, KeptIs DEF Promise!Init

(* The files, read from the oldest backup to the log, hold the records in  *)
(* the order in which they were written, less some of the oldest, whatever *)
(* is open elsewhere, whichever renames fail and wherever a process is     *)
(* ended: RollingFile implements RollingLog                                *)
(* (RollingFileAppender.h:55-72).                                          *)
THEOREM LogRolls == Spec => OnlyOldestLost
<1>1. Init => LogInv /\ Limited /\ Promise!Init
  BY InitLogInv, InitKept
<1>2. LogInv /\ Limited /\ [Next]_vars => LogInv' /\ Limited'
  BY NextLogInv, NextLimited DEF LogInv
<1>3. LogInv /\ Limited /\ [Next]_vars => [Promise!Add \/ Promise!DropOldest]_Kept
  BY NextKept
<1>. QED  BY <1>1, <1>2, <1>3, PTL DEF Spec, OnlyOldestLost, Promise!Spec

----------------------------------------------------------------------------
(* The traced file.                                                        *)

Callers == Trace!Callers

Unit == Callers \X Nat \X Nat

Steps(c) ==
  {"idle", "close"} \cup
  (IF c \in Tracers THEN {"seek", "append"} ELSE {}) \cup
  (IF c \in Writers THEN {"write"} ELSE {}) \cup
  (IF c \in Readers THEN {"size", "read"} ELSE {})

TraceType ==
  /\ file \in Seq(Unit)
  /\ tracePc \in [Callers -> UNION {Steps(c) : c \in Callers}]
  /\ \A c \in Callers : tracePc[c] \in Steps(c)
  /\ traceCalls \in [Callers -> Nat]
  /\ position \in [Callers -> Nat]
  /\ DOMAIN traceResult = Readers
  /\ lone \subseteq Tracers \X Nat

(* Those who have the file open together are of one kind, and no writers.  *)
OpenTogether ==
  \A c, d \in Callers :
    c # d /\ tracePc[c] # "idle" /\ tracePc[d] # "idle" =>
      {c, d} \subseteq Tracers \/ {c, d} \subseteq Readers

(* The text of x stands in the file behind i, and who has gone to the end  *)
(* is behind it.                                                           *)
StandsAt(x, i) ==
  /\ i + Trace!Handed(x[1]) <= Len(file)
  /\ \A k \in 1 .. Trace!Handed(x[1]) : file[i + k] = <<x[1], x[2], k>>
  /\ \A c \in Tracers : tracePc[c] = "append" => i + Trace!Handed(x[1]) <= position[c]

TracersInv ==
  /\ \A c \in Tracers : tracePc[c] = "append" => position[c] <= Len(file)
  /\ \A x \in lone : \E i \in Nat : StandsAt(x, i)

(* What a writer has written is the beginning of its text and all there is.*)
WritersInv ==
  \A c \in Writers :
    /\ tracePc[c] # "idle" => lone = {}
    /\ tracePc[c] = "write" =>
         /\ position[c] <= Length[c]
         /\ file = SubSeq(Trace!Text(c, traceCalls[c]), 1, position[c])
    /\ tracePc[c] = "close" => file = Trace!Text(c, traceCalls[c])

ReadersInv ==
  \A c \in Readers :
    /\ tracePc[c] = "read" => position[c] = Len(file)
    /\ tracePc[c] = "close" => traceResult[c] \in {file, Trace!Failed}

TraceInv == TraceType /\ OpenTogether /\ TracersInv /\ WritersInv /\ ReadersInv


LEMMA Part ==
  ASSUME NEW S, NEW s \in Seq(S), NEW m \in Nat, NEW n \in Nat, m + n <= Len(s)
  PROVE  /\ SubSeq(s, m + 1, m + n) \in Seq(S)
         /\ Len(SubSeq(s, m + 1, m + n)) = n
         /\ \A k \in 1 .. n : SubSeq(s, m + 1, m + n)[k] = s[m + k]
<1>1. /\ Len(s) \in Nat /\ DOMAIN s = 1 .. Len(s)
      /\ \A k \in 1 .. n : m + k \in 1 .. Len(s) /\ m + 1 + k - 1 = m + k
      /\ m + n - (m + 1) + 1 = n
  OBVIOUS
<1>. QED  BY <1>1, SubSeqProperties

LEMMA Beginning ==
  ASSUME NEW S, NEW s \in Seq(S), NEW n \in Nat, n <= Len(s)
  PROVE  /\ SubSeq(s, 1, n) \in Seq(S)
         /\ Len(SubSeq(s, 1, n)) = n
         /\ \A k \in 1 .. n : SubSeq(s, 1, n)[k] = s[k]
<1>1. 0 + 1 = 1 /\ 0 + n = n /\ \A k \in 1 .. n : 0 + k = k
  OBVIOUS
<1>2. /\ SubSeq(s, 0 + 1, 0 + n) \in Seq(S)
      /\ Len(SubSeq(s, 0 + 1, 0 + n)) = n
      /\ \A k \in 1 .. n : SubSeq(s, 0 + 1, 0 + n)[k] = s[0 + k]
  BY Part
<1>. QED  BY <1>1, <1>2

LEMMA HoldsAt ==
  ASSUME file \in Seq(Unit), NEW t \in Seq(Unit), NEW i \in Nat,
         i + Len(t) <= Len(file), \A k \in 1 .. Len(t) : file[i + k] = t[k]
  PROVE  Trace!Holds(t)
<1>1. Len(file) \in Nat /\ Len(t) \in Nat
  OBVIOUS
<1>2. /\ SubSeq(file, i + 1, i + Len(t)) \in Seq(Unit)
      /\ Len(SubSeq(file, i + 1, i + Len(t))) = Len(t)
      /\ \A k \in 1 .. Len(t) : SubSeq(file, i + 1, i + Len(t))[k] = file[i + k]
  BY <1>1, Part
<1>3. SubSeq(file, i + 1, i + Len(t)) = t
  BY <1>1, <1>2, SeqEqual
<1>4. i \in 0 .. Len(file) - Len(t)
  BY <1>1
<1>. QED  BY <1>3, <1>4 DEF Trace!Holds

LEMMA Kinds ==
  /\ \A c \in Tracers : c \in Callers /\ c \notin Writers /\ c \notin Readers
                         /\ Length[c] \in Nat
                         /\ Trace!Handed(c) \in Nat /\ Trace!Handed(c) <= Length[c]
  /\ \A c \in Writers : c \in Callers /\ c \notin Tracers /\ c \notin Readers
                         /\ Length[c] \in Nat
  /\ \A c \in Readers : c \in Callers /\ c \notin Tracers /\ c \notin Writers
<1>1. ASSUME NEW n \in Nat
      PROVE  n \div CharSize \in Nat /\ n \div CharSize <= n
  <2>1. CharSize = 1 \/ CharSize = 2
    BY SharingConstants DEF Trace!TraceFileConstants
  <2>. QED  BY <2>1
<1>2. \A c \in Tracers \cup Writers : Length[c] \in Nat
  BY SharingConstants DEF Trace!TraceFileConstants
<1>3. \A c \in Tracers : Trace!Handed(c) \in Nat /\ Trace!Handed(c) <= Length[c]
  BY <1>1, <1>2 DEF Trace!Handed
<1>. QED
  BY <1>2, <1>3, SharingConstants DEF Trace!TraceFileConstants, Callers, Trace!Callers

(* Between opening and closing each kind is at a step of its own.          *)
LEMMA KindSteps ==
  ASSUME TraceType
  PROVE  /\ \A c \in Tracers : tracePc[c] \in {"idle", "seek", "append", "close"}
         /\ \A c \in Writers : tracePc[c] \in {"idle", "write", "close"}
         /\ \A c \in Readers : tracePc[c] \in {"idle", "size", "read", "close"}
BY Kinds DEF TraceType, Steps

LEMMA UnitsType ==
  ASSUME NEW c \in Callers, NEW n \in Nat, NEW m \in Nat
  PROVE  /\ [k \in 1 .. m |-> <<c, n, k>>] \in Seq(Unit)
         /\ Len([k \in 1 .. m |-> <<c, n, k>>]) = m
         /\ \A k \in 1 .. m : [j \in 1 .. m |-> <<c, n, j>>][k] = <<c, n, k>>
BY DEF Unit

LEMMA TextType ==
  ASSUME NEW c \in Tracers \cup Writers, NEW n \in Nat
  PROVE  /\ Trace!Text(c, n) \in Seq(Unit)
         /\ Len(Trace!Text(c, n)) = Length[c]
         /\ \A k \in 1 .. Length[c] : Trace!Text(c, n)[k] = <<c, n, k>>
BY Kinds DEF Trace!Text, Unit

(* What each lets the others do to the file.                               *)
LEMMA MayOpenTogether ==
  ASSUME NEW c \in Callers, Trace!MayOpen(c),
         NEW d \in Callers \ {c}, tracePc[d] # "idle"
  PROVE  {c, d} \subseteq Tracers \/ {c, d} \subseteq Readers
<1>1. Trace!Access(c) \subseteq Trace!Shares(d)
      /\ Trace!Access(d) \subseteq Trace!Shares(c)
  BY DEF Trace!MayOpen, Trace!HasOpen, Callers
<1>2. CASE c \in Tracers
  <2>1. "write" \in Trace!Access(c)
    BY <1>2 DEF Trace!Access
  <2>. QED  BY <1>1, <1>2, <2>1 DEF Trace!Shares
<1>3. CASE c \in Writers
  <2>1. Trace!Shares(c) = {} /\ Trace!Access(d) # {}
    BY <1>3, Kinds DEF Trace!Shares, Trace!Access
  <2>. QED  BY <1>1, <2>1
<1>4. CASE c \in Readers
  <2>1. Trace!Shares(c) = {"read"}
    BY <1>4, Kinds DEF Trace!Shares
  <2>2. "write" \notin Trace!Access(d)
    BY <1>1, <2>1
  <2>3. d \notin Tracers /\ d \notin Writers
    BY <2>2 DEF Trace!Access
  <2>. QED  BY <1>4, <2>3 DEF Callers, Trace!Callers
<1>. QED  BY <1>2, <1>3, <1>4 DEF Callers, Trace!Callers

LEMMA OpenedTogether ==
  ASSUME OpenTogether, NEW c \in Callers, Trace!MayOpen(c),
         \A d \in Callers \ {c} : tracePc'[d] = tracePc[d]
  PROVE  OpenTogether'
<1>. SUFFICES ASSUME NEW a \in Callers, NEW b \in Callers, a # b,
                     tracePc'[a] # "idle", tracePc'[b] # "idle"
              PROVE  {a, b} \subseteq Tracers \/ {a, b} \subseteq Readers
  BY DEF OpenTogether, Callers, Trace!Callers
<1>1. CASE a = c
  <2>1. {c, b} \subseteq Tracers \/ {c, b} \subseteq Readers
    BY <1>1, MayOpenTogether
  <2>. QED  BY <1>1, <2>1
<1>2. CASE b = c
  <2>1. {c, a} \subseteq Tracers \/ {c, a} \subseteq Readers
    BY <1>2, MayOpenTogether
  <2>. QED  BY <1>2, <2>1
<1>3. CASE a # c /\ b # c
  BY <1>3 DEF OpenTogether
<1>. QED  BY <1>1, <1>2, <1>3

LEMMA StillTogether ==
  ASSUME OpenTogether,
         \A d \in Callers : tracePc'[d] # "idle" => tracePc[d] # "idle"
  PROVE  OpenTogether'
BY DEF OpenTogether, Callers, Trace!Callers

(* Where the caller that moves has not reached the file, or has left it.   *)
LEMMA Elsewhere ==
  ASSUME TraceType, TracersInv, WritersInv, ReadersInv, NEW c \in Callers,
         UNCHANGED <<file, lone, position>>,
         tracePc'[c] \in {"idle", "seek", "size"},
         tracePc'[c] # "idle" => c \notin Writers,
         \A d \in Callers \ {c} :
           tracePc'[d] = tracePc[d] /\ traceCalls'[d] = traceCalls[d],
         \A d \in Readers \ {c} : traceResult'[d] = traceResult[d]
  PROVE  TracersInv' /\ WritersInv' /\ ReadersInv'
<1>1. TracersInv'
  <2>1. \A d \in Tracers : tracePc'[d] = "append" => tracePc[d] = "append"
    BY Kinds
  <2>2. ASSUME NEW x \in lone PROVE \E i \in Nat : StandsAt(x, i)'
    <3>1. PICK i \in Nat : StandsAt(x, i)
      BY DEF TracersInv
    <3>. QED  BY <2>1, <3>1 DEF StandsAt
  <2>. QED  BY <2>1, <2>2 DEF TracersInv
<1>2. WritersInv'
  BY Kinds DEF WritersInv, Trace!Text
<1>3. ReadersInv'
  BY Kinds DEF ReadersInv, Trace!Failed
<1>. QED  BY <1>1, <1>2, <1>3

(* A text written at a place of the file, over what stands there.          *)
LEMMA Overwriting ==
  ASSUME file \in Seq(Unit), NEW p \in Nat, p <= Len(file), NEW t \in Seq(Unit)
  PROVE  LET f == Trace!Overwritten(p, t)
         IN  /\ f \in Seq(Unit)
             /\ Len(f) >= Len(file) /\ Len(f) >= p + Len(t)
             /\ \A k \in 1 .. p : f[k] = file[k]
             /\ \A k \in 1 .. Len(t) : f[p + k] = t[k]
<1>. DEFINE f == Trace!Overwritten(p, t)
            a == SubSeq(file, 1, p)
            b == SubSeq(file, p + Len(t) + 1, Len(file))
            c == a \o t
<1>1. Len(file) \in Nat /\ Len(t) \in Nat /\ f = c \o b
  BY DEF Trace!Overwritten
<1>2. a \in Seq(Unit) /\ Len(a) = p /\ \A k \in 1 .. p : a[k] = file[k]
  BY <1>1
<1>3. /\ b \in Seq(Unit)
      /\ Len(b) = IF p + Len(t) <= Len(file) THEN Len(file) - (p + Len(t)) ELSE 0
  BY <1>1
<1>. HIDE DEF a, b
<1>4. /\ c \in Seq(Unit) /\ Len(c) = p + Len(t)
      /\ \A k \in 1 .. p + Len(t) : c[k] = IF k <= p THEN a[k] ELSE t[k - p]
  BY <1>2, ConcatProperties
<1>. HIDE DEF c, f
<1>5. /\ f \in Seq(Unit) /\ Len(f) = Len(c) + Len(b)
      /\ \A k \in 1 .. Len(c) + Len(b) :
           f[k] = IF k <= Len(c) THEN c[k] ELSE b[k - Len(c)]
  BY <1>1, <1>3, <1>4, ConcatProperties
<1>6. \A k \in 1 .. p + Len(t) : f[k] = c[k]
  BY <1>1, <1>3, <1>4, <1>5
<1>7. \A k \in 1 .. p : f[k] = file[k]
  BY <1>1, <1>2, <1>4, <1>6
<1>8. ASSUME NEW k \in 1 .. Len(t) PROVE f[p + k] = t[k]
  <2>1. p + k \in 1 .. p + Len(t) /\ ~ (p + k <= p) /\ p + k - p = k
    BY <1>1
  <2>. QED  BY <1>4, <1>6, <2>1
<1>9. Len(f) >= Len(file) /\ Len(f) >= p + Len(t)
  <2>1. Len(f) = p + Len(t) + Len(b)
    BY <1>4, <1>5
  <2>2. Len(b) >= 0 /\ Len(b) >= Len(file) - (p + Len(t))
    <3>. DEFINE n == p + Len(t)
    <3>1. n \in Nat
      BY <1>1
    <3>. HIDE DEF n
    <3>. QED  BY <1>1, <1>3, <3>1 DEF n
  <2>. QED  BY <1>1, <2>1, <2>2
<1>. QED  BY <1>5, <1>7, <1>8, <1>9 DEF f


LEMMA GotoType ==
  ASSUME TraceType, NEW c \in Callers, NEW t \in Steps(c), Trace!Goto(c, t)
  PROVE  /\ tracePc' \in [Callers -> UNION {Steps(d) : d \in Callers}]
         /\ \A d \in Callers : tracePc'[d] \in Steps(d)
         /\ tracePc'[c] = t
         /\ \A d \in Callers \ {c} : tracePc'[d] = tracePc[d]
BY DEF TraceType, Trace!Goto

LEMMA BeginType ==
  ASSUME TraceType, NEW c \in Callers, Trace!Begin(c)
  PROVE  /\ traceCalls' \in [Callers -> Nat] /\ tracePc[c] = "idle"
         /\ \A d \in Callers \ {c} : traceCalls'[d] = traceCalls[d]
BY SMTT(30) DEF TraceType, Trace!Begin

LEMMA StepElsewhere ==
  ASSUME TraceInv, NEW c \in Callers,
         \/ Trace!Refused(c)
         \/ Trace!Close(c)
         \/ c \in Tracers /\ Trace!OpenAlways(c)
         \/ c \in Readers /\ Trace!OpenExisting(c)
  PROVE  TraceInv'
<1>. USE DEF TraceInv
<1>1. CASE Trace!Refused(c)
  <2>1. /\ UNCHANGED <<file, tracePc, position, lone>> /\ Trace!Begin(c)
        /\ traceResult' = IF c \in Readers
                          THEN [traceResult EXCEPT ![c] = Trace!Failed]
                          ELSE traceResult
    BY <1>1 DEF Trace!Refused
  <2>2. TraceType'
    BY <2>1, BeginType DEF TraceType, Callers, Trace!Callers, Steps
  <2>3. TracersInv' /\ WritersInv' /\ ReadersInv'
    <3>1. \A d \in Readers \ {c} : traceResult'[d] = traceResult[d]
      BY <2>1 DEF TraceType
    <3>. QED  BY <2>1, <3>1, BeginType, Elsewhere
  <2>. QED  BY <2>1, <2>2, <2>3, StillTogether
<1>2. CASE Trace!Close(c)
  <2>1. /\ UNCHANGED <<file, traceCalls, position, traceResult, lone>>
        /\ tracePc[c] = "close" /\ Trace!Goto(c, "idle") /\ "idle" \in Steps(c)
    BY <1>2 DEF Trace!Close, Steps
  <2>2. TraceType'
    BY <2>1, GotoType DEF TraceType, Callers, Trace!Callers, Steps
  <2>3. TracersInv' /\ WritersInv' /\ ReadersInv'
    BY <2>1, GotoType, Elsewhere
  <2>. QED  BY <2>1, <2>2, <2>3, GotoType, StillTogether
<1>3. ASSUME NEW t \in {"seek", "size"}, t \in Steps(c), c \notin Writers,
             Trace!Begin(c), Trace!MayOpen(c), Trace!Goto(c, t),
             UNCHANGED <<file, position, traceResult, lone>>
      PROVE  TraceInv'
  <2>1. TraceType'
    BY <1>3, BeginType, GotoType DEF TraceType, Callers, Trace!Callers, Steps
  <2>2. TracersInv' /\ WritersInv' /\ ReadersInv'
    BY <1>3, BeginType, GotoType, Elsewhere
  <2>. QED  BY <1>3, <2>1, <2>2, GotoType, OpenedTogether
<1>4. CASE c \in Tracers /\ Trace!OpenAlways(c)
  BY <1>3, <1>4, Kinds DEF Trace!OpenAlways, Steps
<1>5. CASE c \in Readers /\ Trace!OpenExisting(c)
  BY <1>3, <1>5, Kinds DEF Trace!OpenExisting, Steps
<1>. QED  BY <1>1, <1>2, <1>4, <1>5

LEMMA StepSeekEnd ==
  ASSUME TraceInv, NEW c \in Tracers, Trace!SeekEnd(c)
  PROVE  TraceInv'
<1>. USE DEF TraceInv
<1>1. /\ c \in Callers /\ "append" \in Steps(c) /\ tracePc[c] = "seek"
      /\ Trace!Goto(c, "append")
      /\ position' = [position EXCEPT ![c] = Len(file)]
      /\ UNCHANGED <<file, traceCalls, traceResult, lone>>
  BY Kinds DEF Trace!SeekEnd, Steps
<1>2. /\ position' \in [Callers -> Nat] /\ position'[c] = Len(file)
      /\ \A d \in Callers \ {c} : position'[d] = position[d]
      /\ Len(file) \in Nat
  BY <1>1 DEF TraceType
<1>3. TraceType'
  BY <1>1, <1>2, GotoType DEF TraceType, Callers, Trace!Callers, Steps
<1>4. TracersInv'
  <2>1. ASSUME NEW x \in lone PROVE \E i \in Nat : StandsAt(x, i)'
    <3>1. PICK i \in Nat : StandsAt(x, i)
      BY DEF TracersInv
    <3>2. ASSUME NEW d \in Tracers, tracePc'[d] = "append"
          PROVE  i + Trace!Handed(x[1]) <= position'[d]
      BY <1>1, <1>2, <3>1, <3>2, Kinds, GotoType DEF StandsAt
    <3>. QED  BY <1>1, <3>1, <3>2 DEF StandsAt
  <2>2. ASSUME NEW d \in Tracers, tracePc'[d] = "append"
        PROVE  position'[d] <= Len(file)
    BY <1>1, <1>2, <2>2, Kinds, GotoType DEF TracersInv
  <2>. QED  BY <1>1, <2>1, <2>2 DEF TracersInv
<1>5. WritersInv'
  <2>1. \A d \in Writers :
          tracePc'[d] = tracePc[d] /\ position'[d] = position[d]
    BY <1>1, <1>2, Kinds, GotoType
  <2>. QED  BY <1>1, <2>1 DEF WritersInv
<1>6. ReadersInv'
  BY <1>1, <1>2, Kinds, GotoType DEF ReadersInv, Trace!Failed
<1>. QED  BY <1>1, <1>3, <1>4, <1>5, <1>6, GotoType, StillTogether

LEMMA StepAppendText ==
  ASSUME TraceInv, NEW c \in Tracers, Trace!AppendText(c)
  PROVE  TraceInv'
<1>. USE DEF TraceInv
<1>. PICK n, p : n = traceCalls[c] /\ p = position[c]
  OBVIOUS
<1>. DEFINE t == [k \in 1 .. Trace!Handed(c) |-> <<c, n, k>>]
<1>1. /\ c \in Callers /\ "close" \in Steps(c) /\ tracePc[c] = "append"
      /\ Trace!Goto(c, "close")
      /\ file' = IF full THEN file ELSE Trace!Overwritten(p, t)
      /\ lone' = IF full \/ \E d \in Tracers \ {c} : tracePc[d] = "append"
                 THEN lone ELSE lone \cup {<<c, n>>}
      /\ UNCHANGED <<traceCalls, position, traceResult>>
  BY Kinds DEF Trace!AppendText, Steps
<1>2. /\ n \in Nat /\ p \in Nat /\ p <= Len(file) /\ file \in Seq(Unit)
      /\ Len(file) \in Nat /\ Trace!Handed(c) \in Nat
  BY <1>1, Kinds DEF TraceType, TracersInv
<1>3. /\ t \in Seq(Unit) /\ Len(t) = Trace!Handed(c)
      /\ \A k \in 1 .. Trace!Handed(c) : t[k] = <<c, n, k>>
  BY <1>1, <1>2, UnitsType
<1>. HIDE DEF t
<1>4. /\ file' \in Seq(Unit)
      /\ Len(file') \in Nat /\ Len(file) <= Len(file')
      /\ \A k \in 1 .. p : file'[k] = file[k]
      /\ ~ full => /\ p + Trace!Handed(c) <= Len(file')
                   /\ \A k \in 1 .. Trace!Handed(c) : file'[p + k] = <<c, n, k>>
  <2>1. CASE full
    BY <1>1, <1>2, <2>1
  <2>2. CASE ~ full
    <3>1. file' = Trace!Overwritten(p, t)
      BY <1>1, <2>2
    <3>2. /\ file' \in Seq(Unit)
          /\ Len(file') >= Len(file) /\ Len(file') >= p + Len(t)
          /\ \A k \in 1 .. p : file'[k] = file[k]
          /\ \A k \in 1 .. Len(t) : file'[p + k] = t[k]
      BY <1>2, <1>3, <3>1, Overwriting
    <3>3. Len(file') \in Nat /\ Len(file) <= Len(file') /\ p + Trace!Handed(c) <= Len(file')
      BY <1>2, <1>3, <3>2
    <3>4. \A k \in 1 .. Trace!Handed(c) : file'[p + k] = <<c, n, k>>
      BY <1>3, <3>2
    <3>. QED  BY <3>2, <3>3, <3>4
  <2>. QED  BY <2>1, <2>2
<1>5. TraceType'
  <2>1. lone' \subseteq Tracers \X Nat
    BY <1>1, <1>2, SMTT(30) DEF TraceType
  <2>. QED
    BY <1>1, <1>4, <2>1, GotoType DEF TraceType, Callers, Trace!Callers, Steps
<1>6. \A d \in Tracers : tracePc'[d] = "append" => d # c /\ tracePc[d] = "append"
  BY <1>1, Kinds, GotoType
<1>7. ASSUME NEW x \in lone PROVE \E i \in Nat : StandsAt(x, i)'
  <2>1. PICK i \in Nat : StandsAt(x, i)
    BY DEF TracersInv
  <2>2. i + Trace!Handed(x[1]) <= p /\ Trace!Handed(x[1]) \in Nat
    BY <1>1, <2>1, Kinds DEF StandsAt, TraceType
  <2>3. i + Trace!Handed(x[1]) <= Len(file')
    BY <1>2, <1>4, <2>2
  <2>4. ASSUME NEW k \in 1 .. Trace!Handed(x[1]) PROVE file'[i + k] = <<x[1], x[2], k>>
    <3>1. i + k \in 1 .. p
      BY <1>2, <2>2
    <3>. QED  BY <1>4, <2>1, <3>1 DEF StandsAt
  <2>. QED  BY <1>1, <1>6, <2>1, <2>3, <2>4 DEF StandsAt
<1>8. ASSUME ~ full, \A d \in Tracers \ {c} : tracePc[d] # "append"
      PROVE  StandsAt(<<c, n>>, p)'
  <2>1. \A d \in Tracers : tracePc'[d] # "append"
    BY <1>6, <1>8
  <2>. QED  BY <1>4, <1>8, <2>1 DEF StandsAt
<1>9. TracersInv'
  <2>1. \A d \in Tracers : tracePc'[d] = "append" => position'[d] <= Len(file')
    <3>1. ASSUME NEW d \in Tracers, tracePc'[d] = "append"
          PROVE  position'[d] <= Len(file')
      <4>1. position'[d] \in Nat /\ position'[d] <= Len(file)
        BY <1>1, <1>6, <3>1, Kinds DEF TracersInv, TraceType
      <4>. QED  BY <1>2, <1>4, <4>1
    <3>. QED  BY <3>1
  <2>2. ASSUME NEW x \in lone' PROVE \E i \in Nat : StandsAt(x, i)'
    <3>1. CASE x \in lone
      BY <1>7, <3>1
    <3>2. CASE x \notin lone
      <4>1. x = <<c, n>> /\ ~ full /\ \A d \in Tracers \ {c} : tracePc[d] # "append"
        BY <1>1, <3>2
      <4>. QED  BY <1>2, <1>8, <4>1
    <3>. QED  BY <3>1, <3>2
  <2>. QED  BY <2>1, <2>2 DEF TracersInv
<1>10. \A d \in Writers \cup Readers : tracePc[d] = "idle" /\ tracePc'[d] = "idle"
  BY <1>1, Kinds, GotoType DEF OpenTogether
<1>11. WritersInv' /\ ReadersInv'
  BY <1>10 DEF WritersInv, ReadersInv
<1>. QED  BY <1>1, <1>5, <1>9, <1>11, GotoType, StillTogether


(* While one writer has the file open nobody else has.                     *)
LEMMA WriterAlone ==
  ASSUME TraceInv, NEW c \in Writers, tracePc[c] # "idle"
  PROVE  lone = {} /\ \A d \in Callers \ {c} : tracePc[d] = "idle"
BY Kinds DEF TraceInv, OpenTogether, WritersInv

LEMMA StepCreateAlways ==
  ASSUME TraceInv, NEW c \in Writers, Trace!CreateAlways(c)
  PROVE  TraceInv'
<1>. USE DEF TraceInv
<1>1. /\ c \in Callers /\ "write" \in Steps(c) /\ Trace!Begin(c)
      /\ Trace!MayOpen(c) /\ Trace!Goto(c, "write")
      /\ file' = <<>> /\ lone' = {} /\ position' = [position EXCEPT ![c] = 0]
      /\ UNCHANGED traceResult
  BY Kinds DEF Trace!CreateAlways, Steps
<1>2. /\ position' \in [Callers -> Nat] /\ position'[c] = 0
      /\ traceCalls' \in [Callers -> Nat]
  BY <1>1, BeginType DEF TraceType
<1>3. TraceType'
  <2>1. /\ tracePc' \in [Callers -> UNION {Steps(d) : d \in Callers}]
        /\ \A d \in Callers : tracePc'[d] \in Steps(d)
    BY <1>1, GotoType
  <2>2. file' \in Seq(Unit) /\ lone' \subseteq Tracers \X Nat
    BY <1>1
  <2>3. DOMAIN traceResult' = Readers
    BY <1>1 DEF TraceType
  <2>. QED  BY <1>2, <2>1, <2>2, <2>3 DEF TraceType, Callers, Trace!Callers, Steps
<1>4. /\ \A d \in Callers \ {c} : tracePc'[d] = "idle"
      /\ tracePc'[c] = "write"
  BY <1>1, Kinds, MayOpenTogether, GotoType
<1>5. TracersInv' /\ ReadersInv'
  BY <1>1, <1>4, Kinds DEF TracersInv, ReadersInv
<1>6. WritersInv'
  <2>1. /\ 0 <= Length[c]
        /\ <<>> = SubSeq(Trace!Text(c, traceCalls'[c]), 1, 0)
    BY <1>1, <1>2, Kinds, TextType
  <2>. QED  BY <1>1, <1>2, <1>4, <2>1, Kinds DEF WritersInv
<1>. QED  BY <1>1, <1>3, <1>5, <1>6, GotoType, OpenedTogether

LEMMA StepWritePart ==
  ASSUME TraceInv, NEW c \in Writers, Trace!WritePart(c)
  PROVE  TraceInv'
<1>. USE DEF TraceInv
<1>. PICK p, t : p = position[c] /\ t = Trace!Text(c, traceCalls[c])
  OBVIOUS
<1>1. PICK n \in 0 .. Length[c] - p :
        /\ tracePc[c] = "write"
        /\ file' = file \o SubSeq(t, p + 1, p + n)
        /\ position' = [position EXCEPT ![c] = @ + n]
        /\ Trace!Goto(c, IF p + n < Length[c] THEN "write" ELSE "close")
        /\ UNCHANGED <<traceCalls, traceResult, lone>>
  BY DEF Trace!WritePart
<1>2. /\ c \in Callers /\ p \in Nat /\ p <= Length[c] /\ Length[c] \in Nat
      /\ n \in Nat /\ p + n <= Length[c]
      /\ t \in Seq(Unit) /\ Len(t) = Length[c]
      /\ file = SubSeq(t, 1, p)
  <2>1. c \in Callers /\ Length[c] \in Nat /\ c \in Tracers \cup Writers
    BY Kinds
  <2>2. p \in Nat /\ traceCalls[c] \in Nat
    BY <2>1 DEF TraceType
  <2>3. p <= Length[c] /\ file = SubSeq(t, 1, p)
    BY <1>1 DEF WritersInv
  <2>4. t \in Seq(Unit) /\ Len(t) = Length[c]
    BY <2>1, <2>2, TextType
  <2>. QED  BY <2>1, <2>2, <2>3, <2>4
<1>3. file' \in Seq(Unit) /\ file' = SubSeq(t, 1, p + n)
  <2>. DEFINE a == SubSeq(t, 1, p)
              b == SubSeq(t, p + 1, p + n)
              w == SubSeq(t, 1, p + n)
  <2>1. a \in Seq(Unit) /\ Len(a) = p /\ \A k \in 1 .. p : a[k] = t[k]
    BY <1>2
  <2>2. b \in Seq(Unit) /\ Len(b) = n /\ \A k \in 1 .. n : b[k] = t[p + k]
    <3>1. t \in Seq(Unit) /\ p \in Nat /\ n \in Nat /\ p + n <= Len(t)
      BY <1>2
    <3>2. \A i, j \in Nat : i + j <= Len(t) =>
            /\ SubSeq(t, i + 1, i + j) \in Seq(Unit)
            /\ Len(SubSeq(t, i + 1, i + j)) = j
            /\ \A k \in 1 .. j : SubSeq(t, i + 1, i + j)[k] = t[i + k]
      BY <3>1, Part
    <3>. QED  BY <3>1, <3>2
  <2>3. w \in Seq(Unit) /\ Len(w) = p + n /\ \A k \in 1 .. p + n : w[k] = t[k]
    BY <1>2, SMTT(30)
  <2>4. file' = a \o b
    BY <1>1, <1>2
  <2>. HIDE DEF a, b, w
  <2>5. /\ file' \in Seq(Unit) /\ Len(file') = p + n
        /\ \A k \in 1 .. p + n : file'[k] = IF k <= p THEN a[k] ELSE b[k - p]
    <3>1. /\ a \o b \in Seq(Unit) /\ Len(a \o b) = Len(a) + Len(b)
          /\ \A k \in 1 .. Len(a) + Len(b) :
               (a \o b)[k] = IF k <= Len(a) THEN a[k] ELSE b[k - Len(a)]
      BY <2>1, <2>2, ConcatProperties
    <3>. QED  BY <2>1, <2>2, <2>4, <3>1
  <2>6. ASSUME NEW k \in 1 .. p + n PROVE file'[k] = w[k]
    <3>1. CASE k <= p
      BY <1>2, <2>1, <2>3, <2>5, <3>1
    <3>2. CASE ~ (k <= p)
      <4>1. k - p \in 1 .. n /\ p + (k - p) = k
        BY <1>2, <3>2
      <4>. QED  BY <2>2, <2>3, <2>5, <3>2, <4>1
    <3>. QED  BY <3>1, <3>2
  <2>7. file' = w
    BY <2>3, <2>5, <2>6, SeqEqual
  <2>. QED  BY <2>5, <2>7 DEF w
<1>4. position' \in [Callers -> Nat] /\ position'[c] = p + n
  <2>1. position \in [Callers -> Nat]
    BY DEF TraceType
  <2>2. position[c] = p /\ p + n \in Nat
    BY <1>2
  <2>. QED  BY <1>1, <1>2, <2>1, <2>2
<1>5. "write" \in Steps(c) /\ "close" \in Steps(c)
  BY DEF Steps
<1>6. TraceType'
  BY <1>1, <1>2, <1>3, <1>4, <1>5, GotoType
  DEF TraceType, Callers, Trace!Callers, Steps
<1>7. /\ \A d \in Callers \ {c} : tracePc'[d] = "idle" /\ tracePc[d] = "idle"
      /\ tracePc'[c] = IF p + n < Length[c] THEN "write" ELSE "close"
      /\ lone' = {}
  BY <1>1, <1>2, <1>5, WriterAlone, GotoType
<1>8. TracersInv' /\ ReadersInv'
  BY <1>2, <1>7, Kinds DEF TracersInv, ReadersInv
<1>9. WritersInv'
  <2>1. CASE p + n < Length[c]
    BY <1>1, <1>2, <1>3, <1>4, <1>7, <2>1, Kinds DEF WritersInv
  <2>2. CASE ~ (p + n < Length[c])
    <3>1. file' = t
      BY <1>2, <1>3, <2>2
    <3>. QED  BY <1>1, <1>2, <1>7, <2>2, <3>1, Kinds DEF WritersInv
  <2>. QED  BY <2>1, <2>2
<1>10. OpenTogether'
  BY <1>7 DEF OpenTogether, Callers, Trace!Callers
<1>. QED  BY <1>6, <1>8, <1>9, <1>10

LEMMA StepReads ==
  ASSUME TraceInv, NEW c \in Readers, Trace!GetFileSize(c) \/ Trace!ReadFile(c)
  PROVE  TraceInv'
<1>. USE DEF TraceInv
<1>1. /\ c \in Callers /\ "read" \in Steps(c) /\ "close" \in Steps(c)
      /\ tracePc[c] # "idle" /\ file \in Seq(Unit) /\ Len(file) \in Nat
      /\ UNCHANGED <<file, traceCalls, lone>>
  BY Kinds, SMTT(30) DEF Trace!GetFileSize, Trace!ReadFile, Steps, TraceType
<1>2. \A d \in Writers \cup Tracers : d # c /\ tracePc[d] = "idle"
  BY <1>1, Kinds DEF OpenTogether
<1>3. CASE Trace!GetFileSize(c)
  <2>1. /\ Trace!Goto(c, "read") /\ position' = [position EXCEPT ![c] = Len(file)]
        /\ UNCHANGED traceResult
    BY <1>3 DEF Trace!GetFileSize
  <2>2. /\ position' \in [Callers -> Nat] /\ position'[c] = Len(file)
        /\ \A d \in Callers \ {c} : position'[d] = position[d]
    BY <1>1, <2>1 DEF TraceType
  <2>3. TraceType'
    BY <1>1, <2>1, <2>2, GotoType DEF TraceType, Callers, Trace!Callers, Steps
  <2>4. TracersInv' /\ WritersInv'
    BY <1>1, <1>2, <2>1, Kinds, GotoType, ZenonT(60) DEF TracersInv, WritersInv, StandsAt
  <2>5. ReadersInv'
    BY <1>1, <2>1, <2>2, Kinds, GotoType DEF ReadersInv, Trace!Failed
  <2>. QED  BY <1>1, <2>1, <2>3, <2>4, <2>5, GotoType, StillTogether
<1>4. CASE Trace!ReadFile(c)
  <2>1. /\ Trace!Goto(c, "close") /\ UNCHANGED position /\ tracePc[c] = "read"
        /\ \/ traceResult' = [traceResult EXCEPT ![c] = SubSeq(file, 1, position[c])]
           \/ traceResult' = [traceResult EXCEPT ![c] = Trace!Failed]
    BY <1>4 DEF Trace!ReadFile
  <2>2. SubSeq(file, 1, position[c]) = file
    BY <1>1, <2>1 DEF ReadersInv
  <2>3. /\ DOMAIN traceResult' = Readers /\ traceResult'[c] \in {file, Trace!Failed}
        /\ \A d \in Readers \ {c} : traceResult'[d] = traceResult[d]
    BY <2>1, <2>2 DEF TraceType
  <2>4. TraceType'
    BY <1>1, <2>1, <2>3, GotoType DEF TraceType, Callers, Trace!Callers, Steps
  <2>5. TracersInv' /\ WritersInv'
    BY <1>1, <1>2, <2>1, Kinds, GotoType DEF TracersInv, WritersInv, StandsAt
  <2>6. ReadersInv'
    BY <1>1, <2>1, <2>3, Kinds, GotoType DEF ReadersInv, Trace!Failed
  <2>. QED  BY <1>1, <2>1, <2>4, <2>5, <2>6, GotoType, StillTogether
<1>. QED  BY <1>3, <1>4

LEMMA StepTrace == TraceInv /\ [Trace!Next]_traceVars => TraceInv'
<1>. SUFFICES ASSUME TraceInv, [Trace!Next]_traceVars PROVE TraceInv'
  OBVIOUS
<1>1. ASSUME UNCHANGED <<file, tracePc, traceCalls, position, traceResult, lone>>
      PROVE  TraceInv'
  <2>1. TraceType' /\ OpenTogether'
    BY <1>1 DEF TraceInv, TraceType, OpenTogether, Callers, Trace!Callers, Steps
  <2>2. TracersInv'
    BY <1>1 DEF TraceInv, TracersInv, StandsAt
  <2>3. WritersInv' /\ ReadersInv'
    BY <1>1 DEF TraceInv, WritersInv, ReadersInv, Trace!Failed
  <2>. QED  BY <2>1, <2>2, <2>3 DEF TraceInv
<1>2. CASE Trace!DiskFills \/ Trace!RoomMade \/ UNCHANGED traceVars
  BY <1>1, <1>2 DEF Trace!DiskFills, Trace!RoomMade, traceVars
<1>3. ASSUME NEW c \in Trace!Callers, Trace!Step(c) \/ Trace!Call(c)
      PROVE  TraceInv'
  BY <1>3, Kinds, StepElsewhere, StepSeekEnd, StepAppendText, StepCreateAlways,
     StepWritePart, StepReads
  DEF Trace!Step, Trace!Call, Callers
<1>. QED  BY <1>2, <1>3 DEF Trace!Next

LEMMA InitTrace == Trace!Init => TraceInv
<1>. SUFFICES ASSUME Trace!Init PROVE TraceInv
  OBVIOUS
<1>1. TraceType
  BY EmptySeq DEF Trace!Init, TraceType, Steps, Callers
<1>2. OpenTogether /\ TracersInv /\ WritersInv /\ ReadersInv
  BY Kinds
  DEF Trace!Init, OpenTogether, TracersInv, WritersInv, ReadersInv, Callers
<1>. QED  BY <1>1, <1>2 DEF TraceInv

(* A text traced by a caller alone stays in the file until the file is     *)
(* replaced, whole or, of a string of wide characters, its first half;     *)
(* MyWriteFile has written all of its text when it says so; and ReadFileA  *)
(* gives the file as it is or fails, whoever else calls them and whenever  *)
(* the disk fills up (TraceLog.cpp:25-35, 149, 172, FileOper.cpp:34-45,    *)
(* FileOper_2019_8_6.cpp:15-36).                                           *)
THEOREM TracesWhole == Trace!Spec => []TextsWhole
<1>1. Trace!Spec => Trace!Init /\ [][Trace!Next]_traceVars
  BY PTL DEF Trace!Spec, Trace!vars, traceVars
<1>2. TraceInv => TextsWhole
  <2>. SUFFICES ASSUME TraceInv PROVE TextsWhole
    OBVIOUS
  <2>. USE DEF TraceInv
  <2>1. Trace!WrittenWhole /\ Trace!ReadWhole
    BY DEF Trace!WrittenWhole, Trace!ReadWhole, WritersInv, ReadersInv
  <2>2. ASSUME NEW x \in lone
        PROVE  LET s == Trace!Text(x[1], x[2])
               IN  Trace!Holds(IF x[1] \in Strings
                               THEN SubSeq(s, 1, Len(s) \div CharSize) ELSE s)
    <3>. DEFINE s == Trace!Text(x[1], x[2])
                t == IF x[1] \in Strings
                     THEN SubSeq(s, 1, Len(s) \div CharSize) ELSE s
    <3>1. PICK i \in Nat : StandsAt(x, i)
      BY DEF TracersInv
    <3>2. x[1] \in Tracers /\ x[2] \in Nat
      BY DEF TraceType
    <3>3. /\ Trace!Handed(x[1]) \in Nat /\ Length[x[1]] \in Nat
          /\ Trace!Handed(x[1]) <= Length[x[1]]
      BY <3>2, Kinds
    <3>4. /\ s \in Seq(Unit) /\ Len(s) = Length[x[1]]
          /\ \A k \in 1 .. Length[x[1]] : s[k] = <<x[1], x[2], k>>
      BY <3>2, TextType
    <3>. HIDE DEF s
    <3>5. /\ t \in Seq(Unit) /\ Len(t) = Trace!Handed(x[1])
          /\ \A k \in 1 .. Trace!Handed(x[1]) : t[k] = <<x[1], x[2], k>>
      <4>1. CASE x[1] \in Strings
        <5>1. t = SubSeq(s, 1, Trace!Handed(x[1]))
          BY <3>4, <4>1 DEF Trace!Handed
        <5>. HIDE DEF t
        <5>2. /\ SubSeq(s, 1, Trace!Handed(x[1])) \in Seq(Unit)
              /\ Len(SubSeq(s, 1, Trace!Handed(x[1]))) = Trace!Handed(x[1])
              /\ \A k \in 1 .. Trace!Handed(x[1]) :
                   SubSeq(s, 1, Trace!Handed(x[1]))[k] = s[k]
          BY <3>3, <3>4, Beginning
        <5>. QED  BY <3>3, <3>4, <5>1, <5>2
      <4>2. CASE x[1] \notin Strings
        BY <3>3, <3>4, <4>2 DEF Trace!Handed
      <4>. QED  BY <4>1, <4>2
    <3>. HIDE DEF t
    <3>6. /\ file \in Seq(Unit) /\ i + Len(t) <= Len(file)
          /\ \A k \in 1 .. Len(t) : file[i + k] = t[k]
      <4>1. file \in Seq(Unit)
        BY DEF TraceType
      <4>. QED  BY <3>1, <3>5, <4>1 DEF StandsAt
    <3>7. Trace!Holds(t)
      BY <3>5, <3>6, HoldsAt
    <3>. QED  BY <3>7 DEF s, t
  <2>. QED  BY <2>1, <2>2 DEF TextsWhole, Trace!TextsWhole, Trace!LoneTextStays
<1>. QED  BY <1>1, <1>2, InitTrace, StepTrace, PTL

----------------------------------------------------------------------------
(* The questions to the system.                                            *)

Present == Queries!Existing

QueriesType ==
  /\ adapters \in SUBSET Adapter
  /\ modules \in SUBSET Module
  /\ processes \in [1 .. MaxId -> Name \cup {Queries!Nobody}]
  /\ size \in Nat
  /\ IsFiniteSet(known)

(* Nothing has changed since the helper was called.                        *)
Still == \A k \in known : k = Present

KnownInv ==
  \/ query = "idle" /\ step = "none" /\ outcome = "none" /\ known = {}
  \/ Present \in known

AdaptersInv ==
  query = "array" =>
    \/ /\ step \in {"size", "fetch"} /\ answer = <<>> /\ outcome = "none"
       /\ step = "fetch" /\ Still => Cardinality(adapters) <= size
    \/ step = "none" /\ answer = <<>> /\ outcome = "no memory"
    \/ /\ step = "none" /\ answer = <<>> /\ outcome = "nothing"
       /\ Still => adapters = {}
    \/ step = "none" /\ Queries!ToSet(answer) = adapters /\ outcome = "listed"
    \/ step = "none" /\ Cardinality(adapters) > Places /\ outcome = "overrun"

(* The modules are those named already, those without a name and those     *)
(* still to be named.                                                      *)
Accounted(n) == \E k \in known : n = Cardinality(k.modules)

(* There were more modules than there had been before.                     *)
Grown ==
  \E j, k \in known : Cardinality(j.modules) < Cardinality(k.modules)

Apart(s) == \A i, j \in 1 .. Len(s) : s[i] = s[j] => i = j

(* No handle stands for two modules, and none for one named already.       *)
Divided ==
  /\ Apart(answer) /\ Apart(handles)
  /\ \A j \in 1 .. Len(handles) :
       /\ handles[j] \in Module
       /\ \A i \in 1 .. Len(answer) : answer[i] # handles[j]

ModulesInv ==
  query = "modules" =>
    /\ answer \in Seq(Module) /\ unnamed \in Nat
    /\ \A j \in 1 .. Len(answer) : \E k \in known : answer[j] \in k.modules
    /\ \/ /\ step \in {"size", "fetch"} /\ answer = <<>> /\ unnamed = 0
          /\ outcome = "none"
          /\ step = "fetch" => Accounted(size)
       \/ /\ step = "name" /\ outcome = "none"
          /\ handles \in Seq(Module \cup {Queries!Garbage})
          /\ Accounted(Len(answer) + unnamed + Len(handles))
          /\ Divided \/ Grown
       \/ step = "none" /\ outcome = "failed" /\ answer = <<>>
       \/ /\ step = "none" /\ outcome = "listed"
          /\ Accounted(Len(answer) + unnamed)
          /\ Apart(answer) \/ Grown

(* The first n processes of k have other names; the others are to be seen. *)
Walked(k, n) ==
  /\ Len(handles) = MaxId - n
  /\ \A j \in 1 .. MaxId - n : handles[j] = <<n + j, k.processes[n + j]>>
  /\ \A j \in 1 .. n : k.processes[j] # query

FirstOfName(k, n) ==
  /\ answer = <<n>> /\ k.processes[n] = query
  /\ \A j \in 1 .. n - 1 : k.processes[j] # query

ProcessEntry == (1 .. MaxId) \X (Name \cup {Queries!Nobody})

ProcessesInv ==
  /\ outcome = "found" => query \in Name
  /\ query \in Name =>
       \/ step = "snapshot" /\ outcome = "none"
       \/ /\ step = "walk" /\ outcome = "none" /\ handles \in Seq(ProcessEntry)
          /\ \E k \in known : \E n \in 0 .. MaxId : Walked(k, n)
       \/ step = "none" /\ outcome \in {"no snapshot", "not found"}
       \/ /\ step = "none" /\ outcome = "found"
          /\ \E k \in known : \E n \in 1 .. MaxId : FirstOfName(k, n)

QueriesInv ==
  QueriesType /\ KnownInv /\ AdaptersInv /\ ModulesInv /\ ProcessesInv

LEMMA QueryKinds ==
  /\ \A n \in Name : n \notin {"idle", "vector", "array", "modules", Queries!Nobody}
  /\ Queries!Garbage \notin Module
  /\ MaxId \in Nat /\ Places \in Nat
  /\ IsFiniteSet(Adapter) /\ IsFiniteSet(Module)
BY SharingConstants
DEF Queries!SystemQueriesConstants, Queries!IsFiniteSet, IsFiniteSet

LEMMA SameCardinality == \A S : Queries!Cardinality(S) = Cardinality(S)
BY DEF Queries!Cardinality, Cardinality

LEMMA FiniteNow ==
  ASSUME QueriesType
  PROVE  /\ IsFiniteSet(adapters) /\ Cardinality(adapters) \in Nat
         /\ IsFiniteSet(modules) /\ Cardinality(modules) \in Nat
BY QueryKinds, FS_Subset, FS_CardinalityType DEF QueriesType

(* A set as a sequence: each element once.                                 *)
LEMMA Sequenced ==
  ASSUME NEW S, IsFiniteSet(S)
  PROVE  /\ Queries!SetToSeq(S) \in Seq(S)
         /\ Len(Queries!SetToSeq(S)) = Cardinality(S)
         /\ \A x \in S : \E j \in 1 .. Cardinality(S) : Queries!SetToSeq(S)[j] = x
         /\ Apart(Queries!SetToSeq(S))
<1>1. PICK n \in Nat : n = Cardinality(S)
  BY FS_CardinalityType
<1>2. PICK g \in Bijection(1 .. n, S) : TRUE
  BY <1>1, FS_CardinalityType DEF ExistsBijection
<1>3. g \in [1 .. n -> S] /\ Queries!IsInjective(g)
  BY <1>2 DEF Bijection, Injection, IsInjective, Queries!IsInjective
<1>. PICK s : s = Queries!SetToSeq(S)
  OBVIOUS
<1>4. s \in [1 .. n -> S] /\ Queries!IsInjective(s)
  BY <1>1, <1>3, SameCardinality DEF Queries!SetToSeq
<1>5. s \in Seq(S) /\ Len(s) = n
  BY <1>4
<1>6. s \in Surjection(1 .. n, S)
  <2>1. s \in Injection(1 .. n, S)
    BY <1>4 DEF Injection, IsInjective, Queries!IsInjective
  <2>2. Cardinality(1 .. n) = n
    BY FS_Interval
  <2>. QED  BY <1>1, <2>1, <2>2, FS_Injection
<1>7. \A x \in S : \E j \in 1 .. n : s[j] = x
  BY <1>6 DEF Surjection
<1>8. Apart(s)
  BY <1>4, <1>5 DEF Apart, Queries!IsInjective
<1>. QED  BY <1>1, <1>5, <1>7, <1>8

LEMMA StepBegin ==
  ASSUME QueriesInv, NEW q, NEW first, Queries!Begin(q, first),
         \/ q \in {"vector", "array", "modules"} /\ first = "size"
         \/ q \in Name /\ first = "snapshot",
         size' \in Nat
  PROVE  QueriesInv'
<1>1. /\ query' = q /\ step' = first /\ answer' = <<>> /\ outcome' = "none"
      /\ unnamed' = 0 /\ known' = {Present}
      /\ UNCHANGED <<adapters, modules, processes>>
  BY DEF Queries!Begin, Queries!system, Present
<1>2. Present' = Present
  BY <1>1 DEF Present, Queries!Existing
<1>3. QueriesType'
  BY <1>1, FS_Singleton DEF QueriesInv, QueriesType
<1>4. KnownInv' /\ AdaptersInv' /\ ModulesInv' /\ ProcessesInv'
  BY <1>1, <1>2, QueryKinds DEF KnownInv, AdaptersInv, ModulesInv, ProcessesInv
<1>. QED  BY <1>3, <1>4 DEF QueriesInv

(* What a step of a helper leaves as it was.                               *)
Asking == UNCHANGED <<adapters, modules, processes, query, known>>

LEMMA AskingKnown ==
  ASSUME QueriesInv, Asking, size' \in Nat, query # "idle"
  PROVE  /\ QueriesType' /\ KnownInv' /\ Present \in known
         /\ Present' = Present /\ (Still' <=> Still)
<1>1. Present' = Present
  BY DEF Asking, Present, Queries!Existing
<1>2. Present \in known
  BY DEF QueriesInv, KnownInv
<1>. QED  BY <1>1, <1>2 DEF QueriesInv, QueriesType, KnownInv, Asking, Still

LEMMA StepAdapters ==
  ASSUME QueriesInv,
         \/ Queries!AskSize \/ Queries!NoMemory
         \/ Queries!FetchVector \/ Queries!FetchArray \/ Queries!FetchNothing
  PROVE  QueriesInv'
<1>. USE DEF Queries!Return, Queries!Goto, Queries!system, Queries!local
<1>1. Asking /\ query \in {"vector", "array"}
  BY DEF Asking, Queries!AskSize, Queries!NoMemory, Queries!FetchVector,
         Queries!FetchArray, Queries!FetchNothing, Queries!Ready
<1>2. /\ IsFiniteSet(adapters) /\ Cardinality(adapters) \in Nat
      /\ size \in Nat
  BY FiniteNow DEF QueriesInv, QueriesType
<1>3. size' \in Nat
  BY <1>2, SameCardinality
  DEF Queries!AskSize, Queries!NoMemory, Queries!FetchVector, Queries!FetchArray,
      Queries!FetchNothing
<1>4. query' = query /\ query \notin Name /\ query # "modules"
      /\ UNCHANGED <<adapters, known>>
  BY <1>1, QueryKinds DEF Asking
<1>5. outcome' # "found" \/ query \in Name
  BY DEF Queries!AskSize, Queries!NoMemory, Queries!FetchVector, Queries!FetchArray,
      Queries!FetchNothing,
         QueriesInv, ProcessesInv
<1>6. ModulesInv' /\ ProcessesInv'
  BY <1>4, <1>5 DEF ModulesInv, ProcessesInv
<1>7. QueriesType' /\ KnownInv' /\ (Still' <=> Still)
  BY <1>1, <1>3, AskingKnown
<1>8. AdaptersInv'
  <2>. SUFFICES ASSUME query = "array" PROVE AdaptersInv'
    BY <1>4 DEF AdaptersInv
  <2>1. step \in {"size", "fetch"} /\ answer = <<>> /\ outcome = "none"
        /\ (step = "fetch" /\ Still => Cardinality(adapters) <= size)
    BY DEF QueriesInv, AdaptersInv, Queries!AskSize, Queries!NoMemory,
           Queries!FetchVector, Queries!FetchArray, Queries!FetchNothing, Queries!Ready
  <2>2. CASE Queries!AskSize
    BY <1>2, <1>4, <2>1, <2>2, SameCardinality DEF Queries!AskSize, AdaptersInv
  <2>3. CASE Queries!NoMemory
    BY <1>4, <2>1, <2>3 DEF Queries!NoMemory, AdaptersInv
  <2>4. CASE Queries!FetchArray
    <3>1. /\ step' = "none" /\ answer' = Queries!SetToSeq(adapters)
          /\ outcome' = IF Cardinality(adapters) <= Places THEN "listed"
                        ELSE "overrun"
      BY <2>4, SameCardinality DEF Queries!FetchArray
    <3>2. Queries!ToSet(Queries!SetToSeq(adapters)) = adapters
      BY <1>2, Sequenced DEF Queries!ToSet
    <3>3. Queries!ToSet(answer') = adapters'
      BY <1>4, <3>1, <3>2
    <3>4. Cardinality(adapters') > Places \/ outcome' = "listed"
      BY <1>2, <1>4, <3>1, QueryKinds
    <3>. QED  BY <1>4, <3>1, <3>3, <3>4 DEF AdaptersInv
  <2>5. CASE Queries!FetchNothing
    BY <1>2, <1>4, <1>7, <2>1, <2>5, SameCardinality
    DEF Queries!FetchNothing, Queries!Fits, Queries!Ready, AdaptersInv
  <2>6. CASE Queries!FetchVector
    BY <2>6 DEF Queries!FetchVector
  <2>. QED  BY <2>2, <2>3, <2>4, <2>5, <2>6
<1>. QED  BY <1>6, <1>7, <1>8 DEF QueriesInv

LEMMA TailApart ==
  ASSUME NEW S, NEW s \in Seq(S), s # <<>>, Apart(s)
  PROVE  /\ Apart(Tail(s))
         /\ \A j \in 1 .. Len(Tail(s)) :
              /\ j + 1 \in 1 .. Len(s) /\ Tail(s)[j] = s[j + 1]
              /\ Tail(s)[j] # s[1]
<1>1. /\ Len(s) \in Nat \ {0} /\ Len(Tail(s)) = Len(s) - 1
      /\ \A j \in 1 .. Len(s) - 1 : Tail(s)[j] = s[j + 1]
  OBVIOUS
<1>2. ASSUME NEW j \in 1 .. Len(Tail(s))
      PROVE  /\ j + 1 \in 1 .. Len(s) /\ Tail(s)[j] = s[j + 1] /\ j \in Nat
             /\ Tail(s)[j] # s[1]
  <2>1. /\ j + 1 \in 1 .. Len(s) /\ Tail(s)[j] = s[j + 1] /\ j \in Nat
        /\ 1 \in 1 .. Len(s) /\ j + 1 # 1
    BY <1>1
  <2>2. s[j + 1] # s[1]
    BY <2>1 DEF Apart
  <2>. QED  BY <2>1, <2>2
<1>3. ASSUME NEW i \in 1 .. Len(Tail(s)), NEW j \in 1 .. Len(Tail(s)),
             Tail(s)[i] = Tail(s)[j]
      PROVE  i = j
  <2>1. i + 1 = j + 1
    BY <1>2, <1>3 DEF Apart
  <2>. QED  BY <1>2, <2>1
<1>. QED  BY <1>2, <1>3 DEF Apart

LEMMA StepModules ==
  ASSUME QueriesInv,
         \/ Queries!EnumFails \/ Queries!AskModules \/ Queries!EnumModules
         \/ Queries!Named \/ Queries!NotNamed \/ Queries!ModulesListed
  PROVE  QueriesInv'
<1>. USE DEF Queries!Return, Queries!Goto, Queries!system, Queries!local,
             Queries!Naming
<1>1. Asking /\ query = "modules"
  BY DEF Asking, Queries!EnumFails, Queries!AskModules, Queries!EnumModules,
         Queries!Named, Queries!NotNamed, Queries!ModulesListed
<1>2. /\ IsFiniteSet(modules) /\ Cardinality(modules) \in Nat
      /\ size \in Nat /\ modules \in SUBSET Module
  BY FiniteNow DEF QueriesInv, QueriesType
<1>3. size' \in Nat
  BY <1>2, SameCardinality
  DEF Queries!EnumFails, Queries!AskModules, Queries!EnumModules, Queries!Named,
      Queries!NotNamed, Queries!ModulesListed
<1>4. UNCHANGED <<query, known, modules>> /\ query \notin Name /\ query # "array"
  BY <1>1, QueryKinds DEF Asking
<1>5. outcome' # "found"
  <2>1. outcome # "found"
    BY <1>4 DEF QueriesInv, ProcessesInv
  <2>. QED  BY <2>1
    DEF Queries!EnumFails, Queries!AskModules, Queries!EnumModules, Queries!Named,
        Queries!NotNamed, Queries!ModulesListed
<1>6. AdaptersInv' /\ ProcessesInv'
  BY <1>4, <1>5 DEF AdaptersInv, ProcessesInv
<1>7. /\ QueriesType' /\ KnownInv' /\ (Still' <=> Still)
      /\ Present \in known
  BY <1>1, <1>3, AskingKnown
<1>8. ModulesInv
  BY DEF QueriesInv
<1>9. ASSUME NEW n PROVE (Accounted(n) => Accounted(n)') /\ (Grown => Grown')
  BY <1>4 DEF Accounted, Grown
<1>10. Accounted(Cardinality(modules))
  BY <1>7 DEF Accounted, Present, Queries!Existing
<1>11. ASSUME Queries!EnumFails PROVE ModulesInv'
  BY <1>1, <1>4, <1>8, <1>11 DEF Queries!EnumFails, ModulesInv
<1>12. ASSUME Queries!AskModules PROVE ModulesInv'
  <2>1. /\ step = "size" /\ step' = "fetch" /\ size' = Cardinality(modules)
        /\ UNCHANGED <<answer, unnamed, outcome>>
    BY <1>12, SameCardinality DEF Queries!AskModules
  <2>2. Accounted(size)'
    BY <1>4, <1>10, <2>1 DEF Accounted
  <2>. QED  BY <1>1, <1>4, <1>8, <2>1, <2>2 DEF ModulesInv
<1>13. ASSUME Queries!EnumModules PROVE ModulesInv'
  <2>. PICK all : all = Queries!SetToSeq(modules)
    OBVIOUS
  <2>1. all \in Seq(modules) /\ Len(all) = Cardinality(modules) /\ Apart(all)
    BY <1>2, Sequenced
  <2>2. handles' = [j \in 1 .. Len(all) |-> IF j <= size THEN all[j]
                                            ELSE Queries!Garbage]
        /\ step = "fetch" /\ step' = "name"
        /\ UNCHANGED <<size, answer, unnamed, outcome>>
    BY <1>13 DEF Queries!EnumModules
  <2>3. /\ answer = <<>> /\ unnamed = 0 /\ outcome = "none" /\ Accounted(size)
        /\ answer \in Seq(Module)
    BY <1>1, <1>8, <2>2 DEF ModulesInv
  <2>4. handles' \in Seq(Module \cup {Queries!Garbage}) /\ Len(handles') = Len(all)
    BY <1>2, <2>1, <2>2
  <2>5. Accounted(Len(answer) + unnamed + Len(handles'))
    BY <1>2, <1>10, <2>1, <2>3, <2>4
  <2>6. CASE Cardinality(modules) <= size
    <3>1. \A j \in 1 .. Len(all) : handles'[j] = all[j] /\ all[j] \in Module
      BY <1>2, <2>1, <2>2, <2>6
    <3>2. Apart(handles') /\ Apart(answer')
      BY <2>1, <2>2, <2>3, <2>4, <3>1 DEF Apart
    <3>3. Divided'
      BY <2>2, <2>3, <2>4, <3>1, <3>2 DEF Divided
    <3>. QED  BY <1>1, <1>4, <1>9, <2>2, <2>3, <2>4, <2>5, <3>3 DEF ModulesInv, Accounted
  <2>7. CASE ~ (Cardinality(modules) <= size)
    <3>1. size < Cardinality(modules)
      BY <1>2, <2>7
    <3>2. Grown
      <4>1. PICK j \in known : size = Cardinality(j.modules)
        BY <2>3 DEF Accounted
      <4>2. PICK k \in known : Cardinality(modules) = Cardinality(k.modules)
        BY <1>10 DEF Accounted
      <4>3. Cardinality(j.modules) < Cardinality(k.modules)
        BY <3>1, <4>1, <4>2
      <4>. QED  BY <4>3 DEF Grown
    <3>. QED  BY <1>1, <1>4, <1>9, <2>2, <2>3, <2>4, <2>5, <3>2 DEF ModulesInv, Accounted
  <2>. QED  BY <2>6, <2>7
<1>14. ASSUME Queries!Named \/ Queries!NotNamed PROVE ModulesInv'
  <2>1. /\ step = "name" /\ handles # <<>> /\ outcome = "none"
        /\ handles \in Seq(Module \cup {Queries!Garbage}) /\ (Divided \/ Grown)
        /\ Accounted(Len(answer) + unnamed + Len(handles))
        /\ answer \in Seq(Module) /\ unnamed \in Nat
        /\ \A j \in 1 .. Len(answer) : \E k \in known : answer[j] \in k.modules
    BY <1>1, <1>8, <1>14 DEF Queries!Named, Queries!NotNamed, ModulesInv
  <2>2. step' = "name" /\ outcome' = outcome /\ handles' = Tail(handles)
    BY <1>14 DEF Queries!Named, Queries!NotNamed
  <2>3. /\ handles' \in Seq(Module \cup {Queries!Garbage})
        /\ Len(handles') = Len(handles) - 1 /\ Len(handles) \in Nat \ {0}
        /\ Len(answer) \in Nat
        /\ \A j \in 1 .. Len(handles) - 1 : handles'[j] = handles[j + 1]
        /\ Head(handles) = handles[1]
    BY <2>1, <2>2
  <2>4. CASE Queries!Named
    <3>1. PICK m \in modules : /\ Head(handles) \in {m, Queries!Garbage}
                               /\ answer' = Append(answer, m)
      BY <2>4 DEF Queries!Named
    <3>2. unnamed' = unnamed
      BY <2>4 DEF Queries!Named
    <3>3. /\ answer' \in Seq(Module) /\ Len(answer') = Len(answer) + 1
          /\ answer'[Len(answer) + 1] = m
          /\ \A j \in 1 .. Len(answer) : answer'[j] = answer[j]
      BY <1>2, <2>1, <3>1
    <3>4. \A j \in 1 .. Len(answer') : \E k \in known : answer'[j] \in k.modules
      <4>1. m \in Present.modules
        BY DEF Present, Queries!Existing
      <4>. QED  BY <1>7, <2>1, <2>3, <3>3, <4>1
    <3>5. ASSUME Divided PROVE Divided'
      <4>1. handles[1] = m
        <5>1. handles[1] \in Module
          BY <2>3, <3>5 DEF Divided
        <5>. QED  BY <2>3, <3>1, <5>1, QueryKinds
      <4>2. /\ Apart(handles')
            /\ \A j \in 1 .. Len(handles') :
                 /\ j + 1 \in 1 .. Len(handles) /\ handles'[j] = handles[j + 1]
                 /\ handles'[j] # m
        BY <2>1, <2>2, <3>5, <4>1, TailApart DEF Divided
      <4>3. \A i \in 1 .. Len(answer) : answer[i] # m
        <5>1. 1 \in 1 .. Len(handles)
          BY <2>3
        <5>. QED  BY <3>5, <4>1, <5>1 DEF Divided
      <4>4. \A i \in 1 .. Len(answer') :
               \/ i \in 1 .. Len(answer) /\ answer'[i] = answer[i]
               \/ i = Len(answer) + 1 /\ answer'[i] = m
        BY <2>3, <3>3
      <4>5. Apart(answer')
        BY <3>5, <4>3, <4>4 DEF Divided, Apart
      <4>6. ASSUME NEW j \in 1 .. Len(handles')
            PROVE  /\ handles'[j] \in Module
                   /\ \A i \in 1 .. Len(answer') : answer'[i] # handles'[j]
        <5>1. /\ handles[j + 1] \in Module
              /\ \A i \in 1 .. Len(answer) : answer[i] # handles[j + 1]
          BY <3>5, <4>2 DEF Divided
        <5>. QED  BY <4>2, <4>4, <5>1
      <4>. QED  BY <4>2, <4>5, <4>6 DEF Divided
    <3>6. Accounted(Len(answer') + unnamed' + Len(handles'))
      <4>1. Len(answer') + unnamed' + Len(handles')
              = Len(answer) + unnamed + Len(handles)
        BY <2>1, <2>3, <3>2, <3>3
      <4>. QED  BY <2>1, <4>1
    <3>. QED  BY <1>4, <1>9, <2>1, <2>2, <2>3, <3>2, <3>3, <3>4, <3>5, <3>6
              DEF ModulesInv, Accounted
  <2>5. CASE Queries!NotNamed
    <3>1. answer' = answer /\ unnamed' = unnamed + 1
      BY <2>5 DEF Queries!NotNamed
    <3>2. ASSUME Divided PROVE Divided'
      <4>1. \A j \in 1 .. Len(handles') :
               handles'[j] = handles[j + 1] /\ j + 1 \in 1 .. Len(handles)
        BY <2>3
      <4>2. Apart(handles')
        BY <2>3, <3>2, <4>1 DEF Divided, Apart
      <4>. QED  BY <3>1, <3>2, <4>1, <4>2 DEF Divided
    <3>3. Accounted(Len(answer') + unnamed' + Len(handles'))
      <4>1. Len(answer') + unnamed' + Len(handles')
              = Len(answer) + unnamed + Len(handles)
        BY <2>1, <2>3, <3>1
      <4>. QED  BY <2>1, <4>1
    <3>. QED  BY <1>4, <1>9, <2>1, <2>2, <2>3, <3>1, <3>2, <3>3
              DEF ModulesInv, Accounted
  <2>. QED  BY <1>14, <2>4, <2>5
<1>15. ASSUME Queries!ModulesListed PROVE ModulesInv'
  <2>1. /\ step = "name" /\ handles = <<>> /\ UNCHANGED <<answer, unnamed>>
        /\ step' = "none" /\ outcome' = "listed"
    BY <1>15 DEF Queries!ModulesListed
  <2>2. /\ answer \in Seq(Module) /\ unnamed \in Nat /\ (Divided \/ Grown)
        /\ Accounted(Len(answer) + unnamed + Len(handles))
    BY <1>1, <1>8, <2>1 DEF ModulesInv
  <2>3. Len(answer) + unnamed + Len(handles) = Len(answer) + unnamed
    <3>1. Len(handles) = 0 /\ Len(answer) \in Nat
      BY <2>1, <2>2
    <3>. QED  BY <2>2, <3>1
  <2>4. Accounted(Len(answer) + unnamed)'
    BY <1>4, <2>1, <2>2, <2>3 DEF Accounted
  <2>5. Apart(answer') \/ Grown'
    BY <1>9, <2>1, <2>2 DEF Divided
  <2>. QED  BY <1>1, <1>4, <1>8, <2>1, <2>2, <2>4, <2>5 DEF ModulesInv
<1>16. ModulesInv'
  BY <1>11, <1>12, <1>13, <1>14, <1>15
<1>. QED  BY <1>6, <1>7, <1>16 DEF QueriesInv

LEMMA StepProcesses ==
  ASSUME QueriesInv,
         \/ Queries!SnapshotFails \/ Queries!Snapshot
         \/ Queries!Walk \/ Queries!WalkEnds
  PROVE  QueriesInv'
<1>. USE DEF Queries!Return, Queries!Goto, Queries!system, Queries!local
<1>1. Asking /\ query \in Name
  BY DEF Asking, Queries!SnapshotFails, Queries!Snapshot, Queries!Walk,
         Queries!WalkEnds
<1>2. size' \in Nat
  BY DEF Queries!SnapshotFails, Queries!Snapshot, Queries!Walk, Queries!WalkEnds,
         QueriesInv, QueriesType
<1>3. /\ UNCHANGED <<query, known, processes>>
      /\ query # "modules" /\ query # "array" /\ query # "idle"
  BY <1>1, QueryKinds DEF Asking
<1>4. QueriesType' /\ KnownInv' /\ Present \in known
  BY <1>1, <1>2, <1>3, AskingKnown
<1>5. AdaptersInv' /\ ModulesInv'
  BY <1>3 DEF AdaptersInv, ModulesInv
<1>6. MaxId \in Nat
  BY QueryKinds
<1>7. CASE Queries!SnapshotFails \/ Queries!WalkEnds
  <2>1. step' = "none" /\ outcome' \in {"no snapshot", "not found"}
    BY <1>7 DEF Queries!SnapshotFails, Queries!WalkEnds
  <2>2. ProcessesInv'
    BY <1>1, <1>3, <2>1 DEF ProcessesInv
  <2>. QED  BY <1>4, <1>5, <2>2 DEF QueriesInv
<1>8. CASE Queries!Snapshot
  <2>1. /\ handles' = [j \in 1 .. MaxId |-> <<j, processes[j]>>]
        /\ step = "snapshot" /\ step' = "walk" /\ UNCHANGED outcome
    BY <1>8 DEF Queries!Snapshot, Queries!Id
  <2>2. handles' \in Seq(ProcessEntry) /\ Len(handles') = MaxId
    BY <1>6, <2>1 DEF QueriesInv, QueriesType, ProcessEntry
  <2>3. Present.processes = processes
    BY DEF Present, Queries!Existing
  <2>4. 0 \in 0 .. MaxId /\ Walked(Present, 0)'
    <3>1. Present' = Present
      BY <1>1 DEF Asking, Present, Queries!Existing
    <3>. QED  BY <1>6, <2>1, <2>2, <2>3, <3>1 DEF Walked
  <2>5. outcome = "none"
    BY <1>1, <2>1 DEF QueriesInv, ProcessesInv
  <2>6. \E k \in known : \E n \in 0 .. MaxId : Walked(k, n)'
    <3>1. PICK k : k = Present
      OBVIOUS
    <3>2. Walked(k, 0)'
      BY <1>6, <2>1, <2>2, <2>3, <3>1 DEF Walked
    <3>. QED  BY <1>4, <2>4, <3>1, <3>2
  <2>7. ProcessesInv'
    BY <1>1, <1>3, <2>1, <2>2, <2>5, <2>6 DEF ProcessesInv
  <2>. QED  BY <1>4, <1>5, <2>7 DEF QueriesInv
<1>9. CASE Queries!Walk
  <2>1. /\ step = "walk" /\ handles # <<>>
        /\ IF Head(handles)[2] = query
           THEN answer' = <<Head(handles)[1]>> /\ step' = "none" /\ outcome' = "found"
           ELSE handles' = Tail(handles) /\ step' = "walk" /\ UNCHANGED outcome
    BY <1>9 DEF Queries!Walk
  <2>2. handles \in Seq(ProcessEntry) /\ outcome = "none"
    BY <1>1, <2>1 DEF QueriesInv, ProcessesInv
  <2>3. PICK k \in known, n \in 0 .. MaxId : Walked(k, n)
    BY <1>1, <2>1 DEF QueriesInv, ProcessesInv
  <2>4. /\ Len(handles) = MaxId - n /\ Len(handles) \in Nat \ {0}
        /\ Head(handles) = handles[1] /\ Tail(handles) \in Seq(ProcessEntry)
        /\ Len(Tail(handles)) = Len(handles) - 1
        /\ \A j \in 1 .. Len(handles) - 1 : Tail(handles)[j] = handles[j + 1]
    BY <2>1, <2>2, <2>3 DEF Walked
  <2>5. /\ n + 1 \in 1 .. MaxId /\ n \in Nat /\ 1 \in 1 .. MaxId - n
        /\ handles[1] = <<n + 1, k.processes[n + 1]>>
    BY <1>6, <2>3, <2>4 DEF Walked
  <2>6. CASE k.processes[n + 1] = query
    <3>1. answer' = <<n + 1>> /\ step' = "none" /\ outcome' = "found"
      BY <2>1, <2>4, <2>5, <2>6
    <3>2. \A j \in 1 .. (n + 1) - 1 : k.processes[j] # query
      BY <2>3, <2>5 DEF Walked
    <3>3. FirstOfName(k, n + 1)'
      BY <1>3, <2>6, <3>1, <3>2 DEF FirstOfName
    <3>4. ProcessesInv'
      BY <1>1, <1>3, <2>5, <3>1, <3>3 DEF ProcessesInv
    <3>. QED  BY <1>4, <1>5, <3>4 DEF QueriesInv
  <2>7. CASE k.processes[n + 1] # query
    <3>1. handles' = Tail(handles) /\ step' = "walk" /\ outcome' = "none"
      BY <2>1, <2>2, <2>4, <2>5, <2>7
    <3>2. Walked(k, n + 1)'
      <4>1. Len(handles') = MaxId - (n + 1)
        BY <1>6, <2>4, <2>5, <3>1
      <4>2. ASSUME NEW j \in 1 .. MaxId - (n + 1)
            PROVE  handles'[j] = <<(n + 1) + j, k.processes[(n + 1) + j]>>
        <5>1. /\ j \in 1 .. Len(handles) - 1 /\ j + 1 \in 1 .. MaxId - n
              /\ n + (j + 1) = (n + 1) + j
          <6>1. MaxId \in Nat /\ n \in Nat /\ Len(handles) = MaxId - n
            BY <1>6, <2>4, <2>5
          <6>2. j \in Nat /\ 1 <= j /\ j <= MaxId - (n + 1)
            BY <6>1
          <6>. QED  BY <6>1, <6>2
        <5>2. handles[j + 1] = <<n + (j + 1), k.processes[n + (j + 1)]>>
          BY <2>3, <5>1 DEF Walked
        <5>. QED  BY <2>4, <3>1, <5>1, <5>2
      <4>3. \A j \in 1 .. n + 1 : k.processes[j] # query
        BY <2>3, <2>5, <2>7 DEF Walked
      <4>. QED  BY <1>3, <4>1, <4>2, <4>3 DEF Walked
    <3>3. ProcessesInv'
      BY <1>1, <1>3, <2>4, <2>5, <3>1, <3>2 DEF ProcessesInv
    <3>. QED  BY <1>4, <1>5, <3>3 DEF QueriesInv
  <2>. QED  BY <2>6, <2>7
<1>. QED  BY <1>7, <1>8, <1>9

(* While a helper runs the system may change; if it ends up as the helper  *)
(* knew it, it has not changed.                                            *)
LEMMA StepSystem ==
  ASSUME QueriesInv, Queries!SystemChanges
  PROVE  QueriesInv'
<1>1. /\ step # "none" /\ known' = known \cup {Present'}
      /\ UNCHANGED <<query, step, size, handles, answer, unnamed, outcome>>
  BY DEF Queries!SystemChanges, Queries!local, Present
<1>2. Present \in known /\ Present' \in known'
  BY <1>1 DEF QueriesInv, KnownInv
<1>3. QueriesType'
  <2>1. adapters' \in SUBSET Adapter /\ modules' \in SUBSET Module
    BY DEF QueriesInv, QueriesType, Queries!SystemChanges, Queries!Toggle
  <2>2. processes' \in [1 .. MaxId -> Name \cup {Queries!Nobody}]
    BY DEF QueriesInv, QueriesType, Queries!SystemChanges, Queries!Id
  <2>3. IsFiniteSet(known')
    BY <1>1, FS_AddElement DEF QueriesInv, QueriesType
  <2>. QED  BY <1>1, <2>1, <2>2, <2>3 DEF QueriesInv, QueriesType
<1>4. ASSUME Still' PROVE Still /\ UNCHANGED <<adapters, modules>>
  <2>1. Present' = Present
    BY <1>1, <1>2, <1>4 DEF Still
  <2>2. adapters' = Present'.adapters /\ modules' = Present'.modules
    BY DEF Present, Queries!Existing
  <2>3. adapters = Present.adapters /\ modules = Present.modules
    BY DEF Present, Queries!Existing
  <2>. QED  BY <1>1, <1>4, <2>1, <2>2, <2>3 DEF Still
<1>5. AdaptersInv'
  BY <1>1, <1>4 DEF QueriesInv, AdaptersInv
<1>6. /\ \A n : Accounted(n) => Accounted(n)'
      /\ (Grown => Grown') /\ (Divided => Divided')
  BY <1>1 DEF Accounted, Grown, Divided, Apart
<1>7. ModulesInv'
  <2>. SUFFICES ASSUME query = "modules" PROVE ModulesInv'
    BY <1>1 DEF ModulesInv
  <2>1. ModulesInv
    BY DEF QueriesInv
  <2>2. \A j \in 1 .. Len(answer) : \E k \in known' : answer[j] \in k.modules
    BY <1>1, <2>1 DEF ModulesInv
  <2>3. /\ Accounted(size) => Accounted(size)'
        /\ Accounted(Len(answer) + unnamed + Len(handles))
             => Accounted(Len(answer) + unnamed + Len(handles))'
        /\ Accounted(Len(answer) + unnamed) => Accounted(Len(answer) + unnamed)'
    BY <1>1, <1>6 DEF Accounted
  <2>. QED  BY <1>1, <1>6, <2>1, <2>2, <2>3 DEF ModulesInv, Apart
<1>8. ProcessesInv'
  <2>1. ProcessesInv
    BY DEF QueriesInv
  <2>2. ASSUME \E k \in known : \E n \in 0 .. MaxId : Walked(k, n)
        PROVE  (\E k \in known : \E n \in 0 .. MaxId : Walked(k, n))'
    BY <1>1, <2>2 DEF Walked
  <2>. QED  BY <1>1, <2>1, <2>2 DEF ProcessesInv
<1>. QED  BY <1>2, <1>3, <1>5, <1>7, <1>8 DEF QueriesInv, KnownInv

LEMMA StepQueries == QueriesInv /\ [Queries!Next]_queriesVars => QueriesInv'
<1>. SUFFICES ASSUME QueriesInv, [Queries!Next]_queriesVars PROVE QueriesInv'
  OBVIOUS
<1>1. CASE UNCHANGED queriesVars
  <2>1. Present' = Present
    BY <1>1 DEF queriesVars, Present, Queries!Existing
  <2>2. QueriesType' /\ KnownInv'
    BY <1>1, <2>1 DEF queriesVars, QueriesInv, QueriesType, KnownInv
  <2>3. Still' <=> Still
    BY <1>1, <2>1 DEF queriesVars, Still
  <2>4. AdaptersInv'
    BY <1>1, <2>3 DEF queriesVars, QueriesInv, AdaptersInv
  <2>5. (Divided' <=> Divided) /\ (Grown' <=> Grown)
    BY <1>1 DEF queriesVars, Divided, Grown, Apart
  <2>6. ModulesInv'
    BY <1>1, <2>5 DEF queriesVars, QueriesInv, ModulesInv, Accounted, Apart
  <2>7. ProcessesInv'
    BY <1>1 DEF queriesVars, QueriesInv, ProcessesInv, Walked, FirstOfName
  <2>. QED  BY <2>2, <2>4, <2>6, <2>7 DEF QueriesInv
<1>2. ASSUME NEW kind \in {"vector", "array"}, Queries!GetAdapters(kind)
      PROVE  QueriesInv'
  BY <1>2, StepBegin DEF Queries!GetAdapters
<1>3. CASE Queries!GetModules
  BY <1>3, StepBegin DEF Queries!GetModules
<1>4. ASSUME NEW n \in Name, Queries!FindProcess(n) PROVE QueriesInv'
  BY <1>4, StepBegin DEF Queries!FindProcess
<1>5. CASE Queries!Helper
  BY <1>5, StepAdapters, StepModules, StepProcesses DEF Queries!Helper
<1>6. CASE Queries!SystemChanges
  BY <1>6, StepSystem
<1>. QED  BY <1>1, <1>2, <1>3, <1>4, <1>5, <1>6 DEF Queries!Next

LEMMA InitQueries == Queries!Init => QueriesInv
<1>. SUFFICES ASSUME Queries!Init PROVE QueriesInv
  OBVIOUS
<1>1. QueriesType
  BY FS_EmptySet DEF Queries!Init, QueriesType, Queries!Id
<1>2. KnownInv /\ AdaptersInv /\ ModulesInv /\ ProcessesInv
  BY QueryKinds DEF Queries!Init, KnownInv, AdaptersInv, ModulesInv, ProcessesInv
<1>. QED  BY <1>1, <1>2 DEF QueriesInv

(* What a helper answers was so during its call: all the adapters of one   *)
(* moment, or more than the array has places; modules that were there, as  *)
(* many as there were at a moment less those without a name, and none      *)
(* twice unless there were more at one moment than at another; the first   *)
(* process of the name that was asked for.  However the system changes     *)
(* between the calls that ask for a size and for the contents              *)
(* (MachineOper.cpp:128, 143-178, ProcessOper.cpp:90-119 and 140-157).     *)
THEOREM AnswersTrue == Queries!Spec => []AnswersOfTheCall
<1>1. Queries!Spec => Queries!Init /\ [][Queries!Next]_queriesVars
  <2>1. [Queries!Next]_(Queries!vars) => [Queries!Next]_queriesVars
    BY DEF Queries!vars, Queries!system, Queries!local, queriesVars
  <2>. QED  BY <2>1, PTL DEF Queries!Spec
<1>2. QueriesInv => AnswersOfTheCall
  <2>. SUFFICES ASSUME QueriesInv PROVE AnswersOfTheCall
    OBVIOUS
  <2>1. Queries!Quiet => Still
    <3>1. Cardinality(known) = 1 => \E x : known = {x}
      BY FS_Singleton DEF QueriesInv, QueriesType
    <3>2. known = {} => Still
      BY DEF Still
    <3>3. Present \in known => (Queries!Quiet => Still)
      BY <3>1, SameCardinality DEF Queries!Quiet, Still
    <3>. QED  BY <3>2, <3>3 DEF QueriesInv, KnownInv
  <2>2. Queries!AdaptersOfOneMoment
    <3>. SUFFICES ASSUME query = "array", step = "none"
                  PROVE  Queries!AdaptersOfOneMoment
      BY DEF Queries!AdaptersOfOneMoment
    <3>1. Present \in known /\ Present.adapters = adapters
      BY DEF QueriesInv, KnownInv, Present, Queries!Existing
    <3>. QED  BY <2>1, <3>1, SameCardinality
              DEF QueriesInv, AdaptersInv, Queries!AdaptersOfOneMoment
  <2>3. Queries!ModulesWereThere
    <3>. SUFFICES ASSUME query = "modules" PROVE Queries!ModulesWereThere
      BY DEF Queries!ModulesWereThere
    <3>1. /\ answer \in Seq(Module) /\ DOMAIN answer = 1 .. Len(answer)
          /\ \A j \in 1 .. Len(answer) : \E k \in known : answer[j] \in k.modules
      BY DEF QueriesInv, ModulesInv
    <3>2. ASSUME outcome = "listed"
          PROVE  \E k \in known :
                   Len(answer) + unnamed = Queries!Cardinality(k.modules)
      BY <3>2, SameCardinality DEF QueriesInv, ModulesInv, Accounted
    <3>3. \/ Queries!IsInjective(answer)
          \/ \E j, k \in known :
               Queries!Cardinality(j.modules) < Queries!Cardinality(k.modules)
      <4>1. Apart(answer) \/ Grown
        BY DEF QueriesInv, ModulesInv, Divided, Apart
      <4>. QED  BY <3>1, <4>1, SameCardinality DEF Apart, Grown, Queries!IsInjective
    <3>. QED  BY <3>1, <3>2, <3>3 DEF Queries!ModulesWereThere
  <2>4. Queries!IdWasThere
    <3>. SUFFICES ASSUME outcome = "found"
                  PROVE  \E k \in known :
                           /\ k.processes[answer[1]] = query
                           /\ \A j \in 1 .. answer[1] - 1 : k.processes[j] # query
      BY DEF Queries!IdWasThere
    <3>1. PICK k \in known, n \in 1 .. MaxId : FirstOfName(k, n)
      BY DEF QueriesInv, ProcessesInv
    <3>2. answer[1] = n
      BY <3>1 DEF FirstOfName
    <3>. QED  BY <3>1, <3>2 DEF FirstOfName
  <2>. QED  BY <2>2, <2>3, <2>4 DEF AnswersOfTheCall, Queries!AnswersOfTheCall
<1>. QED  BY <1>1, <1>2, InitQueries, StepQueries, PTL
=============================================================================
