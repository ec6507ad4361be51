---------------------------- MODULE RollingFile ----------------------------
(***************************************************************************)
(* The logger that fplogInit sets up: the threads of a process write their *)
(* records, one at a time, to the process's RollingFileAppender, which     *)
(* keeps a log file and numbered backups of it.  Several processes may be  *)
(* given the same file, other programs may be looking at the files, and a  *)
(* process may be ended at any step and started again.                     *)
(***************************************************************************)
EXTENDS Integers, Sequences, SequencesExt, FiniteSets

CONSTANTS
  Processes, Threads,
  None,           \* no thread
  Process,        \* the process each thread belongs to
  MaxSize,        \* m_maxFileSize, in records; the header counts as one
  MaxFiles,       \* m_maxFiles: 0 never rolls
  Viewable,       \* the files that other programs may open
  MaxRecords,     \* bound: the records of each thread
  MaxInits,       \* bound: the calls of fplogInit in a life of a process
  MaxCrashes      \* bound: the processes ended in all

ASSUME RollingFileConstants ==
  /\ None \notin Threads
  /\ Process \in [Threads -> Processes]
  /\ MaxSize \in Nat \ {0} /\ MaxFiles \in Nat
  /\ MaxRecords \in [Threads -> Nat]
  /\ MaxInits \in Nat /\ MaxCrashes \in Nat
  /\ Viewable \subseteq Nat

(* buildFileName: file 0 is the log, file n its n-th backup.               *)
LastFile == IF MaxFiles > 1 THEN MaxFiles - 1 ELSE 0
FileNumber == 0 .. LastFile

Record == UNION {{t} \X (1 .. MaxRecords[t]) : t \in Threads}
Header == <<"header", 0>>
Absent == <<<<"absent", 0>>>>

VARIABLES
  files,      \* the contents of each file, or Absent
  viewed,     \* the files another program has open
  listed,     \* per process: how often m_appenders names the appender
  firstWrite, \* m_firstWrite
  handle,     \* m_file: whether the process has file 0 open
  fileSize,   \* m_fileSize
  holder,     \* the thread that owns m_mutex
  pc,         \* where each thread is
  sent,       \* the records each thread has begun to write
  round,      \* how often the current record has still to be written
  number,     \* fileNumber of the loop in rollLogFiles
  crashes

disk == <<files, viewed>>
appender == <<firstWrite, handle, fileSize>>
vars == <<disk, listed, appender, holder, pc, sent, round, number, crashes>>

Init ==
  /\ files = [n \in FileNumber |-> Absent]
  /\ viewed = {}
  /\ listed = [p \in Processes |-> 0]
  /\ firstWrite = [p \in Processes |-> TRUE]
  /\ handle = [p \in Processes |-> FALSE]
  /\ fileSize = [p \in Processes |-> 0]
  /\ holder = [p \in Processes |-> None]
  /\ pc = [t \in Threads |-> "idle"]
  /\ sent = [t \in Threads |-> 0]
  /\ round = [t \in Threads |-> 0]
  /\ number = [t \in Threads |-> 0]
  /\ crashes = 0

Goto(t, step) == pc' = [pc EXCEPT ![t] = step]

Exists(n) == files[n] # Absent

(* A file that is open, here or elsewhere, is not opened for deletion.     *)
InUse(n) == n \in viewed \/ (n = 0 /\ \E p \in Processes : handle[p])

----------------------------------------------------------------------------
(* Setting up, while no thread of the process is logging.  The appender is *)
(* static: a later call lists the same one again, and the file name it is  *)
(* given is ignored.                                                       *)
fplogInit(p) ==
  /\ listed[p] < MaxInits
  /\ \A t \in Threads : Process[t] = p => pc[t] = "idle"
  /\ listed' = [listed EXCEPT ![p] = @ + 1]
  /\ UNCHANGED <<disk, appender, holder, pc, sent, round, number, crashes>>

(* Logger::operator+= gives the record, one the level lets through, to     *)
(* every appender it lists; without a logger it is not written at all.     *)
Log(t) ==
  /\ pc[t] = "idle" /\ listed[Process[t]] > 0
  /\ sent[t] < MaxRecords[t]
  /\ sent' = [sent EXCEPT ![t] = @ + 1]
  /\ round' = [round EXCEPT ![t] = listed[Process[t]]]
  /\ Goto(t, "enter")
  /\ UNCHANGED <<disk, listed, appender, holder, number, crashes>>

----------------------------------------------------------------------------
(* RollingFileAppender::write, by thread t of process p.                   *)

(* The size alone decides: -1, a log that is not open, is never rolled.    *)
Enter(t, p) ==
  /\ pc[t] = "enter"
  /\ holder[p] = None
  /\ holder' = [holder EXCEPT ![p] = t]
  /\ Goto(t, IF firstWrite[p] THEN "open"
             ELSE IF MaxFiles > 0 /\ fileSize[p] > MaxSize THEN "close"
             ELSE "write")
  /\ UNCHANGED <<disk, listed, appender, sent, round, number, crashes>>

Close(t, p) ==
  /\ pc[t] = "close"
  /\ handle' = [handle EXCEPT ![p] = FALSE]
  /\ Goto(t, "unlink")
  /\ UNCHANGED <<disk, listed, firstWrite, fileSize, holder, sent, round,
                 number, crashes>>

(* Mutant: the newest backup is deleted.                                   *)
UnlinkMutant(t, p) ==
  /\ pc[t] = "unlink"
  /\ files' = IF InUse(1) THEN files ELSE [files EXCEPT ![1] = Absent]
  /\ number' = [number EXCEPT ![t] = MaxFiles - 2]
  /\ Goto(t, IF MaxFiles - 2 >= 0 THEN "rename" ELSE "open")
  /\ UNCHANGED <<viewed, listed, appender, holder, sent, round, crashes>>

Unlink(t, p) ==
  /\ pc[t] = "unlink"
  /\ files' = IF InUse(LastFile) THEN files ELSE [files EXCEPT ![LastFile] = Absent]
  /\ number' = [number EXCEPT ![t] = MaxFiles - 2]
  /\ Goto(t, IF MaxFiles - 2 >= 0 THEN "rename" ELSE "open")
  /\ UNCHANGED <<viewed, listed, appender, holder, sent, round, crashes>>

(* MoveFileW replaces nothing; that it failed is not noticed.              *)
Rename(t, p) ==
  LET n == number[t] IN
  /\ pc[t] = "rename"
  /\ files' = IF Exists(n) /\ ~Exists(n + 1) /\ ~InUse(n)
              THEN [files EXCEPT ![n + 1] = files[n], ![n] = Absent]
              ELSE files
  /\ number' = [number EXCEPT ![t] = n - 1]
  /\ Goto(t, IF n > 0 THEN "rename" ELSE "open")
  /\ UNCHANGED <<viewed, listed, appender, holder, sent, round, crashes>>

(* Mutant: the log is shared for writing too.                              *)
MayOpenMutant == TRUE

(* _SH_DENYWR: a log that is open for writing is not opened a second time. *)
MayOpen == \A q \in Processes : ~handle[q]

Opened(t, p) ==
  LET log == IF Exists(0) THEN files[0] ELSE <<>> IN
  /\ MayOpen
  /\ files' = [files EXCEPT ![0] = log]
  /\ handle' = [handle EXCEPT ![p] = TRUE]
  /\ fileSize' = [fileSize EXCEPT ![p] = Len(log)]
  /\ Goto(t, IF log = <<>> THEN "header" ELSE "write")

(* Another program that does not share the log for writing keeps it shut.  *)
OpenFailed(t, p) ==
  /\ ~MayOpen \/ 0 \in viewed
  /\ fileSize' = [fileSize EXCEPT ![p] = -1]
  /\ Goto(t, "write")
  /\ UNCHANGED <<files, handle>>

Open(t, p) ==
  /\ pc[t] = "open"
  /\ Opened(t, p) \/ OpenFailed(t, p)
  /\ firstWrite' = [firstWrite EXCEPT ![p] = FALSE]
  /\ UNCHANGED <<viewed, listed, holder, sent, round, number, crashes>>

WriteHeader(t, p) ==
  /\ pc[t] = "header"
  /\ files' = [files EXCEPT ![0] = Append(@, Header)]
  /\ fileSize' = [fileSize EXCEPT ![p] = @ + 1]
  /\ Goto(t, "write")
  /\ UNCHANGED <<viewed, listed, firstWrite, handle, holder, sent, round,
                 number, crashes>>

(* The record goes behind what this handle has written, for each handle    *)
(* has a position of its own; without a handle it is dropped.              *)
Write(t, p) ==
  /\ pc[t] = "write"
  /\ IF handle[p]
     THEN /\ files' = [files EXCEPT
                         ![0] = Append(SubSeq(@, 1, fileSize[p]), <<t, sent[t]>>)
                                \o SubSeq(@, fileSize[p] + 2, Len(@))]
          /\ fileSize' = [fileSize EXCEPT ![p] = @ + 1]
     ELSE UNCHANGED <<files, fileSize>>
  /\ holder' = [holder EXCEPT ![p] = None]
  /\ round' = [round EXCEPT ![t] = @ - 1]
  /\ Goto(t, IF round[t] > 1 THEN "enter" ELSE "idle")
  /\ UNCHANGED <<viewed, listed, firstWrite, handle, sent, number, crashes>>

----------------------------------------------------------------------------
(* The surroundings.                                                       *)

View(n) ==
  /\ n \in Viewable \ viewed /\ Exists(n)
  /\ viewed' = viewed \union {n}
  /\ UNCHANGED <<files, listed, appender, holder, pc, sent, round, number,
                 crashes>>

LookAway(n) ==
  /\ n \in viewed
  /\ viewed' = viewed \ {n}
  /\ UNCHANGED <<files, listed, appender, holder, pc, sent, round, number,
                 crashes>>

Own(p) == {t \in Threads : Process[t] = p}

(* The process ends and is started anew.                                   *)
Crash(p) ==
  /\ crashes < MaxCrashes /\ listed[p] > 0
  /\ crashes' = crashes + 1
  /\ listed' = [listed EXCEPT ![p] = 0]
  /\ firstWrite' = [firstWrite EXCEPT ![p] = TRUE]
  /\ handle' = [handle EXCEPT ![p] = FALSE]
  /\ fileSize' = [fileSize EXCEPT ![p] = 0]
  /\ holder' = [holder EXCEPT ![p] = None]
  /\ pc' = [t \in Threads |-> IF t \in Own(p) THEN "idle" ELSE pc[t]]
  /\ round' = [t \in Threads |-> IF t \in Own(p) THEN 0 ELSE round[t]]
  /\ UNCHANGED <<disk, sent, number>>

----------------------------------------------------------------------------

Step(t) ==
  LET p == Process[t] IN
  \/ Enter(t, p) \/ Close(t, p) \/ Unlink(t, p) \/ Rename(t, p)
  \/ Open(t, p) \/ WriteHeader(t, p) \/ Write(t, p)

Next ==
  \/ \E t \in Threads : Log(t) \/ Step(t)
  \/ \E p \in Processes : fplogInit(p) \/ Crash(p)
  \/ \E n \in FileNumber : View(n) \/ LookAway(n)

Spec == Init /\ [][Next]_vars /\ \A t \in Threads : WF_vars(Step(t))

----------------------------------------------------------------------------
(* Properties.                                                             *)

(* Of all the processes that log to the same file at most one has it open, *)
(* and it knows the file's length: nothing is written over                 *)
(* (RollingFileAppender.h:47-52, 77-78, Util.h:264-274).                   *)
OneWriter ==
  /\ \A p, q \in Processes : handle[p] /\ handle[q] => p = q
  /\ \A p \in Processes :
       handle[p] => Exists(0) /\ fileSize[p] = Len(files[0])

(* The records on disk, from the oldest backup to the log; in each file    *)
(* they stand behind the header.                                           *)
Records(n) ==
  IF Exists(n) /\ files[n] # <<>> THEN Tail(files[n]) ELSE <<>>

Kept == FlattenSeq([n \in 1 .. LastFile + 1 |-> Records(LastFile + 1 - n)])

Promise == INSTANCE RollingLog WITH kept <- Kept

(* However the threads, processes, viewers, failed renames and crashes     *)
(* fall, the files read from the oldest backup to the log are the records  *)
(* in the order they were written, less some of the oldest                 *)
(* (RollingFileAppender.h:55-72).                                          *)
OnlyOldestLost == Promise!Spec

(* Every file that holds anything begins with the header and has no other, *)
(* also after a process was ended between opening the log and writing it   *)
(* (RollingFileAppender.h:77-88).                                          *)
HeaderFirst ==
  \A n \in FileNumber :
    Exists(n) /\ files[n] # <<>> =>
      /\ files[n][1] = Header
      /\ \A i \in 2 .. Len(files[n]) : files[n][i] # Header

(* One process writes at a time, and what it leaves is a log.             *)
LogFilesRight == OneWriter /\ HeaderFirst
=============================================================================
