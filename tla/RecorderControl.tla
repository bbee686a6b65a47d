--------------------------- MODULE RecorderControl ---------------------------
(***************************************************************************)
(* The control of recordings in the studio recorder, over several          *)
(* recordings: Start and Stop in the ORB's thread (IngexRecorderImpl), the *)
(* record threads of a recording and the thread that waits for them        *)
(* (IngexRecorder, manage_record_thread), and the copy manager, which each *)
(* of those threads uses, without a lock, to tell the transfer server that *)
(* a recording begins or has ended.  Of the server, only the traffic       *)
(* control that the messages switch is here; see TransferServer.           *)
(*                                                                         *)
(* A message is sent by a client process; the next use of the copy manager *)
(* ends a client that is still running, and its message with it.           *)
(***************************************************************************)
EXTENDS Integers, FiniteSets

CONSTANTS
    MaxRecordings,  \* bound: calls of Start
    NumThreads,     \* record threads of a recording
    Notable         \* what a record thread may note: a failure, dropped frames

ASSUME RecordingsAssumption == MaxRecordings \in Nat \ {0}
ASSUME ThreadsAssumption == NumThreads \in Nat \ {0}
ASSUME NotableAssumption == Notable \subseteq {"dropped", "failure"}

VARIABLES
    \* shared, without a lock
    mpIngexRecorder,    \* the recording in progress, or 0
    mRecording,
    mRecordingIndex,
    mPid, mArgs,
    \* per thread: 0 is the ORB's, r the manage thread of recording r
    pc, held, call,
    \* per recording
    running,            \* record threads that have not ended
    target,             \* a target duration has been set
    noted,              \* the worst of what its record threads noted, which
                        \* stands for mRecordingOK and mDroppedFrames
    status,             \* what was reported of it on completion
    \* client processes, and the server
    clients, events, limit,
    \* for the properties
    alive,              \* recordings not deleted
    copied,             \* recordings complete when the server was asked to copy
    lost,               \* recordings whose end a client did not get to tell
    overlapped,         \* two threads were in the copy manager at once
    misled              \* a pointer to another recording was cleared

shared == <<mpIngexRecorder, mRecording, mRecordingIndex>>
copyManager == <<mPid, mArgs, clients>>
recordings == <<running, target, noted, status, alive>>
server == <<events, limit, copied>>
history == <<lost, overlapped, misled>>
vars == <<shared, copyManager, recordings, server, pc, held, call, history>>

Recordings == 1 .. MaxRecordings
ORB == 0
Threads == {ORB} \cup Recordings

\* A message names a recording; one with pairs of directories to copy says
\* that the recording has ended, one without that it starts.
Messages == [index : 0 .. MaxRecordings, pairs : BOOLEAN]

Going(t, place) == pc' = [pc EXCEPT ![t] = place]

Init ==
    /\ mpIngexRecorder = 0
    /\ mRecording = FALSE
    /\ mRecordingIndex = 1
    \* RecorderImpl::Init has called StartCopying(0)
    /\ clients = {[pid |-> 1, message |-> [index |-> 0, pairs |-> TRUE]]}
    /\ mPid = 1
    /\ mArgs = TRUE
    /\ pc = [t \in Threads |-> IF t = ORB THEN "idle" ELSE "none"]
    /\ held = 0
    /\ call = "none"
    /\ running = [r \in Recordings |-> 0]
    /\ target = [r \in Recordings |-> FALSE]
    /\ noted = [r \in Recordings |-> "nothing"]
    /\ status = [r \in Recordings |-> "none"]
    /\ events = {}
    /\ limit = FALSE
    /\ alive = {}
    /\ copied = {}
    /\ lost = {}
    /\ overlapped = FALSE
    /\ misled = FALSE

-----------------------------------------------------------------------------
(* Start and Stop, in the ORB's thread *)

CallStartAtOnce ==      \* mutant: does not stop what is going on
    /\ pc[ORB] = "idle"
    /\ mRecordingIndex <= MaxRecordings
    /\ call' = "start"
    /\ Going(ORB, "newIndex")
    /\ UNCHANGED <<shared, copyManager, recordings, server, held, history>>

\* Start, stopping first what mRecording says is going on
CallStart ==
    /\ pc[ORB] = "idle"
    /\ mRecordingIndex <= MaxRecordings
    /\ call' = "start"
    /\ Going(ORB, IF mRecording THEN "testPointer" ELSE "newIndex")
    /\ UNCHANGED <<shared, copyManager, recordings, server, held, history>>

CallStop ==
    /\ pc[ORB] = "idle"
    /\ call' = "stop"
    /\ Going(ORB, "testPointer")
    /\ UNCHANGED <<shared, copyManager, recordings, server, held, history>>

\* if (mpIngexRecorder), in Stop and in DoStop
TestPointer ==
    /\ pc[ORB] = "testPointer"
    /\ held' = mpIngexRecorder
    /\ Going(ORB, IF mpIngexRecorder = 0 THEN "clearPointer" ELSE "stopRecording")
    /\ UNCHANGED <<shared, copyManager, recordings, server, call, history>>

\* IngexRecorder::Stop sets the target duration, at least 1
StopRecording ==
    /\ pc[ORB] = "stopRecording"
    /\ target' = [target EXCEPT ![held] = TRUE]
    /\ Going(ORB, IF call = "stop" THEN "readNames" ELSE "clearPointer")
    /\ UNCHANGED <<shared, copyManager, server, running, noted, status, alive, held, call, history>>

\* Stop returns the file names, which are members of the recording
ReadNames ==
    /\ pc[ORB] = "readNames"
    /\ Going(ORB, "clearPointer")
    /\ UNCHANGED <<shared, copyManager, recordings, server, held, call, history>>

ClearPointer ==
    /\ pc[ORB] = "clearPointer"
    /\ mpIngexRecorder' = 0
    /\ mRecording' = FALSE
    /\ held' = 0
    /\ IF call = "stop"
       THEN Going(ORB, "idle") /\ call' = "none"
       ELSE Going(ORB, "newIndex") /\ UNCHANGED call
    /\ UNCHANGED <<mRecordingIndex, copyManager, recordings, server, history>>

\* Start takes an index and goes into CopyManager::StopCopying
NewIndex ==
    /\ pc[ORB] = "newIndex"
    /\ mRecordingIndex' = mRecordingIndex + 1
    /\ held' = mRecordingIndex
    /\ Going(ORB, "stopProcess")
    /\ UNCHANGED <<mpIngexRecorder, mRecording, copyManager, recordings, server, call, history>>

\* The new recording; the start timecode may not be found, or this is a test
NewRecording ==
    /\ pc[ORB] = "newRecording"
    /\ mpIngexRecorder' = held
    /\ alive' = alive \cup {held}
    /\ \/ Going(ORB, "startThreads") /\ UNCHANGED call
       \/ Going(ORB, "discard") /\ call' = "discard"
    /\ UNCHANGED <<mRecording, mRecordingIndex, copyManager, running, target, noted, status, server, held, history>>

\* IngexRecorder::Start: any of the record threads may fail to start, and so
\* may the manage thread, which is only tried when a record thread runs
StartThreads ==
    /\ pc[ORB] = "startThreads"
    /\ \E n \in 0 .. NumThreads, managed \in BOOLEAN :
          /\ running' = [running EXCEPT ![held] = n]
          /\ pc' = [pc EXCEPT ![ORB] = "noteRecording",
                              ![held] = IF n > 0 /\ managed THEN "join" ELSE @]
          /\ call' = IF n = 0 THEN "discard" ELSE call
    /\ UNCHANGED <<shared, copyManager, target, noted, status, alive, server, held, history>>

\* mRecording is set even if no thread could be started
NoteRecording ==
    /\ pc[ORB] = "noteRecording"
    /\ mRecording' = TRUE
    /\ IF call = "discard"
       THEN Going(ORB, "discard") /\ UNCHANGED <<held, call>>
       ELSE Going(ORB, "idle") /\ held' = 0 /\ call' = "none"
    /\ UNCHANGED <<mpIngexRecorder, mRecordingIndex, copyManager, recordings, server, history>>

\* delete mpIngexRecorder, then StartCopying
Discard ==
    /\ pc[ORB] = "discard"
    /\ alive' = alive \ {mpIngexRecorder}
    /\ mpIngexRecorder' = 0
    /\ Going(ORB, "clearArgs")
    /\ UNCHANGED <<mRecording, mRecordingIndex, copyManager, running, target, noted, status, server, held, call, history>>

-----------------------------------------------------------------------------
(* Record threads, and the manage thread *)

Notes == {"nothing", "dropped", "failure"}
Worst(a, b) == CASE "failure" \in {a, b} -> "failure"
                 [] {a, b} = {"nothing"}  -> "nothing"
                 [] OTHER                 -> "dropped"

\* A record thread ends, at the target duration or because it cannot go on
EndThread(r) ==
    /\ running[r] > 0
    /\ running' = [running EXCEPT ![r] = @ - 1]
    /\ \E note \in Notable \cup {"nothing"} : noted' = [noted EXCEPT ![r] = Worst(@, note)]
    /\ UNCHANGED <<shared, copyManager, target, status, alive, server, pc, held, call, history>>

\* A failure is told of rather than dropped frames.
Reported(r) == CASE noted[r] = "failure" -> "failed"
                 [] noted[r] = "dropped" -> "dropped frames"
                 [] noted[r] = "nothing" -> "completed ok"

JoinFirst(r) ==     \* mutant: waits for one of the threads only
    /\ pc[r] = "join"
    /\ running[r] < NumThreads
    /\ status' = [status EXCEPT ![r] = Reported(r)]
    /\ Going(r, "clearArgs")
    /\ UNCHANGED <<shared, copyManager, running, target, noted, alive, server, held, call, history>>

\* manage_record_thread has joined all threads: NotifyCompletion
JoinThreads(r) ==
    /\ pc[r] = "join"
    /\ running[r] = 0
    /\ status' = [status EXCEPT ![r] = Reported(r)]
    /\ Going(r, "clearArgs")
    /\ UNCHANGED <<shared, copyManager, running, target, noted, alive, server, held, call, history>>

CompareNothing(r) ==    \* mutant: a recording that ended by itself stays pointed to
    /\ pc[r] = "compare"
    /\ Going(r, "delete")
    /\ UNCHANGED <<shared, copyManager, recordings, server, held, call, history>>

\* if (rec == mpIngexRecorder)
ComparePointer(r) ==
    /\ pc[r] = "compare"
    /\ Going(r, IF mpIngexRecorder = r THEN "forget" ELSE "delete")
    /\ UNCHANGED <<shared, copyManager, recordings, server, held, call, history>>

\* mpIngexRecorder = 0, whatever it is by now
ForgetPointer(r) ==
    /\ pc[r] = "forget"
    /\ mpIngexRecorder' = 0
    /\ misled' = (misled \/ mpIngexRecorder \notin {0, r})
    /\ Going(r, "delete")
    /\ UNCHANGED <<mRecording, mRecordingIndex, copyManager, recordings, server, held, call, lost, overlapped>>

\* delete rec, in recording_completed
DeleteRecording(r) ==
    /\ pc[r] = "delete"
    /\ alive' = alive \ {r}
    /\ Going(r, "gone")
    /\ UNCHANGED <<shared, copyManager, running, target, noted, status, server, held, call, history>>

-----------------------------------------------------------------------------
(* CopyManager, in any of the threads *)

InCopyManager(t) ==
    pc[t] \in {"clearArgs", "addArgs", "stopProcess", "terminate", "spawn"}

Running(pid) == \E c \in clients : c.pid = pid

\* What thread t tells the server: IngexRecorderImpl::StartCopying gives the
\* pairs in mArgs, StopCopying none
MessageOf(t) ==
    IF t = ORB THEN [index |-> held, pairs |-> call = "discard" /\ mArgs]
    ELSE [index |-> t, pairs |-> mArgs]

ClearSrcDest(t) ==
    /\ pc[t] = "clearArgs"
    /\ mArgs' = FALSE
    /\ Going(t, "addArgs")
    /\ UNCHANGED <<shared, mPid, clients, recordings, server, held, call, history>>

AddSrcDestEmpty(t) ==   \* mutant: the pair has no destination
    /\ pc[t] = "addArgs"
    /\ Going(t, "stopProcess")
    /\ UNCHANGED <<shared, copyManager, recordings, server, held, call, history>>

AddSrcDest(t) ==
    /\ pc[t] = "addArgs"
    /\ mArgs' = TRUE
    /\ Going(t, "stopProcess")
    /\ UNCHANGED <<shared, mPid, clients, recordings, server, held, call, history>>

\* A client that has exited is reaped
StopProcess(t) ==
    /\ pc[t] = "stopProcess"
    /\ IF mPid = 0 \/ ~Running(mPid)
       THEN mPid' = 0 /\ Going(t, "spawn")
       ELSE Going(t, "terminate") /\ UNCHANGED mPid
    /\ UNCHANGED <<shared, mArgs, clients, recordings, server, held, call, history>>

TerminateNone(t) ==     \* mutant: the old client is left alone
    /\ pc[t] = "terminate"
    /\ mPid' = mPid
    /\ Going(t, "spawn")
    /\ UNCHANGED <<shared, mArgs, clients, recordings, server, held, call, history>>

\* One that is still running is sent SIGINT, and reaped if it dies soon
Terminate(t) ==
    /\ pc[t] = "terminate"
    /\ clients' = {c \in clients : c.pid # mPid}
    /\ lost' = lost \cup {c.message.index : c \in {d \in clients \ clients' : d.message.pairs}}
    /\ mPid' \in {0, mPid}
    /\ Going(t, "spawn")
    /\ UNCHANGED <<shared, mArgs, recordings, server, held, call, overlapped, misled>>

FreePid == CHOOSE p \in 1 .. 2 * MaxRecordings + 2 :
    /\ p # mPid /\ ~Running(p)
    /\ \A q \in 1 .. p - 1 : q = mPid \/ Running(q)

\* The command line is made and a client spawned with it
Spawn(t) ==
    /\ pc[t] = "spawn"
    /\ clients' = clients \cup {[pid |-> FreePid, message |-> MessageOf(t)]}
    /\ mPid' = FreePid
    /\ overlapped' = (overlapped \/ \E u \in Threads \ {t} : InCopyManager(u))
    /\ IF t # ORB THEN Going(t, "compare") /\ UNCHANGED <<held, call>>
       ELSE IF call = "discard"
            THEN Going(t, "idle") /\ held' = 0 /\ call' = "none"
            ELSE Going(t, "newRecording") /\ UNCHANGED <<held, call>>
    /\ UNCHANGED <<shared, mArgs, recordings, server, lost, misled>>

-----------------------------------------------------------------------------
(* The transfer server: serveClient *)

\* Recordings whose files are complete when the server is told to copy
Complete == {r \in Recordings : status[r] # "none"}

EndEventLimited(c) ==   \* mutant: the control is not switched off with the last event
    /\ c.message.pairs
    /\ events' = IF c.message.index = 0 THEN {} ELSE events \ {c.message.index}
    /\ limit' = limit
    /\ copied' = copied \cup Complete

EndEvent(c) ==
    /\ c.message.pairs
    /\ events' = IF c.message.index = 0 THEN {} ELSE events \ {c.message.index}
    /\ limit' = (limit /\ events' # {})
    /\ copied' = copied \cup Complete

StartEvent(c) ==
    /\ ~c.message.pairs
    /\ events' = events \cup {c.message.index}
    /\ limit' = TRUE
    /\ UNCHANGED copied

ServeClient(c) ==
    /\ EndEvent(c) \/ StartEvent(c)
    /\ clients' = clients \ {c}
    /\ UNCHANGED <<shared, mPid, mArgs, recordings, pc, held, call, history>>

-----------------------------------------------------------------------------
UseCopyManager(t) ==
    \/ ClearSrcDest(t) \/ AddSrcDest(t) \/ StopProcess(t) \/ Terminate(t)
    \/ Spawn(t)

FinishCall ==
    \/ TestPointer \/ StopRecording \/ ReadNames \/ ClearPointer \/ NewIndex
    \/ NewRecording \/ StartThreads \/ NoteRecording \/ Discard

Manage(r) ==
    \/ JoinThreads(r) \/ ComparePointer(r) \/ ForgetPointer(r) \/ DeleteRecording(r)

Next ==
    \/ CallStart \/ CallStop \/ FinishCall
    \/ \E r \in Recordings : EndThread(r) \/ Manage(r)
    \/ \E t \in Threads : UseCopyManager(t)
    \/ \E c \in clients : ServeClient(c)

\* Threads that have begun something and client processes go on; nobody has
\* to call Stop, and no recording has to end.
Fairness ==
    /\ WF_vars(FinishCall \/ UseCopyManager(ORB))
    /\ \A r \in Recordings : WF_vars(Manage(r) \/ UseCopyManager(r))
    /\ WF_vars(\E c \in clients : ServeClient(c))

Spec == Init /\ [][Next]_vars /\ Fairness

-----------------------------------------------------------------------------
(* Properties *)

\* The threads' places, and the values of what they share.
TypeOK ==
    /\ mpIngexRecorder \in 0 .. MaxRecordings
    /\ mRecording \in BOOLEAN
    /\ mRecordingIndex \in 1 .. MaxRecordings + 1
    /\ mPid \in Nat
    /\ mArgs \in BOOLEAN
    /\ \A c \in clients : c.pid \in Nat \ {0} /\ c.message \in Messages
    /\ \A c, d \in clients : c.pid = d.pid => c = d
    /\ held \in 0 .. MaxRecordings
    /\ call \in {"none", "start", "stop", "discard"}
    /\ running \in [Recordings -> 0 .. NumThreads]
    /\ target \in [Recordings -> BOOLEAN]
    /\ noted \in [Recordings -> Notes]
    /\ status \in [Recordings -> {"none", "completed ok", "dropped frames", "failed"}]
    /\ events \subseteq 0 .. MaxRecordings
    /\ limit = (events # {})

\* A recording is not deleted while the control points to it between two
\* calls, nor while one of its own threads runs, whichever of them ends first
\* and whether it was stopped or ended by itself.
AliveWhileUsed ==
    /\ mpIngexRecorder # 0 => mpIngexRecorder \in alive
    /\ \A r \in Recordings : running[r] > 0 => r \in alive

\* What is reported of a recording is what all of its threads have noted, the
\* last one included.
ReportIsFinal ==
    \A r \in Recordings : status[r] # "none" =>
        running[r] = 0 /\ status[r] = Reported(r)

\* A recording that goes on without a target duration is the one that the next
\* Stop or Start reaches: Start cannot leave an earlier one running unstopped.
\* The exception is a completion that clears the pointer after it has moved on.
CurrentIsStoppable ==
    \A r \in Recordings :
        running[r] > 0 /\ ~target[r] /\ ~misled => mpIngexRecorder = r

\* When one thread at a time uses the copy manager, the server's traffic
\* control stays on for a recording that has ended only because the client
\* that was to say so was ended by the next use.
ControlEndsUnlessLost ==
    \A r \in events :
        \/ pc[r] # "gone" \/ overlapped
        \/ r \in lost
        \/ [index |-> r, pairs |-> TRUE] \in {c.message : c \in clients}

\* When no recording is left, the server is told to copy the files of every
\* one that has completed: messages may be lost, but not the last one.
FilesAreCopied ==
    \A r \in Recordings :
        (pc[r] = "gone") ~> (r \in copied \/ alive # {})

=============================================================================
