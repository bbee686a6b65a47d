--------------------------- MODULE RecordingSession ---------------------------
(***************************************************************************)
(* The control of a recording session of the archive recorder              *)
(* (archive/src/recorder: RecordingSession.cpp, Recorder.cpp): the thread  *)
(* that carries a session from READY to END, and those that ask it to --   *)
(* the web server with what the user wants, the capture's threads with a   *)
(* bad signal or a full buffer, the threads that poll the two tape         *)
(* machines.  They leave requests, which the session's thread takes one at *)
(* a time; a finished session is cleared away by whoever comes to the      *)
(* recorder next.                                                          *)
(*                                                                         *)
(* What the steps do to the disk cache is in ArchiveCache.                 *)
(***************************************************************************)
EXTENDS Integers, FiniteSets

CONSTANTS
    MaxSessions,    \* bound: sessions started
    MaxFaults       \* bound: what goes wrong or stops by itself

VARIABLES
    \* Recorder: the session, "session done", who holds the lock for writing
    session, done, writer,
    \* what the callers of Recorder are doing, and what the capture reports: of
    \* the signal, by the thread that captures, and of a full buffer, by the one
    \* that stores; whether it has reported that it records well
    call, report, overflow, recordingOK,
    \* RecordingSession
    state, result, requests, multi,
    at,             \* where the session's thread is
    diskFull,       \* it stops the recording because of the disk
    stopThread, chunking,
    \* the equipment: the tape machines seen to play or record, those in some
    \* other state they may return from, and those that stopped and the session
    \* has not been told of; the capture, and its signal
    running, away, stops, capturing, signal,
    \* bounds: what went wrong, and sessions started
    faults, started,
    \* for the properties: tape machines that may run although the session is
    \* through with them; the session was told that something stopped while it
    \* was being started; its capture could not be aborted; the thread of a
    \* session was stopped before the session was done
    unstopped, missed, failedAbort, killed

lock == <<session, done, writer>>
callers == <<call, report, overflow, recordingOK>>
life == <<state, result, multi>>
control == <<at, diskFull>>
tapes == <<running, away, stops, unstopped>>
equipment == <<tapes, capturing, signal>>
history == <<started, missed, failedAbort, killed>>
vars == <<lock, callers, life, requests, control, stopThread, chunking, equipment,
          faults, history>>

Callers == {"http", "capture", "store"}
Requests == {"abort", "complete", "chunk", "stop", "start"}
Tapes == {"d3", "digibeta"}

\* A fault, or something stopping by itself, that is counted against the bound
Fault == faults < MaxFaults /\ faults' = faults + 1
FaultIf(failing) == IF failing THEN Fault ELSE UNCHANGED faults

Init ==
    /\ session = FALSE /\ done = FALSE /\ writer = "none"
    /\ call = [p \in Callers |-> "idle"]
    /\ report = "none" /\ overflow = "none" /\ recordingOK = TRUE
    /\ state = "NOT STARTED" /\ result = "unknown" /\ multi = FALSE
    /\ requests = {} /\ at = "none" /\ diskFull = FALSE
    /\ stopThread = FALSE /\ chunking = "none"
    /\ running = {} /\ away = {} /\ stops = {} /\ unstopped = {}
    /\ capturing = FALSE /\ signal = TRUE
    /\ faults = 0 /\ started = 0
    /\ missed = FALSE /\ failedAbort = FALSE /\ killed = FALSE

(***************************************************************************)
(* The session's thread.                                                   *)
(***************************************************************************)
AtLoop == at = "loop" /\ ~stopThread

\* Of the requests the first in this order is taken.
Before(r, q) == CASE r = "abort"    -> TRUE
                  [] r = "complete" -> q # "abort"
                  [] r = "chunk"    -> q \notin {"abort", "complete"}
                  [] r = "stop"     -> q \in {"stop", "start"}
                  [] r = "start"    -> q = "start"

\* Mutant: in the other order.
InOtherOrder(r) == r \in requests /\ \A q \in requests : Before(q, r)

Taken(r) == r \in requests /\ \A q \in requests : Before(r, q)

TakeRequest(r) ==
    /\ AtLoop /\ Taken(r)
    /\ at' = r
    /\ UNCHANGED <<lock, callers, life, requests, diskFull, stopThread, chunking,
                   equipment, faults, history>>

\* The disk is nearly full: the recording is stopped, though nobody asked for it.
DiskIsFull ==
    /\ AtLoop /\ state = "RECORDING" /\ Fault
    /\ at' = "stop" /\ diskFull' = TRUE
    /\ UNCHANGED <<lock, callers, life, requests, stopThread, chunking, equipment,
                   history>>

\* Mutant: all requests are reset, those made meanwhile as well.
NoRequest(r) == {}

Reset(r) == requests \ {r}

\* A request has been served, or refused.
Served(r) ==
    /\ requests' = IF diskFull THEN requests ELSE Reset(r)
    /\ at' = "loop" /\ diskFull' = FALSE

\* What is asked in a state that does not allow it is ignored.
Refuse(r, allowed) ==
    /\ at = r /\ state \notin allowed
    /\ Served(r)
    /\ UNCHANGED <<lock, callers, life, stopThread, chunking, equipment, faults, history>>

Ignored ==
    \/ Refuse("abort", {"READY", "RECORDING", "REVIEWING", "PREPARE CHUNKING", "CHUNKING"})
    \/ Refuse("complete", {"REVIEWING"})
    \/ Refuse("chunk", {"PREPARE CHUNKING"})
    \/ Refuse("stop", {"RECORDING"})
    \/ Refuse("start", {"READY"})

\* stop() of tape machines.  What refuses to stop is only noted in the log.
StopTapes(told, failing) ==
    \E refused \in SUBSET told :
        LET stopped == told \ refused IN
            /\ FaultIf(failing \/ refused # {})
            /\ running' = running \ stopped /\ away' = away \ stopped
            /\ stops' = stops \union stopped
            /\ unstopped' = (unstopped \union away \union refused) \ stopped

\* The store thread of the capture is in a call of the recorder, or between the
\* two it makes, and takes no other notice.
StoreThreadBusy == overflow # "none"

\* startRecordingInternal.  A machine that is not seen to run is stopped and
\* paused first; and it is seen to play only after its thread has told of the
\* stop before.
MayPlay ==
    /\ at = "start" /\ state = "READY" /\ ~capturing /\ stops = {}
    /\ stops' = away \ {"d3"}

StartPlaying ==
    /\ MayPlay
    /\ running' = running \union {"d3"} /\ away' = {}
    /\ unstopped' = unstopped \ away
    /\ at' = "starting"
    /\ UNCHANGED <<lock, callers, life, requests, diskFull, stopThread, chunking,
                   capturing, signal, faults, history>>

\* The D3 machine is not seen to play within five seconds, and not told to stop.
PlaysTooLate ==
    /\ MayPlay /\ "d3" \notin running /\ Fault
    /\ away' = {"d3"} /\ unstopped' = (unstopped \ away) \union {"d3"}
    /\ Served("start")
    /\ UNCHANGED <<lock, callers, life, stopThread, chunking, running, capturing,
                   signal, history>>

\* A tape machine is not there or cannot be paused; or the capture is still
\* busy, which is aborted then.
StartFails ==
    /\ at = "start" /\ state = "READY"
    /\ IF capturing /\ away = {}
       THEN ~StoreThreadBusy /\ capturing' = FALSE /\ UNCHANGED faults
       ELSE FaultIf(away = {}) /\ UNCHANGED capturing
    /\ Served("start")
    /\ UNCHANGED <<lock, callers, life, stopThread, chunking, tapes, signal, history>>

\* The capture reports that it records, to a session that is not recording yet,
\* but for which it needs the lock, if its last report was another.
StartCapture ==
    /\ at = "starting" /\ signal /\ "digibeta" \notin stops
    /\ recordingOK \/ writer = "none"
    /\ recordingOK' = TRUE
    /\ running' = running \union {"digibeta"} /\ away' = away \ {"digibeta"}
    /\ capturing' = TRUE
    /\ at' = "started"
    /\ UNCHANGED <<lock, call, report, overflow, life, requests, diskFull, stopThread,
                   chunking, stops, unstopped, signal, faults, history>>

\* The signal is bad, or the second machine or the capture fails to start.
StartCaptureFails ==
    /\ at = "starting"
    /\ StopTapes(running \union away, signal)
    /\ Served("start")
    /\ UNCHANGED <<lock, callers, life, stopThread, chunking, capturing, signal, history>>

Recording ==
    /\ at = "started" /\ "digibeta" \in running
    /\ state' = "RECORDING"
    /\ Served("start")
    /\ UNCHANGED <<lock, callers, result, multi, stopThread, chunking, equipment,
                   faults, history>>

DigibetaNotRecording ==
    /\ at = "started" /\ "digibeta" \notin running /\ ~StoreThreadBusy
    /\ capturing' = FALSE
    /\ StopTapes(running \union away, FALSE)
    /\ Served("start")
    /\ UNCHANGED <<lock, callers, life, stopThread, chunking, signal, history>>

\* stopRecordingInternal fails if nothing is being captured any more; then it
\* waits for the store thread to have written the last frame.
StopBegins ==
    /\ at = "stop" /\ state = "RECORDING" /\ capturing
    /\ at' = "stopping"
    /\ UNCHANGED <<lock, callers, life, requests, diskFull, stopThread, chunking,
                   equipment, faults, history>>

\* Mutant: a file of one item is to be cut into items, too.
AlwaysChunk == "PREPARE CHUNKING"

AfterStop == IF multi THEN "PREPARE CHUNKING" ELSE "REVIEWING"

StopCapture ==
    /\ at = "stopping" /\ ~StoreThreadBusy
    /\ capturing' = FALSE
    /\ state' = AfterStop
    /\ at' = "stopped"
    /\ UNCHANGED <<lock, callers, result, multi, requests, diskFull, stopThread,
                   chunking, tapes, signal, faults, history>>

StopFails ==
    /\ at = "stop" /\ state = "RECORDING" /\ ~capturing
    /\ Served("stop")
    /\ UNCHANGED <<lock, callers, life, stopThread, chunking, equipment, faults, history>>

Stopped ==
    /\ at = "stopped"
    /\ StopTapes(running, FALSE)
    /\ Served("stop")
    /\ UNCHANGED <<lock, callers, life, stopThread, chunking, capturing, signal, history>>

\* chunkFileInternal, once the user has marked all items
StartChunking ==
    /\ at = "chunk" /\ state = "PREPARE CHUNKING"
    /\ chunking' = "running"
    /\ state' = "CHUNKING"
    /\ Served("chunk")
    /\ UNCHANGED <<lock, callers, result, multi, stopThread, equipment, faults, history>>

\* The items are not ready; or the thread cannot be made, and the session is
\* to be aborted.
ChunkingFails ==
    /\ at = "chunk" /\ state = "PREPARE CHUNKING" /\ Fault
    /\ at' = "loop"
    /\ requests' \in {Reset("chunk"), Reset("chunk") \union {"abort"}}
    /\ UNCHANGED <<lock, callers, life, diskFull, stopThread, chunking, equipment, history>>

\* completeInternal
Complete ==
    /\ at = "complete" /\ state = "REVIEWING"
    /\ state' = "END" /\ result' = "completed"
    /\ at' = "exit"
    /\ UNCHANGED <<lock, callers, multi, requests, diskFull, stopThread, chunking,
                   equipment, faults, history>>

CompleteFails ==
    /\ at = "complete" /\ state = "REVIEWING" /\ Fault
    /\ requests' = Reset("complete") \union {"abort"}
    /\ at' = "loop"
    /\ UNCHANGED <<lock, callers, life, diskFull, stopThread, chunking, equipment, history>>

\* abortInternal: the tape machines, then the capture, then the chunking.
AbortTapes ==
    /\ at = "abort" /\ state \notin {"NOT STARTED", "END"}
    /\ IF state = "RECORDING" THEN StopTapes(running, FALSE)
                              ELSE UNCHANGED <<tapes, faults>>
    /\ at' = "aborting"
    /\ UNCHANGED <<lock, callers, life, requests, diskFull, stopThread, chunking,
                   capturing, signal, history>>

\* Mutant: the capture is left alone.
LeaveCapture == capturing' = capturing

AbortCapture == capturing' = (state # "RECORDING" /\ capturing)

Abort ==
    /\ at = "aborting" /\ (state = "RECORDING" /\ capturing => ~StoreThreadBusy)
    /\ AbortCapture
    /\ chunking' = "none"
    /\ state' = "END" /\ result' = "failed"
    /\ at' = "exit"
    /\ UNCHANGED <<lock, callers, multi, requests, diskFull, stopThread, tapes,
                   signal, faults, history>>

\* The file of an aborted capture cannot be removed: the session goes on.
AbortFails ==
    /\ at = "aborting" /\ state = "RECORDING" /\ ~StoreThreadBusy /\ Fault
    /\ AbortCapture
    /\ Served("abort")
    /\ failedAbort' = TRUE
    /\ UNCHANGED <<lock, callers, life, stopThread, chunking, tapes, signal,
                   started, missed, killed>>

LeaveLoop ==
    /\ at = "loop" /\ stopThread
    /\ at' = "exit"
    /\ UNCHANGED <<lock, callers, life, requests, diskFull, stopThread, chunking,
                   equipment, faults, history>>

\* The end of start(): the recorder is told that the session is done.
SessionDone ==
    /\ at = "exit"
    /\ state' = "END"
    /\ done' = TRUE
    /\ at' = "ended"
    /\ UNCHANGED <<session, writer, callers, result, multi, requests, diskFull,
                   stopThread, chunking, equipment, faults, history>>

Thread ==
    \/ \E r \in Requests : TakeRequest(r)
    \/ Ignored
    \/ StartPlaying \/ PlaysTooLate \/ StartFails \/ StartCapture \/ StartCaptureFails
    \/ Recording \/ DigibetaNotRecording
    \/ StopBegins \/ StopCapture \/ StopFails \/ Stopped
    \/ StartChunking \/ ChunkingFails
    \/ Complete \/ CompleteFails
    \/ AbortTapes \/ Abort \/ AbortFails
    \/ LeaveLoop \/ SessionDone

ChunkingEnds ==
    /\ chunking = "running"
    /\ chunking' = "completed" \/ chunking' = "failed"
    /\ UNCHANGED <<lock, callers, life, requests, control, stopThread, equipment,
                   faults, history>>

(***************************************************************************)
(* The callers of Recorder.  SESSION_ACCESS_SECTION: "session done" is read *)
(* first, without the lock; if it is set the lock is taken for writing and *)
(* what session there is cleared away; then the lock is taken for reading. *)
(***************************************************************************)
Reads == IF done THEN "clean" ELSE "enter"

Request ==
    /\ call["http"] = "idle"
    /\ call' = [call EXCEPT !["http"] = Reads]
    /\ UNCHANGED <<lock, report, overflow, recordingOK, life, requests, control,
                   stopThread, chunking, equipment, faults, history>>

\* The thread that captures reports that the signal is bad or good again, and
\* with it whether the capture still records.
Report(what) ==
    /\ call["capture"] = "idle"
    /\ report' = IF what = "good" /\ ~recordingOK THEN "stopped" ELSE what
    /\ call' = [call EXCEPT !["capture"] = Reads]
    /\ \/ what = "bad" /\ Fault /\ signal /\ signal' = FALSE
       \/ what = "good" /\ UNCHANGED faults /\ ~signal /\ signal' = TRUE
    /\ UNCHANGED <<lock, overflow, recordingOK, life, requests, control, stopThread,
                   chunking, tapes, capturing, history>>

\* The thread that stores finds the buffer full.  It reports that the recording
\* is not good any more, if that is news, and then the overflow.
Overflow ==
    /\ capturing /\ overflow = "none" /\ Fault
    /\ overflow' = IF recordingOK THEN "not good" ELSE "full"
    /\ recordingOK' = FALSE
    /\ UNCHANGED <<lock, call, report, life, requests, control, stopThread, chunking,
                   equipment, history>>

ReportOverflow ==
    /\ call["store"] = "idle" /\ overflow # "none"
    /\ call' = [call EXCEPT !["store"] = Reads]
    /\ UNCHANGED <<lock, report, overflow, recordingOK, life, requests, control,
                   stopThread, chunking, equipment, faults, history>>

\* checkSessionStatus: deleting the thread stops it and waits for its end.
LockForWriting(p) ==
    /\ call[p] = "clean" /\ writer = "none"
    /\ IF ~session
       THEN /\ done' = FALSE
            /\ call' = [call EXCEPT ![p] = "enter"]
            /\ UNCHANGED <<writer, stopThread, killed>>
       ELSE /\ writer' = p
            /\ call' = [call EXCEPT ![p] = "joining"]
            /\ stopThread' = TRUE
            /\ killed' = (killed \/ at \notin {"exit", "ended"})
            /\ UNCHANGED done
    /\ UNCHANGED <<session, report, overflow, recordingOK, life, requests, control,
                   chunking, equipment, faults, started, missed, failedAbort>>

Clear(p) ==
    /\ call[p] = "joining" /\ at = "ended"
    /\ session' = FALSE /\ done' = FALSE /\ writer' = "none"
    /\ at' = "none" /\ requests' = {} /\ chunking' = "none"
    /\ call' = [call EXCEPT ![p] = "enter"]
    /\ UNCHANGED <<report, overflow, recordingOK, life, diskFull, stopThread, equipment,
                   faults, history>>

\* A call that has the lock for reading
Enter(p) == call[p] = "enter" /\ writer = "none" /\ call' = [call EXCEPT ![p] = "idle"]

\* startNewSession; a capture without a session is aborted and the call fails.
startNewSession(several) ==
    /\ Enter("http") /\ ~session /\ signal /\ ~capturing
    /\ started < MaxSessions /\ started' = started + 1
    /\ session' = TRUE
    /\ state' = "READY" /\ result' = "unknown" /\ multi' = several
    /\ requests' = {} /\ at' = "loop" /\ stopThread' = FALSE /\ chunking' = "none"
    /\ missed' = FALSE /\ failedAbort' = FALSE
    /\ UNCHANGED <<done, writer, report, overflow, recordingOK, diskFull, equipment,
                   faults, killed>>

AbortLooseCapture ==
    /\ Enter("http") /\ ~session /\ capturing /\ ~StoreThreadBusy
    /\ capturing' = FALSE
    /\ UNCHANGED <<lock, report, overflow, recordingOK, life, requests, control,
                   stopThread, chunking, tapes, signal, faults, history>>

Ask(r) ==
    /\ Enter("http") /\ session
    /\ requests' = requests \union {r}
    /\ UNCHANGED <<lock, report, overflow, recordingOK, life, control, stopThread,
                   chunking, equipment, faults, history>>

\* getSessionStatus, which is also how the end of the chunking is noticed
\* (checkChunkingStatus), unless the session's thread is at work.
GetStatus ==
    /\ Enter("http")
    /\ IF /\ session /\ at \in {"loop", "exit", "ended"}
          /\ chunking \in {"completed", "failed"}
       THEN /\ chunking' = "none"
            /\ \/ chunking = "failed" /\ requests' = requests \union {"abort"}
                  /\ UNCHANGED state
               \/ chunking = "completed" /\ state' = "REVIEWING" /\ UNCHANGED requests
       ELSE UNCHANGED <<chunking, state, requests>>
    /\ UNCHANGED <<lock, report, overflow, recordingOK, result, multi, control,
                   stopThread, equipment, faults, history>>

\* abortIfRecording
AbortIfRecording == IF session /\ state = "RECORDING" THEN {"abort"} ELSE {}

\* sdiStatusChanged
HandleReport ==
    /\ Enter("capture")
    /\ requests' = requests \union (IF report = "good" THEN {} ELSE AbortIfRecording)
    /\ missed' = (missed \/ (report = "bad" /\ at \in {"starting", "started"}))
    /\ report' = "none"
    /\ UNCHANGED <<lock, overflow, recordingOK, life, control, stopThread, chunking,
                   equipment, faults, started, failedAbort, killed>>

\* The same, called by the thread that stores
HandleNotGood ==
    /\ Enter("store") /\ overflow = "not good"
    /\ requests' = requests \union AbortIfRecording
    /\ overflow' = "full"
    /\ UNCHANGED <<lock, report, recordingOK, life, control, stopThread, chunking,
                   equipment, faults, history>>

\* mxfBufferOverflow aborts the session in any state; then the thread that
\* stores finds that the recording is to end here.
HandleOverflow ==
    /\ Enter("store") /\ overflow = "full"
    /\ requests' = requests \union (IF session THEN {"abort"} ELSE {})
    /\ overflow' = "none" /\ capturing' = FALSE
    /\ UNCHANGED <<lock, report, recordingOK, life, control, stopThread, chunking,
                   tapes, signal, faults, history>>

StoreThread == ReportOverflow \/ HandleNotGood \/ HandleOverflow

(***************************************************************************)
(* The tape machines.                                                      *)
(***************************************************************************)
TapeStops(v) ==
    /\ v \in running \union away /\ Fault
    /\ running' = running \ {v} /\ away' = away \ {v}
    /\ unstopped' = unstopped \ {v}
    /\ stops' = stops \union {v}
    /\ UNCHANGED <<lock, callers, life, requests, control, stopThread, chunking,
                   capturing, signal, history>>

\* A machine changes to some other state -- the line to it is lost, say -- and
\* back, which vtrState only notes in the log.
TapeGoes(v) ==
    /\ v \in running /\ Fault
    /\ running' = running \ {v} /\ away' = away \union {v}
    /\ UNCHANGED <<lock, callers, life, requests, control, stopThread, chunking,
                   stops, unstopped, capturing, signal, history>>

TapeReturns(v) ==
    /\ v \in away
    /\ running' = running \union {v} /\ away' = away \ {v}
    /\ UNCHANGED <<lock, callers, life, requests, control, stopThread, chunking,
                   stops, unstopped, capturing, signal, faults, history>>

\* vtrState: the session is told of a stop, and stops if it is recording.
vtrState(v) ==
    /\ v \in stops
    /\ stops' = stops \ {v}
    /\ requests' = IF session /\ state = "RECORDING"
                   THEN requests \union {"stop"} ELSE requests
    /\ missed' = (missed \/ at \in {"starting", "started"})
    /\ UNCHANGED <<lock, callers, life, control, stopThread, chunking, running, away,
                   unstopped, capturing, signal, faults, started, failedAbort, killed>>

Next ==
    \/ Thread \/ DiskIsFull
    \/ ChunkingEnds
    \/ Request
    \/ \E what \in {"bad", "good"} : Report(what)
    \/ Overflow \/ StoreThread
    \/ \E p \in Callers : LockForWriting(p) \/ Clear(p)
    \/ \E several \in BOOLEAN : startNewSession(several)
    \/ AbortLooseCapture
    \/ \E r \in Requests : Ask(r)
    \/ GetStatus
    \/ HandleReport
    \/ \E v \in Tapes : TapeStops(v) \/ TapeGoes(v) \/ TapeReturns(v) \/ vtrState(v)

\* The session's thread, the threads of the capture and those that poll the
\* tape machines run; so does a call that cleared a session away.
Fairness ==
    /\ WF_vars(Thread) /\ WF_vars(ChunkingEnds)
    /\ WF_vars(HandleReport) /\ WF_vars(StoreThread)
    /\ \A p \in Callers : WF_vars(LockForWriting(p)) /\ WF_vars(Clear(p))
    /\ \A v \in Tapes : WF_vars(vtrState(v))

Spec == Init /\ [][Next]_vars /\ Fairness

States == {"NOT STARTED", "READY", "RECORDING", "REVIEWING", "PREPARE CHUNKING",
           "CHUNKING", "END"}

LockTypes ==
    /\ session \in BOOLEAN /\ done \in BOOLEAN
    /\ writer \in Callers \union {"none"}
    /\ call \in [Callers -> {"idle", "clean", "joining", "enter"}]
    /\ report \in {"none", "bad", "good", "stopped"}
    /\ overflow \in {"none", "not good", "full"} /\ recordingOK \in BOOLEAN
    /\ \A p \in Callers : call[p] = "joining" <=> writer = p

SessionTypes ==
    /\ state \in States /\ result \in {"unknown", "completed", "failed"}
    /\ requests \subseteq Requests /\ multi \in BOOLEAN
    /\ at \in Requests \union {"none", "loop", "starting", "started", "stopping",
                               "stopped", "aborting", "exit", "ended"}
    /\ diskFull \in BOOLEAN
    /\ stopThread \in BOOLEAN /\ chunking \in {"none", "running", "completed", "failed"}
    /\ session <=> at # "none"

EquipmentTypes ==
    /\ running \subseteq Tapes /\ away \subseteq Tapes /\ stops \subseteq Tapes
    /\ running \intersect away = {} /\ (running \union away) \intersect stops = {}
    /\ unstopped \subseteq running \union away

ItemsOfSeveral == chunking # "none" => multi /\ (state = "CHUNKING" \/ killed)

\* Types; the lock is held for writing only to wait for the thread of a
\* session; and items are cut out of the file only of a session of several.
TypeOK == LockTypes /\ SessionTypes /\ EquipmentTypes /\ ItemsOfSeveral

\* A session that was completed or aborted leaves nothing running: no capture,
\* no cutting into items, and of the tape machines only those it could not stop
\* -- that refused, that were in some other state when those that run were told
\* to stop, or that began to play too late -- and that nobody has stopped since.
EndIsQuiet ==
    at = "ended" /\ ~killed =>
        /\ ~capturing /\ chunking # "running"
        /\ running \subseteq unstopped

\* A recording goes on only with all it needs.  When a tape machine has
\* stopped, the signal is bad or the capture has ended, then the news is on its
\* way, the session's thread is at it, or was asked to; but for what was
\* ignored because it came while the recording was being started, and for an
\* abort that failed.
RecordingWatched ==
    state = "RECORDING" /\ session
        /\ ~(Tapes \subseteq running \union away /\ capturing /\ signal)
    => \/ stops # {} \/ report # "none"
       \/ at # "loop" \/ {"stop", "abort"} \intersect requests # {}
       \/ missed \/ failedAbort \/ killed

\* A session that is asked to abort ends.
AbortEnds ==
    "abort" \in requests ~> at \in {"ended", "none"} \/ failedAbort \/ killed

\* A session ends because it is completed or aborted.
SessionEndsByChoice == at = "ended" => result # "unknown"

=============================================================================
