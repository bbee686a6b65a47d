------------------------ MODULE RecorderControlProofs ------------------------
(* Theorems about RecorderControl for any number of recordings and of record *)
(* threads, with their proofs.                                               *)
EXTENDS RecorderControl, FiniteSetTheorems, TLAPS

(* The inductive invariant.  What the ORB's thread may do with a recording   *)
(* depends on how far its call has got (Making, Discarding, Stopping), and   *)
(* what the manage thread of a recording may do on how far that has (Ending) *)

Places ==
    {"idle", "testPointer", "stopRecording", "readNames", "clearPointer", "newIndex",
     "newRecording", "startThreads", "noteRecording", "discard",
     "none", "join", "compare", "forget", "delete", "gone",
     "clearArgs", "addArgs", "stopProcess", "terminate", "spawn"}

ControlTypes ==
    /\ mpIngexRecorder \in 0 .. MaxRecordings
    /\ mRecordingIndex \in 1 .. MaxRecordings + 1
    /\ held \in 0 .. MaxRecordings
    /\ pc \in [Threads -> Places]

RecordingTypes ==
    /\ running \in [Recordings -> 0 .. NumThreads]
    /\ target \in [Recordings -> BOOLEAN]
    /\ noted \in [Recordings -> Notes]
    /\ status \in [Recordings -> {"none", "completed ok", "dropped frames", "failed"}]

\* A number that no recording has been given yet, and that it can be given.
Unborn ==
    /\ \A r \in Recordings :
          r >= mRecordingIndex => pc[r] = "none" /\ running[r] = 0 /\ r \notin alive
    /\ pc[ORB] = "readNames" => call = "stop"
    /\ \/ pc[ORB] = "newIndex"
       \/ pc[ORB] \in {"testPointer", "stopRecording", "clearPointer"} /\ call # "stop"
       => mRecordingIndex <= MaxRecordings

\* Start is about to make a recording, the threads of which do not run yet.
Making ==
    /\ \/ pc[ORB] \in {"newRecording", "startThreads"}
       \/ pc[ORB] \in {"stopProcess", "terminate", "spawn"} /\ call # "discard"
       => /\ held \in Recordings /\ held < mRecordingIndex
          /\ pc[held] = "none" /\ running[held] = 0
    /\ pc[ORB] = "startThreads" =>
          /\ held \in alive /\ mpIngexRecorder \in {0, held}
          /\ mpIngexRecorder = held \/ misled

\* Start is about to delete the recording it has made, which does not run.
Discarding ==
    /\ pc[ORB] \in {"testPointer", "stopRecording", "readNames", "clearPointer",
                   "newIndex", "newRecording", "startThreads"} => call # "discard"
    /\ pc[ORB] \in {"discard", "clearArgs", "addArgs"} => call = "discard"
    /\ pc[ORB] = "discard" \/ (pc[ORB] = "noteRecording" /\ call = "discard")
       => /\ held \in Recordings /\ running[held] = 0
          /\ mpIngexRecorder \in {0, held}

\* From the end of its threads on, nothing of a recording runs, and before it
\* is deleted nothing points to it any more.
Ending ==
    \A r \in Recordings :
        /\ pc[r] \in {"none", "join"} => status[r] = "none"
        /\ pc[r] \notin {"none", "join"} => running[r] = 0
        /\ pc[r] \in {"delete", "gone"} => mpIngexRecorder # r

\* A recording that nobody has told to stop is pointed to, unless the pointer
\* was cleared in its stead, and there is none while Stop or Start is past it.
Stopping ==
    \A r \in Recordings :
        running[r] > 0 /\ ~target[r] /\ ~misled =>
            /\ mpIngexRecorder = r
            /\ pc[ORB] \in {"idle", "testPointer", "stopRecording", "noteRecording"}
            /\ mRecording \/ pc[ORB] = "noteRecording"
            /\ pc[ORB] = "stopRecording" => held = r

IInv ==
    /\ ControlTypes /\ RecordingTypes
    /\ Unborn /\ Making /\ Discarding /\ Ending
    /\ AliveWhileUsed /\ ReportIsFinal /\ Stopping
-----------------------------------------------------------------------------
(* Every step keeps the invariant.                                           *)
USE DEF Places, Recordings, ORB, Threads

\* Start stops what is going on, or takes a number at once.
LEMMA CallStartKeeps ==
    ASSUME IInv, CallStart
    PROVE  IInv'
  <1> USE RecordingsAssumption, ThreadsAssumption DEF IInv
  <1>1. /\ pc[ORB] = "idle"
        /\ pc' \in [Threads -> Places]
        /\ \A u \in Threads \ {ORB} : pc'[u] = pc[u]
        /\ pc'[ORB] = IF mRecording THEN "testPointer" ELSE "newIndex"
        /\ mRecordingIndex <= MaxRecordings
        /\ call' = "start"
    BY DEF CallStart, Going, ControlTypes
  <1>2. UNCHANGED <<mpIngexRecorder, mRecording, mRecordingIndex, held,
                    running, target, noted, status, alive, misled>>
    BY DEF CallStart, shared, recordings, history
  <1>3. ControlTypes' /\ RecordingTypes'
    BY <1>1, <1>2 DEF ControlTypes, RecordingTypes
  <1>4. Unborn' /\ Making' /\ Discarding'
    BY <1>1, <1>2 DEF Unborn, Making, Discarding
  <1>5. Ending' /\ AliveWhileUsed' /\ ReportIsFinal'
    BY <1>1, <1>2 DEF Ending, AliveWhileUsed, ReportIsFinal, Reported
  <1>6. Stopping'
    BY <1>1, <1>2 DEF Stopping
  <1> QED  BY <1>3, <1>4, <1>5, <1>6

\* Stop begins.
LEMMA CallStopKeeps ==
    ASSUME IInv, CallStop
    PROVE  IInv'
  <1> USE RecordingsAssumption, ThreadsAssumption DEF IInv
  <1>1. /\ pc[ORB] = "idle"
        /\ pc' \in [Threads -> Places]
        /\ \A u \in Threads \ {ORB} : pc'[u] = pc[u]
        /\ pc'[ORB] = "testPointer"
        /\ call' = "stop"
    BY DEF CallStop, Going, ControlTypes
  <1>2. UNCHANGED <<mpIngexRecorder, mRecording, mRecordingIndex, held,
                    running, target, noted, status, alive, misled>>
    BY DEF CallStop, shared, recordings, history
  <1>3. ControlTypes' /\ RecordingTypes'
    BY <1>1, <1>2 DEF ControlTypes, RecordingTypes
  <1>4. Unborn' /\ Making' /\ Discarding'
    BY <1>1, <1>2 DEF Unborn, Making, Discarding
  <1>5. Ending' /\ AliveWhileUsed' /\ ReportIsFinal'
    BY <1>1, <1>2 DEF Ending, AliveWhileUsed, ReportIsFinal, Reported
  <1>6. Stopping'
    BY <1>1, <1>2 DEF Stopping
  <1> QED  BY <1>3, <1>4, <1>5, <1>6

\* Whatever is going on unstopped is what the pointer leads to.
LEMMA TestPointerKeeps ==
    ASSUME IInv, TestPointer
    PROVE  IInv'
  <1> USE RecordingsAssumption, ThreadsAssumption DEF IInv
  <1>1. /\ pc[ORB] = "testPointer"
        /\ pc' \in [Threads -> Places]
        /\ \A u \in Threads \ {ORB} : pc'[u] = pc[u]
        /\ pc'[ORB] = IF mpIngexRecorder = 0 THEN "clearPointer" ELSE "stopRecording"
        /\ held' = mpIngexRecorder
    BY DEF TestPointer, Going, ControlTypes
  <1>2. UNCHANGED <<mpIngexRecorder, mRecording, mRecordingIndex, call,
                    running, target, noted, status, alive, misled>>
    BY DEF TestPointer, shared, recordings, history
  <1>3. ControlTypes' /\ RecordingTypes'
    BY <1>1, <1>2 DEF ControlTypes, RecordingTypes
  <1>4. Unborn' /\ Making' /\ Discarding'
    BY <1>1, <1>2 DEF Unborn, Making, Discarding
  <1>5. Ending' /\ AliveWhileUsed' /\ ReportIsFinal'
    BY <1>1, <1>2 DEF Ending, AliveWhileUsed, ReportIsFinal, Reported
  <1>6. Stopping'
    <2> SUFFICES ASSUME NEW s \in Recordings, running[s] > 0, ~target[s], ~misled
                 PROVE  /\ mpIngexRecorder = s /\ mRecording
                        /\ pc'[ORB] = "stopRecording" /\ held' = s
      BY <1>1, <1>2 DEF Stopping
    <2>1. mpIngexRecorder = s /\ mRecording
      BY <1>1 DEF Stopping
    <2> QED  BY <1>1, <2>1
  <1> QED  BY <1>3, <1>4, <1>5, <1>6

\* The recording in hand gets its target duration.
LEMMA StopRecordingKeeps ==
    ASSUME IInv, StopRecording
    PROVE  IInv'
  <1> USE RecordingsAssumption, ThreadsAssumption DEF IInv
  <1>1. /\ pc[ORB] = "stopRecording"
        /\ pc' \in [Threads -> Places]
        /\ \A u \in Threads \ {ORB} : pc'[u] = pc[u]
        /\ pc'[ORB] = IF call = "stop" THEN "readNames" ELSE "clearPointer"
        /\ target' = [target EXCEPT ![held] = TRUE]
    BY DEF StopRecording, Going, ControlTypes
  <1>2. UNCHANGED <<mpIngexRecorder, mRecording, mRecordingIndex, held, call,
                    running, noted, status, alive, misled>>
    BY DEF StopRecording, shared, recordings, history
  <1>3. ControlTypes' /\ RecordingTypes'
    BY <1>1, <1>2 DEF ControlTypes, RecordingTypes
  <1>4. Unborn' /\ Making' /\ Discarding'
    BY <1>1, <1>2 DEF Unborn, Making, Discarding
  <1>5. Ending' /\ AliveWhileUsed' /\ ReportIsFinal'
    BY <1>1, <1>2 DEF Ending, AliveWhileUsed, ReportIsFinal, Reported
  <1>6. Stopping'
    BY <1>1, <1>2 DEF ControlTypes, RecordingTypes, Stopping
  <1> QED  BY <1>3, <1>4, <1>5, <1>6

\* The names are read.
LEMMA ReadNamesKeeps ==
    ASSUME IInv, ReadNames
    PROVE  IInv'
  <1> USE RecordingsAssumption, ThreadsAssumption DEF IInv
  <1>1. /\ pc[ORB] = "readNames"
        /\ pc' \in [Threads -> Places]
        /\ \A u \in Threads \ {ORB} : pc'[u] = pc[u]
        /\ pc'[ORB] = "clearPointer"
    BY DEF ReadNames, Going, ControlTypes
  <1>2. UNCHANGED <<mpIngexRecorder, mRecording, mRecordingIndex, held, call,
                    running, target, noted, status, alive, misled>>
    BY DEF ReadNames, shared, recordings, history
  <1>3. ControlTypes' /\ RecordingTypes'
    BY <1>1, <1>2 DEF ControlTypes, RecordingTypes
  <1>4. Unborn' /\ Making' /\ Discarding'
    BY <1>1, <1>2 DEF Unborn, Making, Discarding
  <1>5. Ending' /\ AliveWhileUsed' /\ ReportIsFinal'
    BY <1>1, <1>2 DEF Ending, AliveWhileUsed, ReportIsFinal, Reported
  <1>6. Stopping'
    BY <1>1, <1>2 DEF Stopping
  <1> QED  BY <1>3, <1>4, <1>5, <1>6

\* Nothing is going on unstopped when the pointer is cleared.
LEMMA ClearPointerKeeps ==
    ASSUME IInv, ClearPointer
    PROVE  IInv'
  <1> USE RecordingsAssumption, ThreadsAssumption DEF IInv
  <1>1. /\ pc[ORB] = "clearPointer"
        /\ pc' \in [Threads -> Places]
        /\ \A u \in Threads \ {ORB} : pc'[u] = pc[u]
        /\ pc'[ORB] = IF call = "stop" THEN "idle" ELSE "newIndex"
        /\ mpIngexRecorder' = 0
        /\ mRecording' = FALSE
        /\ held' = 0
        /\ call' = IF call = "stop" THEN "none" ELSE call
    BY DEF ClearPointer, Going, ControlTypes
  <1>2. UNCHANGED <<mRecordingIndex, running, target, noted, status,
                    alive, misled>>
    BY DEF ClearPointer, shared, recordings, history
  <1>3. ControlTypes'
    BY <1>1, <1>2 DEF ControlTypes
  <1>4. RecordingTypes'
    BY <1>1, <1>2 DEF RecordingTypes
  <1>5. Unborn' /\ Making' /\ Discarding'
    BY <1>1, <1>2 DEF Unborn, Making, Discarding
  <1>6. Ending' /\ AliveWhileUsed' /\ ReportIsFinal'
    BY <1>1, <1>2 DEF Ending, AliveWhileUsed, ReportIsFinal, Reported
  <1>7. Stopping'
    BY <1>1, <1>2 DEF Stopping
  <1> QED  BY <1>3, <1>4, <1>5, <1>6, <1>7

\* A number that no recording has had is taken.
LEMMA NewIndexKeeps ==
    ASSUME IInv, NewIndex
    PROVE  IInv'
  <1> USE RecordingsAssumption, ThreadsAssumption DEF IInv
  <1>1. /\ pc[ORB] = "newIndex"
        /\ pc' \in [Threads -> Places]
        /\ \A u \in Threads \ {ORB} : pc'[u] = pc[u]
        /\ pc'[ORB] = "stopProcess"
        /\ mRecordingIndex' = mRecordingIndex + 1
        /\ held' = mRecordingIndex
    BY DEF NewIndex, Going, ControlTypes
  <1>2. UNCHANGED <<mpIngexRecorder, mRecording, call, running, target,
                    noted, status, alive, misled>>
    BY DEF NewIndex, shared, recordings, history
  <1>3. RecordingTypes'
    BY <1>1, <1>2 DEF RecordingTypes
  <1>4. Discarding' /\ Ending' /\ AliveWhileUsed'
    BY <1>1, <1>2 DEF Discarding, Ending, AliveWhileUsed
  <1>5. ReportIsFinal' /\ Stopping'
    BY <1>1, <1>2 DEF ReportIsFinal, Reported, Stopping
  <1>6. ControlTypes'
    BY <1>1, <1>2 DEF ControlTypes, Unborn, Making
  <1>7. Unborn'
    <2>1. \A s \in Recordings : s >= mRecordingIndex + 1 =>
              pc'[s] = "none" /\ running[s] = 0 /\ s \notin alive
      BY <1>1 DEF Unborn, ControlTypes
    <2> QED  BY <1>1, <1>2, <2>1 DEF Unborn
  <1>8. Making'
    <2>1. mRecordingIndex \in Recordings
      BY <1>1 DEF Unborn, ControlTypes
    <2>2. pc'[mRecordingIndex] = "none" /\ running[mRecordingIndex] = 0
      BY <1>1, <2>1 DEF Unborn
    <2>3. held' \in Recordings /\ held' < mRecordingIndex'
      BY <1>1, <2>1
    <2>4. pc'[held'] = "none" /\ running'[held'] = 0
      BY <1>1, <1>2, <2>2
    <2> QED  BY <1>1, <2>3, <2>4 DEF Making
  <1> QED  BY <1>3, <1>4, <1>5, <1>6, <1>7, <1>8

\* The recording is made, and pointed to.
LEMMA NewRecordingKeeps ==
    ASSUME IInv, NewRecording
    PROVE  IInv'
  <1> USE RecordingsAssumption, ThreadsAssumption DEF IInv
  <1>1. /\ pc[ORB] = "newRecording"
        /\ pc' \in [Threads -> Places]
        /\ \A u \in Threads \ {ORB} : pc'[u] = pc[u]
        /\ mpIngexRecorder' = held
        /\ alive' = alive \cup {held}
        /\ \/ pc'[ORB] = "startThreads" /\ call' = call
           \/ pc'[ORB] = "discard" /\ call' = "discard"
    <2>1. CASE Going(ORB, "startThreads") /\ UNCHANGED call
      BY <2>1 DEF NewRecording, Going, ControlTypes
    <2>2. CASE Going(ORB, "discard") /\ call' = "discard"
      BY <2>2 DEF NewRecording, Going, ControlTypes
    <2> QED  BY <2>1, <2>2 DEF NewRecording
  <1>2. UNCHANGED <<mRecording, mRecordingIndex, held, running, target,
                    noted, status, misled>>
    BY DEF NewRecording, shared, recordings, history
  <1>3. ControlTypes' /\ RecordingTypes'
    BY <1>1, <1>2 DEF ControlTypes, RecordingTypes
  <1>4. Making' /\ AliveWhileUsed' /\ ReportIsFinal'
    BY <1>1, <1>2 DEF Making, AliveWhileUsed, ReportIsFinal, Reported
  <1>5. Stopping'
    BY <1>1, <1>2 DEF Stopping
  <1>6. Unborn'
    <2>1. held < mRecordingIndex
      BY <1>1 DEF Making
    <2>2. \A s \in Recordings : s >= mRecordingIndex =>
              pc'[s] = "none" /\ running[s] = 0 /\ s \notin alive'
      BY <1>1, <2>1 DEF Unborn, ControlTypes
    <2> QED  BY <1>1, <1>2, <2>2 DEF Unborn
  <1>7. Discarding'
    BY <1>1, <1>2 DEF ControlTypes, RecordingTypes, Unborn, Making, Discarding
  <1>8. Ending'
    BY <1>1, <1>2 DEF ControlTypes, RecordingTypes, Unborn, Making, Ending
  <1> QED  BY <1>3, <1>4, <1>5, <1>6, <1>7, <1>8

\* A recording is going on now, or is about to be deleted.
LEMMA NoteRecordingKeeps ==
    ASSUME IInv, NoteRecording
    PROVE  IInv'
  <1> USE RecordingsAssumption, ThreadsAssumption DEF IInv
  <1>1. /\ pc[ORB] = "noteRecording"
        /\ pc' \in [Threads -> Places]
        /\ \A u \in Threads \ {ORB} : pc'[u] = pc[u]
        /\ pc'[ORB] = IF call = "discard" THEN "discard" ELSE "idle"
        /\ mRecording' = TRUE
        /\ IF call = "discard" THEN held' = held /\ call' = call
           ELSE held' = 0 /\ call' = "none"
    BY DEF NoteRecording, Going, ControlTypes
  <1>2. UNCHANGED <<mpIngexRecorder, mRecordingIndex, running, target,
                    noted, status, alive, misled>>
    BY DEF NoteRecording, shared, recordings, history
  <1>3. ControlTypes'
    BY <1>1, <1>2 DEF ControlTypes
  <1>4. RecordingTypes'
    BY <1>1, <1>2 DEF RecordingTypes
  <1>5. Unborn' /\ Making' /\ Discarding'
    BY <1>1, <1>2 DEF Unborn, Making, Discarding
  <1>6. Ending' /\ AliveWhileUsed' /\ ReportIsFinal'
    BY <1>1, <1>2 DEF Ending, AliveWhileUsed, ReportIsFinal, Reported
  <1>7. Stopping'
    <2> SUFFICES ASSUME NEW s \in Recordings, running[s] > 0, ~target[s], ~misled
                 PROVE  mpIngexRecorder = s /\ pc'[ORB] = "idle"
      BY <1>1, <1>2 DEF Stopping
    <2>1. mpIngexRecorder = s
      BY DEF Stopping
    <2>2. CASE call = "discard"
      BY <1>1, <2>1, <2>2 DEF Discarding
    <2>3. CASE call # "discard"
      BY <1>1, <2>1, <2>3
    <2> QED  BY <2>2, <2>3
  <1> QED  BY <1>3, <1>4, <1>5, <1>6, <1>7

\* The recording that is deleted does not run.
LEMMA DiscardKeeps ==
    ASSUME IInv, Discard
    PROVE  IInv'
  <1> USE RecordingsAssumption, ThreadsAssumption DEF IInv
  <1>1. /\ pc[ORB] = "discard"
        /\ pc' \in [Threads -> Places]
        /\ \A u \in Threads \ {ORB} : pc'[u] = pc[u]
        /\ pc'[ORB] = "clearArgs"
        /\ mpIngexRecorder' = 0
        /\ alive' = alive \ {mpIngexRecorder}
    BY DEF Discard, Going, ControlTypes
  <1>2. UNCHANGED <<mRecording, mRecordingIndex, held, call, running, target,
                    noted, status, misled>>
    BY DEF Discard, shared, recordings, history
  <1>3. ControlTypes'
    BY <1>1, <1>2 DEF ControlTypes
  <1>4. RecordingTypes'
    BY <1>1, <1>2 DEF RecordingTypes
  <1>5. Unborn' /\ Making' /\ Discarding'
    BY <1>1, <1>2 DEF Unborn, Making, Discarding
  <1>6. Ending' /\ ReportIsFinal' /\ Stopping'
    BY <1>1, <1>2 DEF Ending, ReportIsFinal, Reported, Stopping
  <1>7. AliveWhileUsed'
    <2>1. /\ held \in Recordings /\ running[held] = 0
          /\ mpIngexRecorder \in {0, held}
      BY <1>1 DEF Discarding
    <2>2. ASSUME NEW s \in Recordings, running[s] > 0
          PROVE  s \in alive'
      <3>1. s # mpIngexRecorder
        BY <2>1, <2>2
      <3> QED  BY <1>1, <2>2, <3>1 DEF AliveWhileUsed
    <2> QED  BY <1>1, <1>2, <2>2 DEF AliveWhileUsed
  <1> QED  BY <1>3, <1>4, <1>5, <1>6, <1>7

\* All threads have ended: the report is final.
LEMMA JoinThreadsKeeps ==
    ASSUME IInv, NEW r \in Recordings, JoinThreads(r)
    PROVE  IInv'
  <1> USE RecordingsAssumption, ThreadsAssumption DEF IInv
  <1>1. /\ pc[r] = "join"
        /\ pc' \in [Threads -> Places]
        /\ \A u \in Threads \ {r} : pc'[u] = pc[u]
        /\ pc'[r] = "clearArgs"
        /\ running[r] = 0
        /\ status' = [status EXCEPT ![r] = Reported(r)]
    BY DEF JoinThreads, Going, ControlTypes
  <1>2. UNCHANGED <<mpIngexRecorder, mRecording, mRecordingIndex, held, call,
                    running, target, noted, alive, misled>>
    BY DEF JoinThreads, shared, recordings, history
  <1>3. ControlTypes'
    BY <1>1, <1>2 DEF ControlTypes
  <1>4. Unborn' /\ Making' /\ Ending'
    BY <1>1, <1>2 DEF Unborn, Making, Ending
  <1>5. AliveWhileUsed' /\ Stopping'
    BY <1>1, <1>2 DEF AliveWhileUsed, Stopping
  <1>6. RecordingTypes'
    BY <1>1, <1>2 DEF ControlTypes, RecordingTypes, Reported, Notes
  <1>7. Discarding'
    <2>1. pc'[ORB] = pc[ORB]
      BY <1>1
    <2> QED  BY <2>1, <1>2 DEF Discarding
  <1>8. ReportIsFinal'
    BY <1>1, <1>2 DEF ControlTypes, RecordingTypes, ReportIsFinal, Reported
  <1> QED  BY <1>3, <1>4, <1>5, <1>6, <1>7, <1>8

\* The recording is still pointed to, or not.
LEMMA ComparePointerKeeps ==
    ASSUME IInv, NEW r \in Recordings, ComparePointer(r)
    PROVE  IInv'
  <1> USE RecordingsAssumption, ThreadsAssumption DEF IInv
  <1>1. /\ pc[r] = "compare"
        /\ pc' \in [Threads -> Places]
        /\ \A u \in Threads \ {r} : pc'[u] = pc[u]
        /\ pc'[r] = IF mpIngexRecorder = r THEN "forget" ELSE "delete"
    BY DEF ComparePointer, Going, ControlTypes
  <1>2. UNCHANGED <<mpIngexRecorder, mRecording, mRecordingIndex, held, call,
                    running, target, noted, status, alive, misled>>
    BY DEF ComparePointer, shared, recordings, history
  <1>3. ControlTypes' /\ RecordingTypes'
    BY <1>1, <1>2 DEF ControlTypes, RecordingTypes
  <1>4. Unborn' /\ Making' /\ Discarding'
    BY <1>1, <1>2 DEF Unborn, Making, Discarding
  <1>5. Ending' /\ AliveWhileUsed' /\ ReportIsFinal'
    BY <1>1, <1>2 DEF Ending, AliveWhileUsed, ReportIsFinal, Reported
  <1>6. Stopping'
    BY <1>1, <1>2 DEF Stopping
  <1> QED  BY <1>3, <1>4, <1>5, <1>6

\* The recording whose pointer is cleared does not run; another that loses its
\* pointer is remembered.
LEMMA ForgetPointerKeeps ==
    ASSUME IInv, NEW r \in Recordings, ForgetPointer(r)
    PROVE  IInv'
  <1> USE RecordingsAssumption, ThreadsAssumption DEF IInv
  <1>1. /\ pc[r] = "forget"
        /\ pc' \in [Threads -> Places]
        /\ \A u \in Threads \ {r} : pc'[u] = pc[u]
        /\ pc'[r] = "delete"
        /\ mpIngexRecorder' = 0
        /\ misled' = (misled \/ mpIngexRecorder \notin {0, r})
    BY DEF ForgetPointer, Going, ControlTypes
  <1>2. UNCHANGED <<mRecording, mRecordingIndex, held, call, running, target,
                    noted, status, alive>>
    BY DEF ForgetPointer, shared, recordings, history
  <1>3. ControlTypes'
    BY <1>1, <1>2 DEF ControlTypes
  <1>4. RecordingTypes'
    BY <1>1, <1>2 DEF RecordingTypes
  <1>5. Unborn' /\ Making' /\ Discarding'
    BY <1>1, <1>2 DEF Unborn, Making, Discarding
  <1>6. AliveWhileUsed' /\ ReportIsFinal'
    BY <1>1, <1>2 DEF AliveWhileUsed, ReportIsFinal, Reported
  <1>7. Ending'
    <2> SUFFICES ASSUME NEW s \in Recordings
                 PROVE  /\ pc'[s] \in {"none", "join"} => status[s] = "none"
                        /\ pc'[s] \notin {"none", "join"} => running[s] = 0
                        /\ pc'[s] \in {"delete", "gone"} => 0 # s
      BY <1>1, <1>2 DEF Ending
    <2>1. CASE s = r
      BY <1>1, <2>1 DEF Ending
    <2>2. CASE s # r
      BY <1>1, <2>2 DEF Ending
    <2> QED  BY <2>1, <2>2
  <1>8. Stopping'
    <2> SUFFICES ASSUME NEW s \in Recordings, running[s] > 0, ~target[s], ~misled'
                 PROVE  FALSE
      BY <1>2 DEF Stopping
    <2>1. ~misled /\ mpIngexRecorder \in {0, r}
      BY <1>1
    <2>2. mpIngexRecorder = s
      BY <2>1 DEF Stopping
    <2>3. running[r] = 0
      BY <1>1 DEF Ending
    <2> QED  BY <2>1, <2>2, <2>3
  <1> QED  BY <1>3, <1>4, <1>5, <1>6, <1>7, <1>8

\* The recording that is deleted neither runs nor is pointed to.
LEMMA DeleteRecordingKeeps ==
    ASSUME IInv, NEW r \in Recordings, DeleteRecording(r)
    PROVE  IInv'
  <1> USE RecordingsAssumption, ThreadsAssumption DEF IInv
  <1>1. /\ pc[r] = "delete"
        /\ pc' \in [Threads -> Places]
        /\ \A u \in Threads \ {r} : pc'[u] = pc[u]
        /\ pc'[r] = "gone"
        /\ alive' = alive \ {r}
    BY DEF DeleteRecording, Going, ControlTypes
  <1>2. UNCHANGED <<mpIngexRecorder, mRecording, mRecordingIndex, held, call,
                    running, target, noted, status, misled>>
    BY DEF DeleteRecording, shared, recordings, history
  <1>3. ControlTypes' /\ RecordingTypes'
    BY <1>1, <1>2 DEF ControlTypes, RecordingTypes
  <1>4. Unborn' /\ Making' /\ Discarding'
    BY <1>1, <1>2 DEF Unborn, Making, Discarding
  <1>5. Ending' /\ ReportIsFinal' /\ Stopping'
    BY <1>1, <1>2 DEF Ending, ReportIsFinal, Reported, Stopping
  <1>6. AliveWhileUsed'
    <2>1. mpIngexRecorder # r /\ running[r] = 0
      BY <1>1 DEF Ending
    <2>2. mpIngexRecorder # 0 => mpIngexRecorder \in alive'
      BY <1>1, <2>1 DEF AliveWhileUsed
    <2>3. ASSUME NEW s \in Recordings, running[s] > 0
          PROVE  s \in alive'
      <3>1. s # r
        BY <2>1, <2>3
      <3> QED  BY <1>1, <2>3, <3>1 DEF AliveWhileUsed
    <2> QED  BY <1>2, <2>2, <2>3 DEF AliveWhileUsed
  <1> QED  BY <1>3, <1>4, <1>5, <1>6

\* Any number of record threads may start, and the manage thread may not.
LEMMA StartThreadsKeeps ==
    ASSUME IInv, StartThreads
    PROVE  IInv'
  <1> USE RecordingsAssumption, ThreadsAssumption DEF IInv
  <1>1. PICK n \in 0 .. NumThreads, managed \in BOOLEAN :
          /\ running' = [running EXCEPT ![held] = n]
          /\ pc' = [pc EXCEPT ![ORB] = "noteRecording",
                              ![held] = IF n > 0 /\ managed THEN "join" ELSE @]
          /\ call' = IF n = 0 THEN "discard" ELSE call
    BY DEF StartThreads
  <1>2. UNCHANGED <<mpIngexRecorder, mRecording, mRecordingIndex, held, target,
                    noted, status, alive, misled>>
    BY DEF StartThreads, shared, history
  <1>3. /\ pc[ORB] = "startThreads"
        /\ held \in Recordings /\ held < mRecordingIndex
        /\ pc[held] = "none" /\ running[held] = 0 /\ status[held] = "none"
        /\ held \in alive /\ mpIngexRecorder \in {0, held}
        /\ mpIngexRecorder = held \/ misled
    BY DEF StartThreads, Making, Ending
  <1>4. /\ pc' \in [Threads -> Places]
        /\ pc'[ORB] = "noteRecording"
        /\ pc'[held] \in {"none", "join"}
        /\ \A r \in Recordings \ {held} : pc'[r] = pc[r]
    BY <1>1, <1>3 DEF ControlTypes
  <1>5. /\ running' \in [Recordings -> 0 .. NumThreads]
        /\ running'[held] = n
        /\ \A r \in Recordings \ {held} : running'[r] = running[r]
    BY <1>1, <1>3 DEF RecordingTypes
  <1>6. ControlTypes' /\ RecordingTypes'
    BY <1>2, <1>4, <1>5 DEF ControlTypes, RecordingTypes
  <1>7. Unborn'
    <2>1. \A r \in Recordings : r >= mRecordingIndex => r # held
      BY <1>3 DEF ControlTypes
    <2> QED  BY <1>2, <1>4, <1>5, <2>1 DEF Unborn
  <1>8. Making'
    BY <1>4 DEF Making
  <1>9. Discarding'
    <2>1. call' = "discard" => running'[held] = 0
      BY <1>1, <1>3, <1>5 DEF Discarding
    <2> QED  BY <1>2, <1>3, <1>4, <2>1 DEF Discarding
  <1>10. Ending'
    BY <1>2, <1>3, <1>4, <1>5 DEF Ending
  <1>11. AliveWhileUsed'
    BY <1>2, <1>3, <1>5 DEF AliveWhileUsed
  <1>12. ReportIsFinal'
    BY <1>2, <1>3, <1>5 DEF ReportIsFinal, Reported
  <1>13. Stopping'
    <2> SUFFICES ASSUME NEW s \in Recordings, running'[s] > 0, ~target[s], ~misled
                 PROVE  mpIngexRecorder = s
      BY <1>2, <1>4 DEF Stopping
    <2>1. CASE s = held
      BY <1>3, <2>1
    <2>2. CASE s # held
      BY <1>3, <1>5, <2>2 DEF Stopping
    <2> QED  BY <2>1, <2>2
  <1> QED  BY <1>6, <1>7, <1>8, <1>9, <1>10, <1>11, <1>12, <1>13

\* A record thread ends: its recording has not been reported.
LEMMA EndThreadKeeps ==
    ASSUME IInv, NEW r \in Recordings, EndThread(r)
    PROVE  IInv'
  <1> USE RecordingsAssumption, ThreadsAssumption DEF IInv
  <1>1. PICK note \in Notes : noted' = [noted EXCEPT ![r] = Worst(@, note)]
    BY NotableAssumption DEF EndThread, Notes
  <1>2. UNCHANGED <<mpIngexRecorder, mRecording, mRecordingIndex, held, call,
                    pc, target, status, alive, misled>>
    BY DEF EndThread, shared, history
  <1>3. running[r] > 0 /\ status[r] = "none" /\ pc[r] \in {"none", "join"}
    BY DEF EndThread, Ending
  <1>4. /\ running' \in [Recordings -> 0 .. NumThreads]
        /\ \A s \in Recordings : running[s] = 0 => running'[s] = 0
        /\ \A s \in Recordings : running'[s] > 0 => running[s] > 0
    <2>1. running' = [running EXCEPT ![r] = @ - 1]
      BY DEF EndThread
    <2>2. running[r] \in 1 .. NumThreads
      <3>1. running \in [Recordings -> 0 .. NumThreads]
        BY DEF RecordingTypes
      <3>2. running[r] \in 0 .. NumThreads
        BY <3>1
      <3> QED  BY <1>3, <3>2
    <2>3. /\ running'[r] = running[r] - 1
          /\ \A s \in Recordings \ {r} : running'[s] = running[s]
      BY <2>1 DEF RecordingTypes
    <2>4. running' \in [Recordings -> 0 .. NumThreads]
      <3>1. running \in [Recordings -> 0 .. NumThreads]
        BY DEF RecordingTypes
      <3>2. running[r] - 1 \in 0 .. NumThreads
        BY <2>2
      <3> QED  BY <2>1, <3>1, <3>2
    <2> QED  BY <2>2, <2>3, <2>4
  <1>5. \A s \in Recordings \ {r} : noted'[s] = noted[s]
    BY <1>1 DEF RecordingTypes
  <1>6. noted' \in [Recordings -> Notes]
    BY <1>1 DEF RecordingTypes, Notes, Worst
  <1>7. ControlTypes' /\ RecordingTypes'
    BY <1>2, <1>4, <1>6 DEF ControlTypes, RecordingTypes
  <1>8. Unborn'
    BY <1>2, <1>4 DEF Unborn
  <1>9. Making'
    BY <1>2, <1>4 DEF Making
  <1>10. Discarding'
    BY <1>2, <1>4 DEF Discarding
  <1>11. Ending'
    BY <1>2, <1>4 DEF Ending
  <1>12. AliveWhileUsed'
    BY <1>2, <1>4 DEF AliveWhileUsed
  <1>13. ReportIsFinal'
    BY <1>2, <1>3, <1>4, <1>5 DEF ReportIsFinal, Reported
  <1>14. Stopping'
    BY <1>2, <1>4 DEF Stopping
  <1> QED  BY <1>7, <1>8, <1>9, <1>10, <1>11, <1>12, <1>13, <1>14

\* A manage thread in the copy manager: nothing of the recordings changes.
LEMMA ManagerCopies ==
    ASSUME IInv, NEW r \in Recordings, UseCopyManager(r)
    PROVE  IInv'
  <1> USE RecordingsAssumption, ThreadsAssumption DEF IInv
  <1> DEFINE Inside == {"clearArgs", "addArgs", "stopProcess", "terminate", "spawn",
                       "compare"}
  <1>1. /\ pc[r] \in Inside
        /\ \E place \in Inside : Going(r, place)
        /\ UNCHANGED <<shared, recordings, held, call, misled>>
    BY DEF UseCopyManager, ClearSrcDest, AddSrcDest, StopProcess, Terminate, Spawn,
           history
  <1>2. /\ pc' \in [Threads -> Places]
        /\ pc'[r] \in Inside
        /\ \A u \in Threads \ {r} : pc'[u] = pc[u]
    BY <1>1 DEF Going, ControlTypes
  <1>3. pc'[ORB] = pc[ORB]
    BY <1>2
  <1>4. ControlTypes' /\ RecordingTypes'
    BY <1>1, <1>2 DEF ControlTypes, RecordingTypes, shared, recordings
  <1>5. Unborn'
    BY <1>1, <1>2, <1>3 DEF Unborn, shared, recordings
  <1>6. Making'
    BY <1>1, <1>2, <1>3 DEF Making, shared, recordings
  <1>7. Discarding'
    BY <1>1, <1>3 DEF Discarding, shared, recordings
  <1>8. Ending'
    BY <1>1, <1>2 DEF Ending, shared, recordings
  <1>9. AliveWhileUsed' /\ ReportIsFinal'
    BY <1>1 DEF AliveWhileUsed, ReportIsFinal, Reported, shared, recordings
  <1>10. Stopping'
    BY <1>1, <1>3 DEF Stopping, shared, recordings
  <1> QED  BY <1>4, <1>5, <1>6, <1>7, <1>8, <1>9, <1>10

\* The ORB's thread in the copy manager, from Start.
LEMMA StartCopies ==
    ASSUME IInv, UseCopyManager(ORB)
    PROVE  IInv'
  <1> USE RecordingsAssumption, ThreadsAssumption DEF IInv
  <1> DEFINE Inside == {"stopProcess", "terminate", "spawn"}
  <1>1. /\ \/ /\ pc[ORB] \in {"clearArgs", "addArgs"}
              /\ Going(ORB, "addArgs") \/ Going(ORB, "stopProcess")
              /\ UNCHANGED <<held, call>>
           \/ /\ pc[ORB] \in Inside
              /\ \E place \in Inside : Going(ORB, place)
              /\ UNCHANGED <<held, call>>
           \/ /\ pc[ORB] = "spawn" /\ call = "discard"
              /\ Going(ORB, "idle") /\ held' = 0 /\ call' = "none"
           \/ /\ pc[ORB] = "spawn" /\ call # "discard"
              /\ Going(ORB, "newRecording") /\ UNCHANGED <<held, call>>
        /\ UNCHANGED <<shared, recordings, misled>>
    BY DEF UseCopyManager, ClearSrcDest, AddSrcDest, StopProcess, Terminate, Spawn,
           history
  <1>2. /\ pc' \in [Threads -> Places]
        /\ \A r \in Recordings : pc'[r] = pc[r]
    BY <1>1 DEF Going, ControlTypes
  <1>3. /\ pc[ORB] \in {"clearArgs", "addArgs", "stopProcess", "terminate", "spawn"}
        /\ \/ /\ pc[ORB] \in {"clearArgs", "addArgs"}
              /\ pc'[ORB] \in {"addArgs", "stopProcess"} /\ held' = held /\ call' = call
           \/ /\ pc[ORB] \in Inside
              /\ pc'[ORB] \in Inside /\ held' = held /\ call' = call
           \/ /\ pc[ORB] = "spawn" /\ call = "discard"
              /\ pc'[ORB] = "idle" /\ held' = 0 /\ call' = "none"
           \/ /\ pc[ORB] = "spawn" /\ call # "discard"
              /\ pc'[ORB] = "newRecording" /\ held' = held /\ call' = call
    BY <1>1 DEF Going, ControlTypes
  <1>4. ControlTypes' /\ RecordingTypes'
    <2>1. held' \in {0, held}
      BY <1>3
    <2>2. held' \in 0 .. MaxRecordings
      BY <2>1 DEF ControlTypes
    <2> QED  BY <1>1, <1>2, <2>2 DEF ControlTypes, RecordingTypes, shared, recordings
  <1>5. Unborn'
    BY <1>1, <1>2, <1>3 DEF Unborn, shared, recordings
  <1>6. Making'
    BY <1>1, <1>2, <1>3 DEF Making, Discarding, shared, recordings
  <1>7. Discarding'
    BY <1>1, <1>3 DEF Discarding, shared, recordings
  <1>8. Ending'
    BY <1>1, <1>2 DEF Ending, shared, recordings
  <1>9. AliveWhileUsed' /\ ReportIsFinal'
    BY <1>1 DEF AliveWhileUsed, ReportIsFinal, Reported, shared, recordings
  <1>10. Stopping'
    <2>1. \A r \in Recordings : running[r] > 0 /\ ~target[r] => misled
      BY <1>3 DEF Stopping
    <2> QED  BY <1>1, <2>1 DEF Stopping, recordings
  <1> QED  BY <1>4, <1>5, <1>6, <1>7, <1>8, <1>9, <1>10

\* Neither the server nor a stuttering step touches what the invariant is about.
LEMMA OthersKeep ==
    ASSUME IInv, UNCHANGED <<shared, recordings, pc, held, call, misled>>
    PROVE  IInv'
  <1> USE DEF IInv, shared, recordings
  <1>1. ControlTypes' /\ RecordingTypes'
    BY DEF ControlTypes, RecordingTypes
  <1>2. Unborn' /\ Making' /\ Discarding'
    BY DEF Unborn, Making, Discarding
  <1>3. Ending' /\ Stopping'
    BY DEF Ending, Stopping
  <1>4. AliveWhileUsed' /\ ReportIsFinal'
    BY DEF AliveWhileUsed, ReportIsFinal, Reported
  <1> QED  BY <1>1, <1>2, <1>3, <1>4

\* The invariant holds at first.
LEMMA InitiallyIInv == Init => IInv
  <1> SUFFICES ASSUME Init PROVE IInv
    OBVIOUS
  <1> USE RecordingsAssumption, ThreadsAssumption DEF Init
  <1>1. ControlTypes /\ RecordingTypes
    BY DEF ControlTypes, RecordingTypes, Notes
  <1>2. Unborn /\ Making /\ Discarding
    BY DEF Unborn, Making, Discarding
  <1>3. Ending /\ Stopping
    BY DEF Ending, Stopping
  <1>4. AliveWhileUsed /\ ReportIsFinal
    BY DEF AliveWhileUsed, ReportIsFinal
  <1> QED  BY <1>1, <1>2, <1>3, <1>4 DEF IInv

\* The invariant is inductive.
LEMMA NextKeeps == IInv /\ [Next]_vars => IInv'
  <1> SUFFICES ASSUME IInv, [Next]_vars PROVE IInv'
    OBVIOUS
  <1>1. CASE CallStart \/ CallStop \/ FinishCall
    BY <1>1, CallStartKeeps, CallStopKeeps, TestPointerKeeps, StopRecordingKeeps,
       ReadNamesKeeps, ClearPointerKeeps, NewIndexKeeps, NewRecordingKeeps,
       StartThreadsKeeps, NoteRecordingKeeps, DiscardKeeps
       DEF FinishCall
  <1>2. CASE \E r \in Recordings : EndThread(r) \/ Manage(r)
    BY <1>2, EndThreadKeeps, JoinThreadsKeeps, ComparePointerKeeps,
       ForgetPointerKeeps, DeleteRecordingKeeps
       DEF Manage
  <1>3. CASE \E t \in Threads : UseCopyManager(t)
    BY <1>3, ManagerCopies, StartCopies
  <1>4. CASE \E c \in clients : ServeClient(c)
    BY <1>4, OthersKeep DEF ServeClient, history
  <1>5. CASE UNCHANGED vars
    BY <1>5, OthersKeep DEF vars, history
  <1> QED  BY <1>1, <1>2, <1>3, <1>4, <1>5 DEF Next

\* The inductive invariant holds in every behaviour.
LEMMA Invariance == Spec => []IInv
  BY InitiallyIInv, NextKeeps, PTL DEF Spec

\* A recording is not deleted while the control points to it, nor while one of
\* its own threads runs: whatever the number of recordings and of their
\* threads, and wherever Start and Stop find the manage threads.
THEOREM RecordingsAreAlive == Spec => []AliveWhileUsed
  <1>1. IInv => AliveWhileUsed
    BY DEF IInv
  <1> QED  BY Invariance, <1>1, PTL

\* What is reported of a recording is what all of its threads have noted.
THEOREM ReportsAreFinal == Spec => []ReportIsFinal
  <1>1. IInv => ReportIsFinal
    BY DEF IInv
  <1> QED  BY Invariance, <1>1, PTL

\* A recording that goes on without a target duration is the one that the next
\* Stop or Start reaches, unless the pointer to it was cleared in the stead of
\* another's.
THEOREM RecordingsCanBeStopped == Spec => []CurrentIsStoppable
  <1>1. IInv => CurrentIsStoppable
    BY DEF IInv, Stopping, CurrentIsStoppable
  <1> QED  BY Invariance, <1>1, PTL
-----------------------------------------------------------------------------
(* The clients, the copy manager and the server: a second inductive          *)
(* invariant, beside the first.                                              *)

ManagePlaces ==
    {"none", "join", "clearArgs", "addArgs", "stopProcess", "terminate", "spawn",
     "compare", "forget", "delete", "gone"}

\* The manage thread has spawned the client that is to tell the server.
Told == {"compare", "forget", "delete", "gone"}

MessageTypes ==
    /\ mRecording \in BOOLEAN /\ mPid \in Nat /\ mArgs \in BOOLEAN
    /\ call \in {"none", "start", "stop", "discard"}
    /\ clients \subseteq [pid : Nat \ {0}, message : Messages]
    /\ \A c, d \in clients : c.pid = d.pid => c = d
    /\ events \subseteq 0 .. MaxRecordings
    /\ limit = (events # {})

\* Start has a recording in its hand, which if it is to be deleted has no
\* manage thread.
Starting == {"stopProcess", "terminate", "spawn"}
Holding ==
    /\ pc[ORB] \in Starting \cup {"clearArgs", "addArgs", "newRecording", "startThreads",
                                 "noteRecording", "discard"}
       => /\ held \in Recordings /\ held < mRecordingIndex
          /\ call = "discard" => pc[held] = "none"
    /\ \A r \in Recordings : pc[r] \in ManagePlaces
    /\ pc[ORB] \notin Told

\* The recordings for which the client that tells of the start has been spawned,
\* and those for which the one that tells of the end has been, or never will be.
\* There are no more clients than these, and the first.
HeldIn(r, places) == held = r /\ pc[ORB] \in places
SpentStarts ==
    {r \in Recordings : r < mRecordingIndex /\ ~(HeldIn(r, Starting) /\ call # "discard")}
SpentEnds ==
    {r \in Recordings :
        /\ r < mRecordingIndex
        /\ \/ pc[r] \in Told
           \/ /\ pc[r] = "none"
              /\ ~HeldIn(r, Starting \cup {"clearArgs", "addArgs", "newRecording",
                                          "startThreads", "noteRecording", "discard"})}
Counted ==
    /\ IsFiniteSet(clients)
    /\ Cardinality(clients) <= 1 + Cardinality(SpentStarts) + Cardinality(SpentEnds)

\* There is a pair of directories but while one is being set.
PairsSet == mArgs \/ \E t \in Threads : pc[t] = "addArgs"

\* While one thread at a time uses the copy manager there is one client at most,
\* and none when the next is spawned.
OneClient ==
    overlapped \/ /\ \A c \in clients : c.pid = mPid
                  /\ \A t \in Threads : pc[t] = "spawn" => clients = {}

\* Then the start of a recording is not told after its end, and the end is told,
\* unless the client that was to tell of it was ended.
StartsFirst ==
    overlapped \/ \A c \in clients : \A r \in Recordings :
        c.message = [index |-> r, pairs |-> FALSE] => pc[r] \notin Told \cup {"spawn"}
EndsTold ==
    overlapped \/ \A r \in Recordings :
        r \in events /\ pc[r] \in Told =>
            r \in lost \/ \E c \in clients : c.message = [index |-> r, pairs |-> TRUE]

ClientInv ==
    /\ MessageTypes /\ Holding /\ Counted
    /\ PairsSet /\ OneClient /\ StartsFirst /\ EndsTold

-----------------------------------------------------------------------------
(* Counting the clients. *)

\* A set of recordings is finite.
LEMMA RecordingsCounted ==
    ASSUME NEW S \in SUBSET Recordings
    PROVE  /\ IsFiniteSet(S) /\ Cardinality(S) \in Nat
           /\ Cardinality(S) <= MaxRecordings
  <1>1. MaxRecordings \in Nat /\ MaxRecordings > 0
    BY RecordingsAssumption
  <1>2. IsFiniteSet(1 .. MaxRecordings) /\ Cardinality(1 .. MaxRecordings) = MaxRecordings
    BY <1>1, FS_Interval
  <1>3. S \in SUBSET (1 .. MaxRecordings)
    OBVIOUS
  <1>4. IsFiniteSet(S) /\ Cardinality(S) <= Cardinality(1 .. MaxRecordings)
    BY <1>2, <1>3, FS_Subset
  <1>5. Cardinality(S) \in Nat
    BY <1>4, FS_CardinalityType
  <1> QED  BY <1>2, <1>4, <1>5

\* A larger set of recordings is larger by one at least.
LEMMA MoreRecordings ==
    ASSUME NEW T \in SUBSET Recordings, NEW S \in SUBSET T
    PROVE  /\ Cardinality(S) <= Cardinality(T)
           /\ S # T => Cardinality(S) + 1 <= Cardinality(T)
  <1>1. IsFiniteSet(T) /\ Cardinality(T) \in Nat
    BY RecordingsCounted
  <1>2. /\ Cardinality(S) <= Cardinality(T)
        /\ Cardinality(S) = Cardinality(T) => S = T
    BY <1>1, FS_Subset, Zenon
  <1>3. S \in SUBSET Recordings
    OBVIOUS
  <1>4. Cardinality(S) \in Nat
    BY <1>3, RecordingsCounted
  <1> QED  BY <1>1, <1>2, <1>4

LEMMA SpentRecordings ==
    SpentStarts \in SUBSET Recordings /\ SpentEnds \in SUBSET Recordings
  BY DEF SpentStarts, SpentEnds
LEMMA SpentRecordingsNext ==
    SpentStarts' \in SUBSET Recordings /\ SpentEnds' \in SUBSET Recordings
  BY DEF SpentStarts, SpentEnds

\* No client more, and no start and end less.
LEMMA CountKept ==
    ASSUME Counted, clients' \in SUBSET clients,
           SpentStarts \in SUBSET SpentStarts', SpentEnds \in SUBSET SpentEnds'
    PROVE  Counted'
  <1>1. /\ Cardinality(SpentStarts) <= Cardinality(SpentStarts')
        /\ Cardinality(SpentEnds) <= Cardinality(SpentEnds')
    BY SpentRecordingsNext, MoreRecordings
  <1>2. /\ Cardinality(SpentStarts) \in Nat /\ Cardinality(SpentStarts') \in Nat
        /\ Cardinality(SpentEnds) \in Nat /\ Cardinality(SpentEnds') \in Nat
    BY SpentRecordings, SpentRecordingsNext, RecordingsCounted
  <1>3. IsFiniteSet(clients) /\ Cardinality(clients) \in Nat
    BY FS_CardinalityType DEF Counted
  <1>4. IsFiniteSet(clients') /\ Cardinality(clients') <= Cardinality(clients)
    BY <1>3, FS_Subset
  <1>5. Cardinality(clients') \in Nat
    BY <1>4, FS_CardinalityType
  <1> QED  BY <1>1, <1>2, <1>3, <1>4, <1>5 DEF Counted

\* One client more, for a start or an end.
LEMMA CountSpawned ==
    ASSUME Counted, NEW c, clients' = clients \cup {c},
           SpentStarts \in SUBSET SpentStarts', SpentEnds \in SUBSET SpentEnds',
           SpentStarts # SpentStarts' \/ SpentEnds # SpentEnds'
    PROVE  /\ Counted'
           /\ IsFiniteSet(clients) /\ Cardinality(clients) <= 2 * MaxRecordings
  <1>1. /\ Cardinality(SpentStarts) <= Cardinality(SpentStarts')
        /\ SpentStarts # SpentStarts' =>
              Cardinality(SpentStarts) + 1 <= Cardinality(SpentStarts')
        /\ Cardinality(SpentEnds) <= Cardinality(SpentEnds')
        /\ SpentEnds # SpentEnds' => Cardinality(SpentEnds) + 1 <= Cardinality(SpentEnds')
    BY SpentRecordingsNext, MoreRecordings
  <1>2. /\ Cardinality(SpentStarts) \in Nat /\ Cardinality(SpentStarts') \in Nat
        /\ Cardinality(SpentEnds) \in Nat /\ Cardinality(SpentEnds') \in Nat
        /\ Cardinality(SpentStarts') <= MaxRecordings /\ Cardinality(SpentEnds') <= MaxRecordings
    BY SpentRecordings, SpentRecordingsNext, RecordingsCounted
  <1>3. IsFiniteSet(clients) /\ Cardinality(clients) \in Nat
        /\ Cardinality(clients) <= 1 + Cardinality(SpentStarts) + Cardinality(SpentEnds)
    BY FS_CardinalityType DEF Counted
  <1>4. /\ IsFiniteSet(clients \cup {c})
        /\ Cardinality(clients \cup {c}) =
              IF c \in clients THEN Cardinality(clients) ELSE Cardinality(clients) + 1
    BY <1>3, FS_AddElement
  <1>5. Cardinality(clients') <= Cardinality(clients) + 1 /\ Cardinality(clients') \in Nat
    BY <1>3, <1>4
  <1>6. Cardinality(SpentStarts) + Cardinality(SpentEnds) + 1
           <= Cardinality(SpentStarts') + Cardinality(SpentEnds')
    BY <1>1, <1>2
  <1>7. Counted'
    BY <1>2, <1>3, <1>4, <1>5, <1>6 DEF Counted
  <1> QED  BY <1>2, <1>3, <1>6, <1>7, RecordingsAssumption

\* Then a pid is free for it: fewer are in use than there are to choose from.
LEMMA FreePidFacts ==
    ASSUME MessageTypes, IsFiniteSet(clients), Cardinality(clients) <= 2 * MaxRecordings
    PROVE  FreePid \in Nat \ {0} /\ FreePid # mPid /\ ~Running(FreePid)
  <1> DEFINE pids == {c.pid : c \in clients}
             used == pids \cup {mPid}
             choice == 1 .. 2 * MaxRecordings + 2
             Less == {p \in Nat \X Nat : p[1] < p[2]}
  <1>1. MaxRecordings \in Nat
    BY RecordingsAssumption
  <1>2. IsFiniteSet(pids) /\ Cardinality(pids) <= Cardinality(clients)
    <2> DEFINE f == [c \in clients |-> c.pid]
    <2>1. f \in Surjection(clients, pids)
      BY DEF Surjection
    <2> QED  BY <2>1, FS_Surjection
  <1>3. Cardinality(clients) \in Nat /\ Cardinality(pids) \in Nat
    BY <1>2, FS_CardinalityType
  <1>4. /\ IsFiniteSet(used)
        /\ Cardinality(used) = IF mPid \in pids THEN Cardinality(pids) ELSE Cardinality(pids) + 1
    BY <1>2, FS_AddElement
  <1>5. IsFiniteSet(choice) /\ Cardinality(choice) = 2 * MaxRecordings + 2
    BY <1>1, FS_Interval
  <1>6. \E p \in choice : p \notin used
    <2> SUFFICES ASSUME choice \in SUBSET used
                 PROVE  FALSE
      OBVIOUS
    <2>1. Cardinality(choice) <= Cardinality(used)
      BY <1>4, FS_Subset
    <2> HIDE DEF choice, used, pids
    <2> QED  BY <1>1, <1>2, <1>3, <1>4, <1>5, <2>1
  <1>7. \A p : p \in used <=> p = mPid \/ Running(p)
    BY DEF Running
  <1> DEFINE free == {p \in choice : p \notin used}
  <1>8. free \in SUBSET Nat /\ free # {}
    BY <1>1, <1>6
  <1> HIDE DEF used, pids
  <1>9. PICK p \in free : \A q \in free : ~(<<q, p>> \in Less)
    <2>1. IsWellFoundedOn(Less, Nat)
      BY NatLessThanWellFounded, Zenon DEF OpToRel
    <2> HIDE DEF free, Less
    <2> QED  BY <1>8, <2>1, WFMin
  <1>10. \A q \in free : p <= q
    <2> SUFFICES ASSUME NEW q \in free, ~(p <= q)
                 PROVE  FALSE
      OBVIOUS
    <2>1. p \in Nat /\ q \in Nat /\ q < p
      BY <1>1
    <2>2. <<q, p>> \in Nat \X Nat /\ <<q, p>>[1] < <<q, p>>[2]
      BY <2>1
    <2> QED  BY <1>9, <2>2
  <1>11. \A q \in 1 .. p - 1 : q \in used
    <2> SUFFICES ASSUME NEW q \in 1 .. p - 1, q \notin used
                 PROVE  FALSE
      OBVIOUS
    <2>1. p \in Nat /\ p <= 2 * MaxRecordings + 2
      BY <1>1
    <2>2. q \in free /\ q < p
      BY <1>1, <2>1
    <2> QED  BY <1>10, <2>1, <2>2
  <1> DEFINE Free(x) == /\ x # mPid /\ ~Running(x)
                        /\ \A q \in 1 .. x - 1 : q = mPid \/ Running(q)
  <1>12. p \in choice /\ Free(p)
    BY <1>7, <1>11
  <1> HIDE DEF Free, free
  <1>13. FreePid = CHOOSE x \in choice : Free(x)
    BY DEF FreePid, Free
  <1>14. FreePid \in choice /\ Free(FreePid)
    BY <1>12, <1>13
  <1> QED  BY <1>1, <1>14 DEF Free
-----------------------------------------------------------------------------
(* Every step keeps the second invariant. *)

\* The places of a thread that takes a step.
LEMMA Goes ==
    ASSUME IInv, NEW t \in Threads, NEW place \in Places, Going(t, place)
    PROVE  /\ pc' \in [Threads -> Places] /\ pc'[t] = place
           /\ \A u \in Threads \ {t} : pc'[u] = pc[u]
  BY DEF IInv, ControlTypes, Going

\* A step that leaves the clients and the server alone, and in which nobody gets
\* to the spawning of a client or past it.
LEMMA QuietKeeps ==
    ASSUME ClientInv, UNCHANGED <<clients, mPid, events, limit, lost, overlapped>>,
           mArgs' \in BOOLEAN, mRecording' \in BOOLEAN,
           call' \in {"none", "start", "stop", "discard"}, PairsSet', Holding',
           \A t \in Threads : pc'[t] = "spawn" => pc[t] = "spawn",
           \A r \in Recordings : pc'[r] \in Told => pc[r] \in Told,
           SpentStarts \in SUBSET SpentStarts', SpentEnds \in SUBSET SpentEnds'
    PROVE  ClientInv'
  <1>1. /\ MessageTypes /\ Holding /\ Counted
        /\ PairsSet /\ OneClient /\ StartsFirst /\ EndsTold
    BY DEF ClientInv
  <1>2. MessageTypes'
    BY <1>1 DEF MessageTypes
  <1>3. Counted'
    BY <1>1, CountKept
  <1>4. OneClient'
    BY <1>1 DEF OneClient
  <1>5. StartsFirst'
    BY <1>1 DEF StartsFirst
  <1>6. EndsTold'
    BY <1>1 DEF EndsTold
  <1> QED  BY <1>2, <1>3, <1>4, <1>5, <1>6 DEF ClientInv

\* Calls begin, and a recording is told to stop.
LEMMA CallsTell ==
    ASSUME IInv, ClientInv,
           \/ CallStart \/ CallStop \/ TestPointer \/ StopRecording \/ ReadNames
           \/ ClearPointer
    PROVE  ClientInv'
  <1> DEFINE Early == {"idle", "testPointer", "stopRecording", "readNames", "clearPointer"}
  <1>1. /\ UNCHANGED <<clients, mPid, mArgs, events, limit, lost, overlapped, mRecordingIndex>>
        /\ mRecording' \in {mRecording, FALSE} /\ call' \in {call, "start", "stop", "none"}
        /\ pc[ORB] \in Early
        /\ \E place \in Early \cup {"newIndex"} : Going(ORB, place)
    BY DEF CallStart, CallStop, TestPointer, StopRecording, ReadNames, ClearPointer,
           shared, copyManager, recordings, server, history
  <1>2. /\ pc'[ORB] \in Early \cup {"newIndex"}
        /\ \A r \in Recordings : pc'[r] = pc[r]
    BY <1>1, Goes
  <1>3. MessageTypes /\ Holding /\ PairsSet
    BY DEF ClientInv
  <1>4. mRecording' \in BOOLEAN
    BY <1>1, <1>3, Zenon DEF MessageTypes
  <1>5. mArgs' \in BOOLEAN /\ call' \in {"none", "start", "stop", "discard"}
    BY <1>1, <1>3 DEF MessageTypes
  <1>6. Holding'
    BY <1>2, <1>3 DEF Holding, ManagePlaces, Starting, Told
  <1>7. PairsSet'
    BY <1>1, <1>2, <1>3 DEF PairsSet
  <1>8. SpentStarts \in SUBSET SpentStarts' /\ SpentEnds \in SUBSET SpentEnds'
    BY <1>1, <1>2 DEF SpentStarts, SpentEnds, HeldIn, Starting
  <1> QED  BY <1>1, <1>2, <1>4, <1>5, <1>6, <1>7, <1>8, QuietKeeps

\* A recording whose start and end are still to be told.
LEMMA NewIndexTells ==
    ASSUME IInv, ClientInv, NewIndex
    PROVE  ClientInv'
  <1>1. /\ UNCHANGED <<clients, mPid, mArgs, events, limit, lost, overlapped, mRecording, call>>
        /\ mRecordingIndex' = mRecordingIndex + 1 /\ held' = mRecordingIndex
        /\ pc[ORB] = "newIndex" /\ Going(ORB, "stopProcess")
    BY DEF NewIndex, copyManager, recordings, server, history
  <1>2. pc'[ORB] = "stopProcess" /\ \A r \in Recordings : pc'[r] = pc[r]
    BY <1>1, Goes
  <1>3. MessageTypes /\ Holding /\ PairsSet
    BY DEF ClientInv
  <1>4. mRecordingIndex \in Recordings /\ call # "discard"
    BY <1>1, RecordingsAssumption DEF IInv, ControlTypes, Unborn, Discarding
  <1>5. mRecording' \in BOOLEAN
    BY <1>1, <1>3, Zenon DEF MessageTypes
  <1>6. mArgs' \in BOOLEAN /\ call' \in {"none", "start", "stop", "discard"}
    BY <1>1, <1>3 DEF MessageTypes
  <1>7. Holding'
    BY <1>1, <1>2, <1>3, <1>4 DEF Holding, Told
  <1>8. PairsSet'
    BY <1>1, <1>2, <1>3 DEF PairsSet
  <1>9. SpentStarts \in SUBSET SpentStarts' /\ SpentEnds \in SUBSET SpentEnds'
    BY <1>1, <1>2, <1>4 DEF SpentStarts, SpentEnds, HeldIn, Starting
  <1> QED  BY <1>1, <1>2, <1>5, <1>6, <1>7, <1>8, <1>9, QuietKeeps

\* The recording is made, runs, or is deleted.
LEMMA MakingTells ==
    ASSUME IInv, ClientInv, NewRecording \/ NoteRecording \/ Discard
    PROVE  ClientInv'
  <1> DEFINE Early == {"newRecording", "noteRecording", "discard"}
  <1>1. /\ UNCHANGED <<clients, mPid, mArgs, events, limit, lost, overlapped, mRecordingIndex>>
        /\ mRecording' \in {mRecording, TRUE} /\ call' \in {call, "discard", "none"}
        /\ pc[ORB] \in Early
        /\ \/ Going(ORB, "idle")
           \/ /\ \E place \in {"startThreads", "discard", "clearArgs"} : Going(ORB, place)
              /\ held' = held
              /\ pc[ORB] = "newRecording" \/ call' = call
    BY DEF NewRecording, NoteRecording, Discard, copyManager, recordings, server, history, shared
  <1>2. /\ \A r \in Recordings : pc'[r] = pc[r]
        /\ \/ pc'[ORB] = "idle"
           \/ /\ pc'[ORB] \in {"startThreads", "discard", "clearArgs"}
              /\ held' = held
              /\ pc[ORB] = "newRecording" \/ call' = call
    BY <1>1, Goes
  <1>3. MessageTypes /\ Holding /\ PairsSet
    BY DEF ClientInv
  <1>4. mRecording' \in BOOLEAN
    BY <1>1, <1>3, Zenon DEF MessageTypes
  <1>5. mArgs' \in BOOLEAN /\ call' \in {"none", "start", "stop", "discard"}
    BY <1>1, <1>3 DEF MessageTypes
  <1>6. pc[ORB] = "newRecording" => pc[held] = "none"
    BY DEF IInv, Making
  <1>7. Holding'
    BY <1>1, <1>2, <1>3, <1>6 DEF Holding, ManagePlaces, Starting, Told
  <1>8. PairsSet'
    BY <1>1, <1>2, <1>3 DEF PairsSet
  <1>9. SpentStarts \in SUBSET SpentStarts' /\ SpentEnds \in SUBSET SpentEnds'
    BY <1>1, <1>2 DEF SpentStarts, SpentEnds, HeldIn, Starting
  <1> QED  BY <1>1, <1>2, <1>4, <1>5, <1>7, <1>8, <1>9, QuietKeeps

\* The manage thread is there if a record thread is, and then nothing is deleted.
LEMMA StartThreadsTells ==
    ASSUME IInv, ClientInv, StartThreads
    PROVE  ClientInv'
  <1>1. /\ UNCHANGED <<clients, mPid, mArgs, events, limit, lost, overlapped,
                       mRecording, mRecordingIndex, held>>
        /\ pc[ORB] = "startThreads"
    BY DEF StartThreads, shared, copyManager, server, history
  <1>2. /\ held \in Recordings /\ pc[held] = "none" /\ call # "discard"
    BY <1>1 DEF IInv, Making, Discarding
  <1>3. /\ pc'[ORB] = "noteRecording" /\ pc'[held] \in {"none", "join"}
        /\ \A r \in Recordings \ {held} : pc'[r] = pc[r]
        /\ call' \in {call, "discard"} /\ (call' = "discard" => pc'[held] = "none")
    <2>1. PICK n \in 0 .. NumThreads, managed \in BOOLEAN :
             /\ pc' = [pc EXCEPT ![ORB] = "noteRecording",
                                 ![held] = IF n > 0 /\ managed THEN "join" ELSE @]
             /\ call' = IF n = 0 THEN "discard" ELSE call
      BY DEF StartThreads
    <2>2. pc \in [Threads -> Places]
      BY DEF IInv, ControlTypes
    <2>3. CASE n > 0 /\ managed
      <3>1. pc' = [pc EXCEPT ![ORB] = "noteRecording", ![held] = "join"]
        BY <2>1, <2>3
      <3>2. call' = call
        BY <2>1, <2>3
      <3> QED  BY <1>2, <2>2, <3>1, <3>2
    <2>4. CASE ~(n > 0 /\ managed)
      <3>1. pc' = [pc EXCEPT ![ORB] = "noteRecording", ![held] = @]
        BY <2>1, <2>4
      <3> QED  BY <1>2, <2>1, <2>2, <3>1
    <2> QED  BY <2>3, <2>4
  <1>4. MessageTypes /\ Holding /\ PairsSet
    BY DEF ClientInv
  <1>5. mArgs' \in BOOLEAN /\ mRecording' \in BOOLEAN
        /\ call' \in {"none", "start", "stop", "discard"}
    BY <1>1, <1>3, <1>4 DEF MessageTypes
  <1>6. Holding'
    BY <1>1, <1>2, <1>3, <1>4 DEF Holding, ManagePlaces, Told
  <1>7. PairsSet'
    BY <1>1, <1>2, <1>3, <1>4 DEF PairsSet
  <1>8. SpentStarts \in SUBSET SpentStarts' /\ SpentEnds \in SUBSET SpentEnds'
    BY <1>1, <1>2, <1>3 DEF SpentStarts, SpentEnds, HeldIn, Starting, Told
  <1>9. /\ \A t \in Threads : pc'[t] = "spawn" => pc[t] = "spawn"
        /\ \A r \in Recordings : pc'[r] \in Told => pc[r] \in Told
    BY <1>1, <1>2, <1>3 DEF Told
  <1> QED  BY <1>1, <1>5, <1>6, <1>7, <1>8, <1>9, QuietKeeps

\* Record threads end, and the manage thread goes on to the copy manager or from
\* it to the end.
LEMMA ManagingTells ==
    ASSUME IInv, ClientInv, NEW r \in Recordings, EndThread(r) \/ Manage(r)
    PROVE  ClientInv'
  <1>1. /\ UNCHANGED <<clients, mPid, mArgs, events, limit, lost, overlapped,
                       mRecording, mRecordingIndex, held, call>>
        /\ \/ UNCHANGED pc
           \/ pc[r] = "join" /\ Going(r, "clearArgs")
           \/ pc[r] \in Told /\ \E place \in Told : Going(r, place)
    BY DEF EndThread, Manage, JoinThreads, ComparePointer, ForgetPointer, DeleteRecording,
           Told, shared, copyManager, recordings, server, history
  <1>2. /\ \A t \in Threads \ {r} : pc'[t] = pc[t]
        /\ \/ pc'[r] = pc[r]
           \/ pc[r] = "join" /\ pc'[r] = "clearArgs"
           \/ pc[r] \in Told /\ pc'[r] \in Told
    <2>1. \A place \in Told : place \in Places
      BY DEF Told
    <2> QED  BY <1>1, <2>1, Goes
  <1>3. MessageTypes /\ Holding /\ PairsSet
    BY DEF ClientInv
  <1>4. mArgs' \in BOOLEAN /\ mRecording' \in BOOLEAN
        /\ call' \in {"none", "start", "stop", "discard"}
    BY <1>1, <1>3 DEF MessageTypes
  <1>5. Holding'
    BY <1>1, <1>2, <1>3 DEF Holding, ManagePlaces, Told
  <1>6. PairsSet'
    BY <1>1, <1>2, <1>3 DEF PairsSet, Told
  <1>7. SpentStarts \in SUBSET SpentStarts' /\ SpentEnds \in SUBSET SpentEnds'
    BY <1>1, <1>2 DEF SpentStarts, SpentEnds, HeldIn, Starting, Told
  <1>8. /\ \A t \in Threads : pc'[t] = "spawn" => pc[t] = "spawn"
        /\ \A q \in Recordings : pc'[q] \in Told => pc[q] \in Told
    BY <1>2 DEF Told
  <1> QED  BY <1>1, <1>4, <1>5, <1>6, <1>7, <1>8, QuietKeeps

\* In the copy manager nobody takes a recording in hand or lets it go: what is
\* spent stays so.
Inside == {"clearArgs", "addArgs", "stopProcess", "terminate", "spawn"}
LEMMA InsideKeeps ==
    ASSUME IInv, Holding, NEW t \in Threads, pc[t] \in Inside,
           NEW place \in Inside, Going(t, place),
           UNCHANGED <<mRecordingIndex, held, call>>
    PROVE  /\ Holding' /\ pc'[t] = place /\ \A u \in Threads \ {t} : pc'[u] = pc[u]
           /\ SpentStarts \in SUBSET SpentStarts' /\ SpentEnds \in SUBSET SpentEnds'
           /\ \A r \in Recordings : pc'[r] \in Told => pc[r] \in Told
  <1>1. pc'[t] = place /\ \A u \in Threads \ {t} : pc'[u] = pc[u]
    BY Goes DEF Inside
  <1>2. Holding'
    BY <1>1 DEF Holding, Inside, ManagePlaces, Starting, Told
  <1>3. pc[ORB] \in {"clearArgs", "addArgs"} => call = "discard"
    BY DEF IInv, Discarding
  <1>4. SpentStarts \in SUBSET SpentStarts'
    BY <1>1, <1>3 DEF SpentStarts, HeldIn, Starting, Inside
  <1>5. SpentEnds \in SUBSET SpentEnds'
    BY <1>1 DEF SpentEnds, HeldIn, Starting, Inside, Told
  <1>6. \A r \in Recordings : pc'[r] \in Told => pc[r] \in Told
    BY <1>1 DEF Told, Inside
  <1> QED  BY <1>1, <1>2, <1>4, <1>5, <1>6

\* The pairs are cleared, and set.
LEMMA ArgsTell ==
    ASSUME IInv, ClientInv, NEW t \in Threads, ClearSrcDest(t) \/ AddSrcDest(t)
    PROVE  ClientInv'
  <1>1. /\ UNCHANGED <<clients, mPid, events, limit, lost, overlapped,
                       mRecording, mRecordingIndex, held, call>>
        /\ \/ pc[t] = "clearArgs" /\ Going(t, "addArgs") /\ mArgs' = FALSE
           \/ pc[t] = "addArgs" /\ Going(t, "stopProcess") /\ mArgs' = TRUE
    BY DEF ClearSrcDest, AddSrcDest, shared, recordings, server, history
  <1>2. MessageTypes /\ Holding
    BY DEF ClientInv
  <1>3. /\ Holding' /\ pc'[t] \in {"addArgs", "stopProcess"}
        /\ \A u \in Threads \ {t} : pc'[u] = pc[u]
        /\ SpentStarts \in SUBSET SpentStarts' /\ SpentEnds \in SUBSET SpentEnds'
        /\ \A r \in Recordings : pc'[r] \in Told => pc[r] \in Told
        /\ pc[t] = "clearArgs" => pc'[t] = "addArgs"
    BY <1>1, <1>2, InsideKeeps DEF Inside
  <1>4. mArgs' \in BOOLEAN /\ mRecording' \in BOOLEAN
        /\ call' \in {"none", "start", "stop", "discard"}
    BY <1>1, <1>2 DEF MessageTypes
  <1>5. PairsSet'
    BY <1>1, <1>3 DEF PairsSet
  <1>6. \A u \in Threads : pc'[u] = "spawn" => pc[u] = "spawn"
    BY <1>3
  <1> QED  BY <1>1, <1>3, <1>4, <1>5, <1>6, QuietKeeps

\* A client that has exited is reaped; when no other thread is in the copy manager
\* it was the only one.
LEMMA StopProcessTells ==
    ASSUME IInv, ClientInv, NEW t \in Threads, StopProcess(t)
    PROVE  ClientInv'
  <1>1. /\ UNCHANGED <<clients, mArgs, events, limit, lost, overlapped,
                       mRecording, mRecordingIndex, held, call>>
        /\ pc[t] = "stopProcess"
        /\ \/ /\ mPid' = 0 /\ Going(t, "spawn")
              /\ mPid = 0 \/ ~Running(mPid)
           \/ mPid' = mPid /\ Going(t, "terminate")
    BY DEF StopProcess, shared, recordings, server, history
  <1>2. /\ MessageTypes /\ Holding /\ Counted
        /\ PairsSet /\ OneClient /\ StartsFirst /\ EndsTold
    BY DEF ClientInv
  <1>3. /\ Holding' /\ pc'[t] \in {"spawn", "terminate"}
        /\ \A u \in Threads \ {t} : pc'[u] = pc[u]
        /\ SpentStarts \in SUBSET SpentStarts' /\ SpentEnds \in SUBSET SpentEnds'
        /\ \A r \in Recordings : pc'[r] \in Told => pc[r] \in Told
        /\ pc'[t] = "spawn" => mPid' = 0 /\ (mPid = 0 \/ ~Running(mPid))
        /\ pc'[t] # "spawn" => mPid' = mPid
    BY <1>1, <1>2, InsideKeeps DEF Inside
  <1>4. MessageTypes'
    BY <1>1, <1>2, <1>3 DEF MessageTypes
  <1>5. Counted'
    BY <1>1, <1>2, <1>3, CountKept
  <1>6. PairsSet'
    BY <1>1, <1>2, <1>3 DEF PairsSet
  <1>7. \A c \in clients : c.pid # 0
    BY <1>2 DEF MessageTypes
  <1>8. pc'[t] = "spawn" /\ ~overlapped => clients = {}
    BY <1>2, <1>3, <1>7 DEF OneClient, Running
  <1>9. OneClient'
    BY <1>1, <1>2, <1>3, <1>8 DEF OneClient
  <1>10. StartsFirst'
    BY <1>1, <1>2, <1>3, <1>8 DEF StartsFirst
  <1>11. EndsTold'
    BY <1>1, <1>2, <1>3 DEF EndsTold
  <1> QED  BY <1>3, <1>4, <1>5, <1>6, <1>9, <1>10, <1>11 DEF ClientInv

\* One that is still running is ended, and what it was to tell is lost.
LEMMA TerminateTells ==
    ASSUME IInv, ClientInv, NEW t \in Threads, Terminate(t)
    PROVE  ClientInv'
  <1>1. /\ UNCHANGED <<mArgs, events, limit, overlapped,
                       mRecording, mRecordingIndex, held, call>>
        /\ pc[t] = "terminate" /\ Going(t, "spawn")
        /\ clients' = {c \in clients : c.pid # mPid} /\ mPid' \in {0, mPid}
        /\ lost' = lost \cup
              {c.message.index : c \in {d \in clients \ clients' : d.message.pairs}}
    BY DEF Terminate, shared, recordings, server, history
  <1>2. /\ MessageTypes /\ Holding /\ Counted
        /\ PairsSet /\ OneClient /\ StartsFirst /\ EndsTold
    BY DEF ClientInv
  <1>3. /\ Holding' /\ pc'[t] = "spawn"
        /\ \A u \in Threads \ {t} : pc'[u] = pc[u]
        /\ SpentStarts \in SUBSET SpentStarts' /\ SpentEnds \in SUBSET SpentEnds'
        /\ \A r \in Recordings : pc'[r] \in Told => pc[r] \in Told
    BY <1>1, <1>2, InsideKeeps DEF Inside
  <1>4. clients' \subseteq clients
    BY <1>1
  <1>5. MessageTypes'
    BY <1>1, <1>2, <1>4 DEF MessageTypes
  <1>6. Counted'
    BY <1>2, <1>3, <1>4, CountKept
  <1>7. PairsSet'
    BY <1>1, <1>2, <1>3 DEF PairsSet
  <1>8. ~overlapped => clients' = {}
    BY <1>1, <1>2 DEF OneClient
  <1>9. OneClient'
    BY <1>1, <1>8 DEF OneClient
  <1>10. StartsFirst'
    BY <1>1, <1>8 DEF StartsFirst
  <1>11. EndsTold'
    <2> SUFFICES ASSUME ~overlapped, NEW r \in Recordings, r \in events, pc'[r] \in Told,
                        r \notin lost
                 PROVE  r \in lost'
      BY <1>1 DEF EndsTold
    <2>1. PICK c \in clients : c.message = [index |-> r, pairs |-> TRUE]
      BY <1>2, <1>3 DEF EndsTold
    <2>2. c \in clients \ clients' /\ c.message.pairs /\ c.message.index = r
      BY <1>8, <2>1
    <2> QED  BY <1>1, <2>2
  <1> QED  BY <1>3, <1>5, <1>6, <1>7, <1>9, <1>10, <1>11 DEF ClientInv

\* A client is spawned: that of a recording's start before that of its end, and
\* that of its end with pairs to copy, or another thread is in the copy manager.
LEMMA SpawnTells ==
    ASSUME IInv, ClientInv, NEW t \in Threads, Spawn(t)
    PROVE  ClientInv'
  <1> DEFINE new == [pid |-> FreePid, message |-> MessageOf(t)]
  <1>1. /\ UNCHANGED <<mArgs, events, limit, lost, mRecording, mRecordingIndex>>
        /\ pc[t] = "spawn"
        /\ clients' = clients \cup {new} /\ mPid' = FreePid
        /\ overlapped' = (overlapped \/ \E u \in Threads \ {t} : InCopyManager(u))
    BY DEF Spawn, shared, recordings, server
  <1>2. /\ MessageTypes /\ Holding /\ Counted
        /\ PairsSet /\ OneClient /\ StartsFirst /\ EndsTold
    BY DEF ClientInv
  <1>3. /\ t # ORB => Going(t, "compare") /\ held' = held /\ call' = call
        /\ t = ORB /\ call = "discard" => Going(t, "idle") /\ held' = 0 /\ call' = "none"
        /\ t = ORB /\ call # "discard" => Going(t, "newRecording") /\ held' = held /\ call' = call
    BY DEF Spawn
  <1>4. /\ t # ORB => pc'[t] = "compare"
        /\ t = ORB /\ call = "discard" => pc'[t] = "idle"
        /\ t = ORB /\ call # "discard" => pc'[t] = "newRecording"
        /\ \A u \in Threads \ {t} : pc'[u] = pc[u]
    BY <1>3, Goes
  <1>5. t = ORB => /\ held \in Recordings /\ held < mRecordingIndex
                   /\ pc[held] = "none"
    BY <1>1, <1>2 DEF Holding, Starting, IInv, Making
  <1>6. t # ORB => t \in Recordings /\ t < mRecordingIndex
    BY <1>1, RecordingsAssumption DEF IInv, ControlTypes, Unborn
  <1>7. SpentStarts \in SUBSET SpentStarts' /\ SpentEnds \in SUBSET SpentEnds'
    BY <1>1, <1>3, <1>4 DEF SpentStarts, SpentEnds, HeldIn, Starting, Told
  <1>8. SpentStarts # SpentStarts' \/ SpentEnds # SpentEnds'
    <2>1. CASE t # ORB
      <3>1. t \notin SpentEnds /\ t \in SpentEnds'
        BY <1>1, <1>4, <1>6, <2>1 DEF SpentEnds, Told
      <3> QED  BY <3>1
    <2>2. CASE t = ORB /\ call = "discard"
      <3>1. held \notin SpentEnds /\ held \in SpentEnds'
        BY <1>1, <1>3, <1>4, <1>5, <2>2 DEF SpentEnds, Told, HeldIn, Starting
      <3> QED  BY <3>1
    <2>3. CASE t = ORB /\ call # "discard"
      <3>1. held \notin SpentStarts /\ held \in SpentStarts'
        BY <1>1, <1>3, <1>4, <1>5, <2>3 DEF SpentStarts, HeldIn, Starting
      <3> QED  BY <3>1
    <2> QED  BY <2>1, <2>2, <2>3
  <1>9. Counted' /\ IsFiniteSet(clients) /\ Cardinality(clients) <= 2 * MaxRecordings
    <2> HIDE DEF new
    <2> QED  BY <1>1, <1>2, <1>7, <1>8, CountSpawned
  <1>10. FreePid \in Nat \ {0} /\ FreePid # mPid /\ ~Running(FreePid)
    BY <1>2, <1>9, FreePidFacts
  <1>11. MessageOf(t) \in Messages
    <2> DEFINE r == IF t = ORB THEN held ELSE t
               p == IF t = ORB THEN call = "discard" /\ mArgs ELSE mArgs
    <2>1. r \in Recordings
      BY <1>5, <1>6
    <2>2. p \in BOOLEAN
      BY <1>2 DEF MessageTypes
    <2>3. MessageOf(t) = [index |-> r, pairs |-> p]
      BY DEF MessageOf
    <2> HIDE DEF r, p
    <2>4. r \in 0 .. MaxRecordings
      BY <2>1, RecordingsAssumption
    <2> QED  BY <2>2, <2>3, <2>4 DEF Messages
  <1>12. ~overlapped' => mArgs /\ clients = {} /\ \A u \in Threads \ {t} : ~InCopyManager(u)
    BY <1>1, <1>2 DEF PairsSet, OneClient, InCopyManager
  <1>13. MessageTypes'
    <2>1. new \in [pid : Nat \ {0}, message : Messages] /\ \A c \in clients : c.pid # new.pid
      BY <1>10, <1>11 DEF Running
    <2>2. call' \in {"none", "start", "stop", "discard"}
      BY <1>2, <1>3 DEF MessageTypes
    <2>3. mArgs' \in BOOLEAN /\ mRecording' \in BOOLEAN /\ mPid' \in Nat
      BY <1>1, <1>2, <1>10 DEF MessageTypes
    <2>4. clients' \subseteq [pid : Nat \ {0}, message : Messages]
      BY <1>1, <1>2, <2>1 DEF MessageTypes
    <2>5. \A c, d \in clients' : c.pid = d.pid => c = d
      <3> HIDE DEF new
      <3> QED  BY <1>1, <1>2, <2>1 DEF MessageTypes
    <2>6. events' \subseteq 0 .. MaxRecordings /\ limit' = (events' # {})
      BY <1>1, <1>2 DEF MessageTypes
    <2> QED  BY <2>2, <2>3, <2>4, <2>5, <2>6 DEF MessageTypes
  <1>14. Holding'
    BY <1>1, <1>2, <1>3, <1>4, <1>5 DEF Holding, ManagePlaces, Starting, Told
  <1>15. PairsSet'
    BY <1>1, <1>2, <1>4 DEF PairsSet
  <1>16. ~overlapped' => clients' = {new} /\ new.pid = mPid' /\ new.message = MessageOf(t)
    BY <1>1, <1>12
  <1>17. OneClient'
    BY <1>1, <1>4, <1>12, <1>16 DEF OneClient, InCopyManager
  <1>18. StartsFirst'
    <2> SUFFICES ASSUME ~overlapped', NEW r \in Recordings,
                        MessageOf(t) = [index |-> r, pairs |-> FALSE]
                 PROVE  pc'[r] \notin Told \cup {"spawn"}
      BY <1>16 DEF StartsFirst
    <2>1. t = ORB /\ r = held
      BY <1>12 DEF MessageOf
    <2> QED  BY <1>4, <1>5, <2>1 DEF Told
  <1>19. EndsTold'
    <2> SUFFICES ASSUME ~overlapped', NEW r \in Recordings, r \in events, pc'[r] \in Told,
                        r \notin lost
                 PROVE  \E c \in clients' : c.message = [index |-> r, pairs |-> TRUE]
      BY <1>1 DEF EndsTold
    <2>1. pc[r] \notin Told
      BY <1>1, <1>2, <1>12 DEF EndsTold
    <2>2. t = r
      BY <1>4, <2>1
    <2>3. MessageOf(t) = [index |-> r, pairs |-> TRUE]
      BY <1>2, <1>12, <2>2 DEF MessageOf, MessageTypes
    <2> QED  BY <1>16, <2>3
  <1> QED  BY <1>9, <1>13, <1>14, <1>15, <1>17, <1>18, <1>19 DEF ClientInv

\* The server hears of a start, or of an end.
LEMMA ServeTells ==
    ASSUME IInv, ClientInv, NEW c \in clients, ServeClient(c)
    PROVE  ClientInv'
  <1> DEFINE r == c.message.index
  <1>1. /\ UNCHANGED <<mPid, mArgs, lost, overlapped, mRecording, mRecordingIndex, held,
                       call, pc>>
        /\ clients' = clients \ {c}
        /\ \/ /\ c.message.pairs /\ events' \in {{}, events \ {r}}
              /\ limit' = (limit /\ events' # {})
           \/ ~c.message.pairs /\ events' = events \cup {r} /\ limit' = TRUE
    BY DEF ServeClient, EndEvent, StartEvent, shared, recordings, history
  <1>2. /\ MessageTypes /\ Holding /\ Counted
        /\ PairsSet /\ OneClient /\ StartsFirst /\ EndsTold
    BY DEF ClientInv
  <1>3. /\ c.message \in Messages /\ r \in 0 .. MaxRecordings
        /\ c.message = [index |-> r, pairs |-> c.message.pairs]
        /\ c.message.pairs = TRUE \/ c.message.pairs = FALSE
    BY <1>2 DEF MessageTypes, Messages
  <1> HIDE DEF r
  <1>4. MessageTypes'
    <2>1. events' \subseteq 0 .. MaxRecordings
      BY <1>1, <1>2, <1>3 DEF MessageTypes
    <2>2. limit' = (events' # {})
      <3>1. CASE /\ c.message.pairs /\ events' \in {{}, events \ {r}}
                 /\ limit' = (limit /\ events' # {})
        <4>1. events' # {} => events # {}
          BY <3>1
        <4>2. limit = (events # {})
          BY <1>2 DEF MessageTypes
        <4> QED  BY <3>1, <4>1, <4>2, Zenon
      <3>2. CASE ~c.message.pairs /\ events' = events \cup {r} /\ limit' = TRUE
        <4>1. events' # {}
          BY <3>2
        <4> QED  BY <3>2, <4>1, Zenon
      <3> QED  BY <1>1, <3>1, <3>2
    <2> QED  BY <1>1, <1>2, <2>1, <2>2 DEF MessageTypes
  <1>5. Holding' /\ PairsSet' /\ OneClient' /\ StartsFirst'
    BY <1>1, <1>2 DEF Holding, PairsSet, OneClient, StartsFirst, ManagePlaces, Starting, Told
  <1>6. Counted'
    BY <1>1, <1>2, CountKept DEF SpentStarts, SpentEnds, HeldIn, Starting, Told
  <1>7. EndsTold'
    <2> SUFFICES ASSUME ~overlapped, NEW q \in Recordings, q \in events', pc[q] \in Told,
                        q \notin lost
                 PROVE  \E d \in clients' : d.message = [index |-> q, pairs |-> TRUE]
      BY <1>1 DEF EndsTold, Told
    <2>1. CASE c.message.pairs /\ events' \in {{}, events \ {r}}
      <3>1. q \in events /\ q # r
        BY <2>1
      <3>2. PICK d \in clients : d.message = [index |-> q, pairs |-> TRUE]
        BY <1>2, <3>1 DEF EndsTold
      <3>3. d # c
        BY <1>3, <3>1, <3>2
      <3> QED  BY <1>1, <3>2, <3>3
    <2>2. CASE ~c.message.pairs /\ events' = events \cup {r}
      <3>1. q # r
        BY <1>2, <1>3, <2>2 DEF StartsFirst
      <3>2. PICK d \in clients : d.message = [index |-> q, pairs |-> TRUE]
        BY <1>2, <2>2, <3>1 DEF EndsTold
      <3>3. d # c
        BY <1>3, <3>1, <3>2
      <3> QED  BY <1>1, <3>2, <3>3
    <2> QED  BY <1>1, <2>1, <2>2
  <1> QED  BY <1>4, <1>5, <1>6, <1>7 DEF ClientInv

LEMMA StutterTells ==
    ASSUME ClientInv, UNCHANGED vars
    PROVE  ClientInv'
  <1>1. UNCHANGED <<clients, mPid, mArgs, events, limit, lost, overlapped, mRecording,
                    mRecordingIndex, held, call, pc>>
    BY DEF vars, shared, copyManager, server, history
  <1>2. /\ MessageTypes /\ Holding /\ Counted
        /\ PairsSet /\ OneClient /\ StartsFirst /\ EndsTold
    BY DEF ClientInv
  <1>3. MessageTypes' /\ Holding' /\ PairsSet'
    BY <1>1, <1>2 DEF MessageTypes, Holding, PairsSet, ManagePlaces, Starting
  <1>4. OneClient' /\ StartsFirst' /\ EndsTold'
    BY <1>1, <1>2 DEF OneClient, StartsFirst, EndsTold, Told
  <1>5. Counted'
    BY <1>1, <1>2 DEF Counted, SpentStarts, SpentEnds, HeldIn, Starting, Told
  <1> QED  BY <1>3, <1>4, <1>5 DEF ClientInv

LEMMA InitiallyClientInv == Init => ClientInv
  <1> SUFFICES ASSUME Init PROVE ClientInv
    OBVIOUS
  <1> DEFINE first == [pid |-> 1, message |-> [index |-> 0, pairs |-> TRUE]]
  <1>1. clients = {first} /\ mPid = 1 /\ mArgs = TRUE /\ events = {} /\ limit = FALSE
        /\ mRecording = FALSE /\ call = "none"
    BY DEF Init
  <1>2. pc = [t \in Threads |-> IF t = ORB THEN "idle" ELSE "none"]
    BY DEF Init
  <1>3. first \in [pid : Nat \ {0}, message : Messages] /\ first.pid = 1 /\ first.message.pairs
    BY RecordingsAssumption DEF Messages
  <1> HIDE DEF first
  <1>4. MessageTypes
    BY <1>1, <1>3 DEF MessageTypes
  <1>5. Holding /\ PairsSet
    BY <1>1, <1>2 DEF Holding, PairsSet, Starting, ManagePlaces, Told
  <1>6. IsFiniteSet(clients) /\ Cardinality(clients) = 1
    BY <1>1, FS_Singleton
  <1>7. Cardinality(SpentStarts) \in Nat /\ Cardinality(SpentEnds) \in Nat
    BY SpentRecordings, RecordingsCounted
  <1>8. Counted
    BY <1>6, <1>7 DEF Counted
  <1>9. OneClient /\ StartsFirst /\ EndsTold
    BY <1>1, <1>2, <1>3 DEF OneClient, StartsFirst, EndsTold, Told
  <1> QED  BY <1>4, <1>5, <1>8, <1>9 DEF ClientInv

LEMMA NextTells == IInv /\ ClientInv /\ [Next]_vars => ClientInv'
  <1> SUFFICES ASSUME IInv, ClientInv, [Next]_vars PROVE ClientInv'
    OBVIOUS
  <1>1. CASE CallStart \/ CallStop \/ FinishCall
    BY <1>1, CallsTell, NewIndexTells, MakingTells, StartThreadsTells DEF FinishCall
  <1>2. CASE \E r \in Recordings : EndThread(r) \/ Manage(r)
    BY <1>2, ManagingTells
  <1>3. CASE \E t \in Threads : UseCopyManager(t)
    BY <1>3, ArgsTell, StopProcessTells, TerminateTells, SpawnTells DEF UseCopyManager
  <1>4. CASE \E c \in clients : ServeClient(c)
    BY <1>4, ServeTells
  <1>5. CASE UNCHANGED vars
    BY <1>5, StutterTells
  <1> QED  BY <1>1, <1>2, <1>3, <1>4, <1>5 DEF Next

LEMMA ClientInvariance == Spec => []ClientInv
  BY Invariance, InitiallyClientInv, NextTells, PTL DEF Spec

-----------------------------------------------------------------------------
\* Everything stays within its type; no two clients have one pid, as one is
\* always left for the next.
THEOREM ControlTypesHold == Spec => []TypeOK
  <1>1. IInv /\ ClientInv => TypeOK
    <2> SUFFICES ASSUME IInv, ClientInv
                 PROVE  TypeOK
      OBVIOUS
    <2>1. ControlTypes /\ RecordingTypes /\ MessageTypes
      BY DEF IInv, ClientInv
    <2> QED  BY <2>1 DEF TypeOK, ControlTypes, RecordingTypes, MessageTypes
  <1> QED  BY Invariance, ClientInvariance, <1>1, PTL

\* The server's traffic control ends with a recording, unless two threads were in
\* the copy manager at once or the client that was to tell of the end was ended
\* by the next use of it.
THEOREM TrafficControlEnds == Spec => []ControlEndsUnlessLost
  <1>1. IInv /\ ClientInv => ControlEndsUnlessLost
    <2> SUFFICES ASSUME IInv, ClientInv, NEW r \in events, pc[r] = "gone", ~overlapped,
                        r \notin lost
                 PROVE  [index |-> r, pairs |-> TRUE] \in {c.message : c \in clients}
      BY DEF ControlEndsUnlessLost
    <2>1. MessageTypes /\ EndsTold
      BY DEF ClientInv
    <2>2. r \in Recordings
      <3>1. r \in 0 .. MaxRecordings
        BY <2>1 DEF MessageTypes
      <3>2. r # 0
        BY DEF ClientInv, Holding, Told
      <3> QED  BY <3>1, <3>2, RecordingsAssumption
    <2> QED  BY <2>1, <2>2 DEF EndsTold, Told
  <1> QED  BY Invariance, ClientInvariance, <1>1, PTL
=============================================================================
