------------------------ MODULE RecordingSessionProofs ------------------------
(* Theorems about RecordingSession for any number of sessions and faults,    *)
(* with their proofs.                                                        *)
EXTENDS RecordingSession, TLAPS

(* The inductive invariant.  The three invariants of the module are not      *)
(* inductive by themselves: what may run in a state of the session depends   *)
(* on the step its thread is at (Phases, Quiet), and of each thing a         *)
(* recording needs the session hears by a way of its own (Watched).          *)

\* What the state is at the steps of the thread; a session whose thread is
\* through is at its end, and nothing is being cut into items any more, unless
\* the thread was stopped before.
Phases ==
    /\ at \in {"starting", "started"} => state = "READY"
    /\ at = "stopping" => state = "RECORDING"
    /\ at = "stopped" => state \in {"REVIEWING", "PREPARE CHUNKING"}
    /\ state \in {"PREPARE CHUNKING", "CHUNKING"} => multi
    /\ chunking # "none" => at # "none" /\ (at \in {"exit", "ended"} => killed)
    /\ stopThread => at \in {"none", "exit", "ended"} \/ killed
    /\ at \in {"exit", "ended"} => state = "END" \/ killed
    /\ at = "none" => state \in {"NOT STARTED", "END"} \/ killed

\* All tape machines that run, or may come to, are known to be unstopped.
TapesKnown == running \union away \subseteq unstopped

\* No capture and no other tape machine runs outside of a recording and of the
\* steps that start and stop one.
Quiet ==
    \/ killed
    \/ /\ state # "RECORDING" /\ at \notin {"starting", "started", "stopped"}
          => ~capturing /\ TapesKnown
       /\ at \in {"starting", "stopped"} => ~capturing
       /\ at = "aborting" => TapesKnown

\* A report is that of a call of the capture that goes on.
Reporting == report # "none" => call["capture"] # "idle"

\* The session missed what happened, or could not be ended properly.
Excused == missed \/ failedAbort \/ killed

\* A recording that is being started or goes on: what it needs is there, or the
\* news of it is on its way, or the thread is at it or was asked to end it.
Ending ==
    \/ at \in {"stop", "stopping", "aborting"}
    \/ {"stop", "abort"} \intersect requests # {}

Watched ==
    \/ Excused
    \/ /\ at \in {"starting", "started"} => "d3" \in running \union away \union stops
       /\ at = "started" => /\ signal \/ report = "bad"
                            /\ capturing \/ "abort" \in requests
       /\ state = "RECORDING" /\ session =>
            /\ Tapes \subseteq running \union away \union stops \/ Ending
            /\ signal \/ report = "bad" \/ Ending
            /\ capturing \/ "abort" \in requests \/ at = "aborting"

IInv == TypeOK /\ Phases /\ Quiet /\ Reporting /\ Watched
-----------------------------------------------------------------------------
(* Every step keeps the invariant. *)
USE DEF States, Callers, Requests, Tapes, lock, callers, life, control, tapes, equipment,
        history

\* The session keeps its types in a step that leaves its thread where it is.
LEMMA SessionStays ==
    ASSUME SessionTypes, requests' \subseteq Requests, state' \in States,
           stopThread' \in BOOLEAN, chunking' \in {"none", "running", "completed", "failed"},
           UNCHANGED <<session, result, multi, control>>
    PROVE  SessionTypes'
  <1>1. result' \in {"unknown", "completed", "failed"} /\ multi' \in BOOLEAN
    BY DEF SessionTypes
  <1>2. at' \in Requests \union {"none", "loop", "starting", "started", "stopping",
                                 "stopped", "aborting", "exit", "ended"}
    BY DEF SessionTypes
  <1>3. (session' <=> at' # "none") /\ diskFull' \in BOOLEAN
    BY DEF SessionTypes
  <1> QED  BY <1>1, <1>2, <1>3 DEF SessionTypes

\* Of the machines that were told, those that run still are known; and the others
\* that were not seen to run.
LEMMA StopTapesKnown ==
    ASSUME EquipmentTypes, NEW told, NEW failing, StopTapes(told, failing),
           running \subseteq told, told \subseteq running \union away
    PROVE  EquipmentTypes' /\ TapesKnown'
  <1>1. PICK refused \in SUBSET told :
            /\ running' = running \ (told \ refused) /\ away' = away \ (told \ refused)
            /\ stops' = stops \union (told \ refused)
            /\ unstopped' = (unstopped \union away \union refused) \ (told \ refused)
    BY DEF StopTapes
  <1>2. EquipmentTypes'
    BY <1>1 DEF EquipmentTypes
  <1>3. TapesKnown'
    BY <1>1 DEF TapesKnown, EquipmentTypes
  <1> QED  BY <1>2, <1>3

\* A request is taken.
LEMMA TakeRequestKeeps ==
    ASSUME IInv, NEW r \in Requests, TakeRequest(r)
    PROVE  IInv'
  <1> USE DEF IInv, TypeOK, TakeRequest, AtLoop, Taken
  <1>1. LockTypes' /\ Reporting'
    BY DEF LockTypes, Reporting
  <1>2. SessionTypes'
    BY DEF SessionTypes, LockTypes
  <1>3. EquipmentTypes'
    BY DEF EquipmentTypes
  <1>4. ItemsOfSeveral'
    BY DEF LockTypes, SessionTypes, ItemsOfSeveral, Phases
  <1>5. Phases'
    BY DEF LockTypes, SessionTypes, ItemsOfSeveral, Phases
  <1>6. Quiet'
    BY DEF SessionTypes, Phases, EquipmentTypes, Quiet, TapesKnown
  <1>7. Watched'
    BY DEF LockTypes, SessionTypes, EquipmentTypes, Phases, Reporting, Watched,
           Excused, Ending
  <1> QED  BY <1>1, <1>2, <1>3, <1>4, <1>5, <1>6, <1>7

\* What the state does not allow is ignored, but neither a stop nor an abort of a
\* recording.
LEMMA RefuseKeeps ==
    ASSUME IInv, NEW r \in Requests, NEW allowed, Refuse(r, allowed),
           r \in {"stop", "abort"} => "RECORDING" \in allowed
    PROVE  IInv'
  <1> USE DEF IInv, TypeOK, Refuse, Served, Reset
  <1>1. LockTypes' /\ Reporting'
    BY DEF LockTypes, Reporting
  <1>2. SessionTypes'
    BY DEF SessionTypes, LockTypes
  <1>3. EquipmentTypes'
    BY DEF EquipmentTypes
  <1>4. ItemsOfSeveral'
    BY DEF LockTypes, SessionTypes, ItemsOfSeveral, Phases
  <1>5. Phases'
    BY DEF LockTypes, SessionTypes, ItemsOfSeveral, Phases
  <1>6. Quiet'
    BY DEF SessionTypes, Phases, EquipmentTypes, Quiet, TapesKnown
  <1>7. Watched'
    BY DEF LockTypes, SessionTypes, EquipmentTypes, Phases, Reporting, Watched,
           Excused, Ending
  <1> QED  BY <1>1, <1>2, <1>3, <1>4, <1>5, <1>6, <1>7

\* The first tape machine plays.
LEMMA StartPlayingKeeps ==
    ASSUME IInv, StartPlaying
    PROVE  IInv'
  <1> USE DEF IInv, TypeOK, StartPlaying, MayPlay
  <1>1. LockTypes' /\ Reporting'
    BY DEF LockTypes, Reporting
  <1>2. SessionTypes'
    BY DEF SessionTypes, LockTypes
  <1>3. EquipmentTypes'
    BY DEF EquipmentTypes
  <1>4. ItemsOfSeveral'
    BY DEF LockTypes, SessionTypes, ItemsOfSeveral, Phases
  <1>5. Phases'
    BY DEF LockTypes, SessionTypes, ItemsOfSeveral, Phases
  <1>6. Quiet'
    BY DEF SessionTypes, Phases, EquipmentTypes, Quiet, TapesKnown
  <1>7. Watched'
    BY DEF LockTypes, SessionTypes, EquipmentTypes, Phases, Reporting, Watched,
           Excused, Ending
  <1> QED  BY <1>1, <1>2, <1>3, <1>4, <1>5, <1>6, <1>7

\* The first tape machine plays too late.
LEMMA PlaysTooLateKeeps ==
    ASSUME IInv, PlaysTooLate
    PROVE  IInv'
  <1> USE DEF IInv, TypeOK, PlaysTooLate, MayPlay, Served, Reset
  <1>1. LockTypes' /\ Reporting'
    BY DEF LockTypes, Reporting
  <1>2. SessionTypes'
    BY DEF SessionTypes, LockTypes
  <1>3. EquipmentTypes'
    BY DEF EquipmentTypes
  <1>4. ItemsOfSeveral'
    BY DEF LockTypes, SessionTypes, ItemsOfSeveral, Phases
  <1>5. Phases'
    BY DEF LockTypes, SessionTypes, ItemsOfSeveral, Phases
  <1>6. Quiet'
    BY DEF SessionTypes, Phases, EquipmentTypes, Quiet, TapesKnown
  <1>7. Watched'
    BY DEF LockTypes, SessionTypes, EquipmentTypes, Phases, Reporting, Watched,
           Excused, Ending
  <1> QED  BY <1>1, <1>2, <1>3, <1>4, <1>5, <1>6, <1>7

\* The recording is not started.
LEMMA StartFailsKeeps ==
    ASSUME IInv, StartFails
    PROVE  IInv'
  <1> USE DEF IInv, TypeOK, StartFails, Served, Reset
  <1>1. LockTypes' /\ Reporting'
    BY DEF LockTypes, Reporting
  <1>2. SessionTypes'
    BY DEF SessionTypes, LockTypes
  <1>3. EquipmentTypes'
    BY DEF EquipmentTypes
  <1>4. ItemsOfSeveral'
    BY DEF LockTypes, SessionTypes, ItemsOfSeveral, Phases
  <1>5. Phases'
    BY DEF LockTypes, SessionTypes, ItemsOfSeveral, Phases
  <1>6. Quiet'
    BY DEF SessionTypes, Phases, EquipmentTypes, Quiet, TapesKnown
  <1>7. Watched'
    BY DEF LockTypes, SessionTypes, EquipmentTypes, Phases, Reporting, Watched,
           Excused, Ending
  <1> QED  BY <1>1, <1>2, <1>3, <1>4, <1>5, <1>6, <1>7

\* The capture starts, and the second machine.
LEMMA StartCaptureKeeps ==
    ASSUME IInv, StartCapture
    PROVE  IInv'
  <1> USE DEF IInv, TypeOK, StartCapture
  <1>1. LockTypes' /\ Reporting'
    BY DEF LockTypes, Reporting
  <1>2. SessionTypes'
    BY DEF SessionTypes, LockTypes
  <1>3. EquipmentTypes'
    BY DEF EquipmentTypes
  <1>4. ItemsOfSeveral'
    BY DEF LockTypes, SessionTypes, ItemsOfSeveral, Phases
  <1>5. Phases'
    BY DEF LockTypes, SessionTypes, ItemsOfSeveral, Phases
  <1>6. Quiet'
    BY DEF SessionTypes, Phases, EquipmentTypes, Quiet, TapesKnown
  <1>7. Watched'
    BY DEF LockTypes, SessionTypes, EquipmentTypes, Phases, Reporting, Watched,
           Excused, Ending
  <1> QED  BY <1>1, <1>2, <1>3, <1>4, <1>5, <1>6, <1>7

\* The machines are stopped again.
LEMMA StartCaptureFailsKeeps ==
    ASSUME IInv, StartCaptureFails
    PROVE  IInv'
  <1> USE DEF IInv, TypeOK, StartCaptureFails, Served, Reset
  <1>0. EquipmentTypes' /\ TapesKnown'
    BY StopTapesKnown
  <1>1. LockTypes' /\ Reporting'
    BY DEF LockTypes, Reporting
  <1>2. SessionTypes'
    BY DEF SessionTypes, LockTypes
  <1>3. EquipmentTypes'
    BY <1>0
  <1>4. ItemsOfSeveral'
    BY DEF LockTypes, SessionTypes, ItemsOfSeveral, Phases
  <1>5. Phases'
    BY DEF LockTypes, SessionTypes, ItemsOfSeveral, Phases
  <1>6. Quiet'
    BY <1>0 DEF SessionTypes, Phases, EquipmentTypes, Quiet, TapesKnown
  <1>7. Watched'
    BY DEF LockTypes, SessionTypes, EquipmentTypes, Phases, Reporting, Watched,
           Excused, Ending
  <1> QED  BY <1>1, <1>2, <1>3, <1>4, <1>5, <1>6, <1>7

\* The recording has started.
LEMMA RecordingKeeps ==
    ASSUME IInv, Recording
    PROVE  IInv'
  <1> USE DEF IInv, TypeOK, Recording, Served, Reset
  <1>1. LockTypes' /\ Reporting'
    BY DEF LockTypes, Reporting
  <1>2. SessionTypes'
    BY DEF SessionTypes, LockTypes
  <1>3. EquipmentTypes'
    BY DEF EquipmentTypes
  <1>4. ItemsOfSeveral'
    BY DEF LockTypes, SessionTypes, ItemsOfSeveral, Phases
  <1>5. Phases'
    BY DEF LockTypes, SessionTypes, ItemsOfSeveral, Phases
  <1>6. Quiet'
    BY DEF SessionTypes, Phases, EquipmentTypes, Quiet, TapesKnown
  <1>7. Watched'
    BY DEF LockTypes, SessionTypes, EquipmentTypes, Phases, Reporting, Watched,
           Excused, Ending
  <1> QED  BY <1>1, <1>2, <1>3, <1>4, <1>5, <1>6, <1>7

\* The second machine does not record: nothing is left running.
LEMMA DigibetaNotRecordingKeeps ==
    ASSUME IInv, DigibetaNotRecording
    PROVE  IInv'
  <1> USE DEF IInv, TypeOK, DigibetaNotRecording, Served, Reset
  <1>0. EquipmentTypes' /\ TapesKnown'
    BY StopTapesKnown
  <1>1. LockTypes' /\ Reporting'
    BY DEF LockTypes, Reporting
  <1>2. SessionTypes'
    BY DEF SessionTypes, LockTypes
  <1>3. EquipmentTypes'
    BY <1>0
  <1>4. ItemsOfSeveral'
    BY DEF LockTypes, SessionTypes, ItemsOfSeveral, Phases
  <1>5. Phases'
    BY DEF LockTypes, SessionTypes, ItemsOfSeveral, Phases
  <1>6. Quiet'
    BY <1>0 DEF SessionTypes, Phases, EquipmentTypes, Quiet, TapesKnown
  <1>7. Watched'
    BY DEF LockTypes, SessionTypes, EquipmentTypes, Phases, Reporting, Watched,
           Excused, Ending
  <1> QED  BY <1>1, <1>2, <1>3, <1>4, <1>5, <1>6, <1>7

\* The recording is being stopped.
LEMMA StopBeginsKeeps ==
    ASSUME IInv, StopBegins
    PROVE  IInv'
  <1> USE DEF IInv, TypeOK, StopBegins
  <1>1. LockTypes' /\ Reporting'
    BY DEF LockTypes, Reporting
  <1>2. SessionTypes'
    BY DEF SessionTypes, LockTypes
  <1>3. EquipmentTypes'
    BY DEF EquipmentTypes
  <1>4. ItemsOfSeveral'
    BY DEF LockTypes, SessionTypes, ItemsOfSeveral, Phases
  <1>5. Phases'
    BY DEF LockTypes, SessionTypes, ItemsOfSeveral, Phases
  <1>6. Quiet'
    BY DEF SessionTypes, Phases, EquipmentTypes, Quiet, TapesKnown
  <1>7. Watched'
    BY DEF LockTypes, SessionTypes, EquipmentTypes, Phases, Reporting, Watched,
           Excused, Ending
  <1> QED  BY <1>1, <1>2, <1>3, <1>4, <1>5, <1>6, <1>7

\* The capture ends, and with it the recording.
LEMMA StopCaptureKeeps ==
    ASSUME IInv, StopCapture
    PROVE  IInv'
  <1> USE DEF IInv, TypeOK, StopCapture, AfterStop
  <1>1. LockTypes' /\ Reporting'
    BY DEF LockTypes, Reporting
  <1>2. SessionTypes'
    BY DEF SessionTypes, LockTypes
  <1>3. EquipmentTypes'
    BY DEF EquipmentTypes
  <1>4. ItemsOfSeveral'
    BY DEF LockTypes, SessionTypes, ItemsOfSeveral, Phases
  <1>5. Phases'
    BY DEF LockTypes, SessionTypes, ItemsOfSeveral, Phases
  <1>6. Quiet'
    BY DEF SessionTypes, Phases, EquipmentTypes, Quiet, TapesKnown
  <1>7. Watched'
    BY DEF LockTypes, SessionTypes, EquipmentTypes, Phases, Reporting, Watched,
           Excused, Ending
  <1> QED  BY <1>1, <1>2, <1>3, <1>4, <1>5, <1>6, <1>7

\* The capture has ended before: the session is to be aborted then.
LEMMA StopFailsKeeps ==
    ASSUME IInv, StopFails
    PROVE  IInv'
  <1> USE DEF IInv, TypeOK, StopFails, Served, Reset
  <1>1. LockTypes' /\ Reporting'
    BY DEF LockTypes, Reporting
  <1>2. SessionTypes'
    BY DEF SessionTypes, LockTypes
  <1>3. EquipmentTypes'
    BY DEF EquipmentTypes
  <1>4. ItemsOfSeveral'
    BY DEF LockTypes, SessionTypes, ItemsOfSeveral, Phases
  <1>5. Phases'
    BY DEF LockTypes, SessionTypes, ItemsOfSeveral, Phases
  <1>6. Quiet'
    BY DEF SessionTypes, Phases, EquipmentTypes, Quiet, TapesKnown
  <1>7. Watched'
    BY DEF LockTypes, SessionTypes, EquipmentTypes, Phases, Reporting, Watched,
           Excused, Ending
  <1> QED  BY <1>1, <1>2, <1>3, <1>4, <1>5, <1>6, <1>7

\* The tape machines stop.
LEMMA StoppedKeeps ==
    ASSUME IInv, Stopped
    PROVE  IInv'
  <1> USE DEF IInv, TypeOK, Stopped, Served, Reset
  <1>0. EquipmentTypes' /\ TapesKnown'
    BY StopTapesKnown
  <1>1. LockTypes' /\ Reporting'
    BY DEF LockTypes, Reporting
  <1>2. SessionTypes'
    BY DEF SessionTypes, LockTypes
  <1>3. EquipmentTypes'
    BY <1>0
  <1>4. ItemsOfSeveral'
    BY DEF LockTypes, SessionTypes, ItemsOfSeveral, Phases
  <1>5. Phases'
    BY DEF LockTypes, SessionTypes, ItemsOfSeveral, Phases
  <1>6. Quiet'
    BY <1>0 DEF SessionTypes, Phases, EquipmentTypes, Quiet, TapesKnown
  <1>7. Watched'
    BY DEF LockTypes, SessionTypes, EquipmentTypes, Phases, Reporting, Watched,
           Excused, Ending
  <1> QED  BY <1>1, <1>2, <1>3, <1>4, <1>5, <1>6, <1>7

\* The file is being cut into items.
LEMMA StartChunkingKeeps ==
    ASSUME IInv, StartChunking
    PROVE  IInv'
  <1> USE DEF IInv, TypeOK, StartChunking, Served, Reset
  <1>1. LockTypes' /\ Reporting'
    BY DEF LockTypes, Reporting
  <1>2. SessionTypes'
    BY DEF SessionTypes, LockTypes
  <1>3. EquipmentTypes'
    BY DEF EquipmentTypes
  <1>4. ItemsOfSeveral'
    BY DEF LockTypes, SessionTypes, ItemsOfSeveral, Phases
  <1>5. Phases'
    BY DEF LockTypes, SessionTypes, ItemsOfSeveral, Phases
  <1>6. Quiet'
    BY DEF SessionTypes, Phases, EquipmentTypes, Quiet, TapesKnown
  <1>7. Watched'
    BY DEF LockTypes, SessionTypes, EquipmentTypes, Phases, Reporting, Watched,
           Excused, Ending
  <1> QED  BY <1>1, <1>2, <1>3, <1>4, <1>5, <1>6, <1>7

\* It is not, and the session may have to be aborted.
LEMMA ChunkingFailsKeeps ==
    ASSUME IInv, ChunkingFails
    PROVE  IInv'
  <1> USE DEF IInv, TypeOK, ChunkingFails, Reset
  <1>1. LockTypes' /\ Reporting'
    BY DEF LockTypes, Reporting
  <1>2. SessionTypes'
    BY DEF SessionTypes, LockTypes
  <1>3. EquipmentTypes'
    BY DEF EquipmentTypes
  <1>4. ItemsOfSeveral'
    BY DEF LockTypes, SessionTypes, ItemsOfSeveral, Phases
  <1>5. Phases'
    BY DEF LockTypes, SessionTypes, ItemsOfSeveral, Phases
  <1>6. Quiet'
    BY DEF SessionTypes, Phases, EquipmentTypes, Quiet, TapesKnown
  <1>7. Watched'
    BY DEF LockTypes, SessionTypes, EquipmentTypes, Phases, Reporting, Watched,
           Excused, Ending
  <1> QED  BY <1>1, <1>2, <1>3, <1>4, <1>5, <1>6, <1>7

\* The session is completed.
LEMMA CompleteKeeps ==
    ASSUME IInv, Complete
    PROVE  IInv'
  <1> USE DEF IInv, TypeOK, Complete
  <1>1. LockTypes' /\ Reporting'
    BY DEF LockTypes, Reporting
  <1>2. SessionTypes'
    BY DEF SessionTypes, LockTypes
  <1>3. EquipmentTypes'
    BY DEF EquipmentTypes
  <1>4. ItemsOfSeveral'
    BY DEF LockTypes, SessionTypes, ItemsOfSeveral, Phases
  <1>5. Phases'
    BY DEF LockTypes, SessionTypes, ItemsOfSeveral, Phases
  <1>6. Quiet'
    BY DEF SessionTypes, Phases, EquipmentTypes, Quiet, TapesKnown
  <1>7. Watched'
    BY DEF LockTypes, SessionTypes, EquipmentTypes, Phases, Reporting, Watched,
           Excused, Ending
  <1> QED  BY <1>1, <1>2, <1>3, <1>4, <1>5, <1>6, <1>7

\* It is not, and is to be aborted.
LEMMA CompleteFailsKeeps ==
    ASSUME IInv, CompleteFails
    PROVE  IInv'
  <1> USE DEF IInv, TypeOK, CompleteFails, Reset
  <1>1. LockTypes' /\ Reporting'
    BY DEF LockTypes, Reporting
  <1>2. SessionTypes'
    BY DEF SessionTypes, LockTypes
  <1>3. EquipmentTypes'
    BY DEF EquipmentTypes
  <1>4. ItemsOfSeveral'
    BY DEF LockTypes, SessionTypes, ItemsOfSeveral, Phases
  <1>5. Phases'
    BY DEF LockTypes, SessionTypes, ItemsOfSeveral, Phases
  <1>6. Quiet'
    BY DEF SessionTypes, Phases, EquipmentTypes, Quiet, TapesKnown
  <1>7. Watched'
    BY DEF LockTypes, SessionTypes, EquipmentTypes, Phases, Reporting, Watched,
           Excused, Ending
  <1> QED  BY <1>1, <1>2, <1>3, <1>4, <1>5, <1>6, <1>7

\* An abort stops the tape machines of a recording,
LEMMA AbortTapesKeeps ==
    ASSUME IInv, AbortTapes
    PROVE  IInv'
  <1> USE DEF IInv, TypeOK, AbortTapes
  <1>0. EquipmentTypes' /\ (~killed => TapesKnown')
    <2>1. CASE state = "RECORDING"
      BY <2>1, StopTapesKnown
    <2>2. CASE state # "RECORDING"
      BY <2>2 DEF EquipmentTypes, TapesKnown, Quiet
    <2> QED  BY <2>1, <2>2
  <1>1. LockTypes' /\ Reporting'
    BY DEF LockTypes, Reporting
  <1>2. SessionTypes'
    BY DEF SessionTypes, LockTypes
  <1>3. EquipmentTypes'
    BY <1>0
  <1>4. ItemsOfSeveral'
    BY DEF LockTypes, SessionTypes, ItemsOfSeveral, Phases
  <1>5. Phases'
    BY DEF LockTypes, SessionTypes, ItemsOfSeveral, Phases
  <1>6. Quiet'
    BY <1>0 DEF SessionTypes, Phases, EquipmentTypes, Quiet, TapesKnown
  <1>7. Watched'
    BY DEF LockTypes, SessionTypes, EquipmentTypes, Phases, Reporting, Watched,
           Excused, Ending
  <1> QED  BY <1>1, <1>2, <1>3, <1>4, <1>5, <1>6, <1>7

\* then the capture and the cutting into items.
LEMMA AbortKeeps ==
    ASSUME IInv, Abort
    PROVE  IInv'
  <1> USE DEF IInv, TypeOK, Abort, AbortCapture
  <1>1. LockTypes' /\ Reporting'
    BY DEF LockTypes, Reporting
  <1>2. SessionTypes'
    BY DEF SessionTypes, LockTypes
  <1>3. EquipmentTypes'
    BY DEF EquipmentTypes
  <1>4. ItemsOfSeveral'
    BY DEF LockTypes, SessionTypes, ItemsOfSeveral, Phases
  <1>5. Phases'
    BY DEF LockTypes, SessionTypes, ItemsOfSeveral, Phases
  <1>6. Quiet'
    BY DEF SessionTypes, Phases, EquipmentTypes, Quiet, TapesKnown
  <1>7. Watched'
    BY DEF LockTypes, SessionTypes, EquipmentTypes, Phases, Reporting, Watched,
           Excused, Ending
  <1> QED  BY <1>1, <1>2, <1>3, <1>4, <1>5, <1>6, <1>7

\* An abort that fails is remembered.
LEMMA AbortFailsKeeps ==
    ASSUME IInv, AbortFails
    PROVE  IInv'
  <1> USE DEF IInv, TypeOK, AbortFails, AbortCapture, Served, Reset
  <1>1. LockTypes' /\ Reporting'
    BY DEF LockTypes, Reporting
  <1>2. SessionTypes'
    BY DEF SessionTypes, LockTypes
  <1>3. EquipmentTypes'
    BY DEF EquipmentTypes
  <1>4. ItemsOfSeveral'
    BY DEF LockTypes, SessionTypes, ItemsOfSeveral, Phases
  <1>5. Phases'
    BY DEF LockTypes, SessionTypes, ItemsOfSeveral, Phases
  <1>6. Quiet'
    BY DEF SessionTypes, Phases, EquipmentTypes, Quiet, TapesKnown
  <1>7. Watched'
    BY DEF LockTypes, SessionTypes, EquipmentTypes, Phases, Reporting, Watched,
           Excused, Ending
  <1> QED  BY <1>1, <1>2, <1>3, <1>4, <1>5, <1>6, <1>7

\* Only the thread of a session that was stopped leaves its loop.
LEMMA LeaveLoopKeeps ==
    ASSUME IInv, LeaveLoop
    PROVE  IInv'
  <1> USE DEF IInv, TypeOK, LeaveLoop
  <1>1. LockTypes' /\ Reporting'
    BY DEF LockTypes, Reporting
  <1>2. SessionTypes'
    BY DEF SessionTypes, LockTypes
  <1>3. EquipmentTypes'
    BY DEF EquipmentTypes
  <1>4. ItemsOfSeveral'
    BY DEF LockTypes, SessionTypes, ItemsOfSeveral, Phases
  <1>5. Phases'
    BY DEF LockTypes, SessionTypes, ItemsOfSeveral, Phases
  <1>6. Quiet'
    BY DEF SessionTypes, Phases, EquipmentTypes, Quiet, TapesKnown
  <1>7. Watched'
    BY DEF LockTypes, SessionTypes, EquipmentTypes, Phases, Reporting, Watched,
           Excused, Ending
  <1> QED  BY <1>1, <1>2, <1>3, <1>4, <1>5, <1>6, <1>7

\* The thread ends.
LEMMA SessionDoneKeeps ==
    ASSUME IInv, SessionDone
    PROVE  IInv'
  <1> USE DEF IInv, TypeOK, SessionDone
  <1>1. LockTypes' /\ Reporting'
    BY DEF LockTypes, Reporting
  <1>2. SessionTypes'
    BY DEF SessionTypes, LockTypes
  <1>3. EquipmentTypes'
    BY DEF EquipmentTypes
  <1>4. ItemsOfSeveral'
    BY DEF LockTypes, SessionTypes, ItemsOfSeveral, Phases
  <1>5. Phases'
    BY DEF LockTypes, SessionTypes, ItemsOfSeveral, Phases
  <1>6. Quiet'
    BY DEF SessionTypes, Phases, EquipmentTypes, Quiet, TapesKnown
  <1>7. Watched'
    BY DEF LockTypes, SessionTypes, EquipmentTypes, Phases, Reporting, Watched,
           Excused, Ending
  <1> QED  BY <1>1, <1>2, <1>3, <1>4, <1>5, <1>6, <1>7

\* A full disk stops the recording.
LEMMA DiskIsFullKeeps ==
    ASSUME IInv, DiskIsFull
    PROVE  IInv'
  <1> USE DEF IInv, TypeOK, DiskIsFull, AtLoop
  <1>1. LockTypes' /\ Reporting'
    BY DEF LockTypes, Reporting
  <1>2. SessionTypes'
    BY DEF SessionTypes, LockTypes
  <1>3. EquipmentTypes'
    BY DEF EquipmentTypes
  <1>4. ItemsOfSeveral'
    BY DEF LockTypes, SessionTypes, ItemsOfSeveral, Phases
  <1>5. Phases'
    BY DEF LockTypes, SessionTypes, ItemsOfSeveral, Phases
  <1>6. Quiet'
    BY DEF SessionTypes, Phases, EquipmentTypes, Quiet, TapesKnown
  <1>7. Watched'
    BY DEF LockTypes, SessionTypes, EquipmentTypes, Phases, Reporting, Watched,
           Excused, Ending
  <1> QED  BY <1>1, <1>2, <1>3, <1>4, <1>5, <1>6, <1>7

\* The cutting into items ends.
LEMMA ChunkingEndsKeeps ==
    ASSUME IInv, ChunkingEnds
    PROVE  IInv'
  <1> USE DEF IInv, TypeOK, ChunkingEnds
  <1>1. LockTypes' /\ Reporting'
    BY DEF LockTypes, Reporting
  <1>2. SessionTypes'
    <2>1. UNCHANGED <<session, life, requests, at, stopThread>>
      OBVIOUS
    <2>2. requests' \subseteq Requests /\ state' \in States /\ stopThread' \in BOOLEAN
      BY <2>1 DEF SessionTypes
    <2>3. chunking' \in {"none", "running", "completed", "failed"}
      OBVIOUS
    <2> QED  BY <2>1, <2>2, <2>3, SessionStays
  <1>3. EquipmentTypes'
    BY DEF EquipmentTypes
  <1>4. ItemsOfSeveral'
    BY DEF LockTypes, SessionTypes, ItemsOfSeveral, Phases
  <1>5. Phases'
    BY DEF LockTypes, SessionTypes, ItemsOfSeveral, Phases
  <1>6. Quiet'
    BY DEF SessionTypes, Phases, EquipmentTypes, Quiet, TapesKnown
  <1>7. Watched'
    BY DEF LockTypes, SessionTypes, EquipmentTypes, Phases, Reporting, Watched,
           Excused, Ending
  <1> QED  BY <1>1, <1>2, <1>3, <1>4, <1>5, <1>6, <1>7

\* The user asks something of the recorder.
LEMMA RequestKeeps ==
    ASSUME IInv, Request
    PROVE  IInv'
  <1> USE DEF IInv, TypeOK, Request, Reads
  <1>1. LockTypes' /\ Reporting'
    BY DEF LockTypes, Reporting
  <1>2. SessionTypes'
    <2>1. requests' \subseteq Requests
      BY DEF SessionTypes
    <2>2. /\ state' \in States /\ stopThread' \in BOOLEAN
          /\ chunking' \in {"none", "running", "completed", "failed"}
          /\ UNCHANGED <<session, result, multi, control>>
      BY DEF SessionTypes
    <2> QED  BY <2>1, <2>2, SessionStays
  <1>3. EquipmentTypes'
    BY DEF EquipmentTypes
  <1>4. ItemsOfSeveral'
    BY DEF LockTypes, SessionTypes, ItemsOfSeveral, Phases
  <1>5. Phases'
    BY DEF LockTypes, SessionTypes, ItemsOfSeveral, Phases
  <1>6. Quiet'
    BY DEF SessionTypes, Phases, EquipmentTypes, Quiet, TapesKnown
  <1>7. Watched'
    BY DEF LockTypes, SessionTypes, EquipmentTypes, Phases, Reporting, Watched,
           Excused, Ending
  <1> QED  BY <1>1, <1>2, <1>3, <1>4, <1>5, <1>6, <1>7

\* The capture reports.
LEMMA ReportKeeps ==
    ASSUME IInv, NEW what \in {"bad", "good"}, Report(what)
    PROVE  IInv'
  <1> USE DEF IInv, TypeOK, Report, Reads
  <1>1. LockTypes' /\ Reporting'
    BY DEF LockTypes, Reporting
  <1>2. SessionTypes'
    <2>1. requests' \subseteq Requests
      BY DEF SessionTypes
    <2>2. /\ state' \in States /\ stopThread' \in BOOLEAN
          /\ chunking' \in {"none", "running", "completed", "failed"}
          /\ UNCHANGED <<session, result, multi, control>>
      BY DEF SessionTypes
    <2> QED  BY <2>1, <2>2, SessionStays
  <1>3. EquipmentTypes'
    BY DEF EquipmentTypes
  <1>4. ItemsOfSeveral'
    BY DEF LockTypes, SessionTypes, ItemsOfSeveral, Phases
  <1>5. Phases'
    BY DEF LockTypes, SessionTypes, ItemsOfSeveral, Phases
  <1>6. Quiet'
    BY DEF SessionTypes, Phases, EquipmentTypes, Quiet, TapesKnown
  <1>7. Watched'
    BY DEF LockTypes, SessionTypes, EquipmentTypes, Phases, Reporting, Watched,
           Excused, Ending
  <1> QED  BY <1>1, <1>2, <1>3, <1>4, <1>5, <1>6, <1>7

\* The buffer is full.
LEMMA OverflowKeeps ==
    ASSUME IInv, Overflow
    PROVE  IInv'
  <1> USE DEF IInv, TypeOK, Overflow
  <1>1. LockTypes' /\ Reporting'
    BY DEF LockTypes, Reporting
  <1>2. SessionTypes'
    <2>1. requests' \subseteq Requests
      BY DEF SessionTypes
    <2>2. /\ state' \in States /\ stopThread' \in BOOLEAN
          /\ chunking' \in {"none", "running", "completed", "failed"}
          /\ UNCHANGED <<session, result, multi, control>>
      BY DEF SessionTypes
    <2> QED  BY <2>1, <2>2, SessionStays
  <1>3. EquipmentTypes'
    BY DEF EquipmentTypes
  <1>4. ItemsOfSeveral'
    BY DEF LockTypes, SessionTypes, ItemsOfSeveral, Phases
  <1>5. Phases'
    BY DEF LockTypes, SessionTypes, ItemsOfSeveral, Phases
  <1>6. Quiet'
    BY DEF SessionTypes, Phases, EquipmentTypes, Quiet, TapesKnown
  <1>7. Watched'
    BY DEF LockTypes, SessionTypes, EquipmentTypes, Phases, Reporting, Watched,
           Excused, Ending
  <1> QED  BY <1>1, <1>2, <1>3, <1>4, <1>5, <1>6, <1>7

\* It is going to be reported.
LEMMA ReportOverflowKeeps ==
    ASSUME IInv, ReportOverflow
    PROVE  IInv'
  <1> USE DEF IInv, TypeOK, ReportOverflow, Reads
  <1>1. LockTypes' /\ Reporting'
    BY DEF LockTypes, Reporting
  <1>2. SessionTypes'
    <2>1. requests' \subseteq Requests
      BY DEF SessionTypes
    <2>2. /\ state' \in States /\ stopThread' \in BOOLEAN
          /\ chunking' \in {"none", "running", "completed", "failed"}
          /\ UNCHANGED <<session, result, multi, control>>
      BY DEF SessionTypes
    <2> QED  BY <2>1, <2>2, SessionStays
  <1>3. EquipmentTypes'
    BY DEF EquipmentTypes
  <1>4. ItemsOfSeveral'
    BY DEF LockTypes, SessionTypes, ItemsOfSeveral, Phases
  <1>5. Phases'
    BY DEF LockTypes, SessionTypes, ItemsOfSeveral, Phases
  <1>6. Quiet'
    BY DEF SessionTypes, Phases, EquipmentTypes, Quiet, TapesKnown
  <1>7. Watched'
    BY DEF LockTypes, SessionTypes, EquipmentTypes, Phases, Reporting, Watched,
           Excused, Ending
  <1> QED  BY <1>1, <1>2, <1>3, <1>4, <1>5, <1>6, <1>7

\* A recording is to be aborted because the capture does not record well.
LEMMA HandleNotGoodKeeps ==
    ASSUME IInv, HandleNotGood
    PROVE  IInv'
  <1> USE DEF IInv, TypeOK, HandleNotGood, Enter, AbortIfRecording
  <1>1. LockTypes' /\ Reporting'
    BY DEF LockTypes, Reporting
  <1>2. SessionTypes'
    <2>1. requests' \subseteq Requests
      BY DEF SessionTypes
    <2>2. /\ state' \in States /\ stopThread' \in BOOLEAN
          /\ chunking' \in {"none", "running", "completed", "failed"}
          /\ UNCHANGED <<session, result, multi, control>>
      BY DEF SessionTypes
    <2> QED  BY <2>1, <2>2, SessionStays
  <1>3. EquipmentTypes'
    BY DEF EquipmentTypes
  <1>4. ItemsOfSeveral'
    BY DEF LockTypes, SessionTypes, ItemsOfSeveral, Phases
  <1>5. Phases'
    BY DEF LockTypes, SessionTypes, ItemsOfSeveral, Phases
  <1>6. Quiet'
    BY DEF SessionTypes, Phases, EquipmentTypes, Quiet, TapesKnown
  <1>7. Watched'
    BY DEF LockTypes, SessionTypes, EquipmentTypes, Phases, Reporting, Watched,
           Excused, Ending
  <1> QED  BY <1>1, <1>2, <1>3, <1>4, <1>5, <1>6, <1>7

\* The capture ends, and the session is to be aborted.
LEMMA HandleOverflowKeeps ==
    ASSUME IInv, HandleOverflow
    PROVE  IInv'
  <1> USE DEF IInv, TypeOK, HandleOverflow, Enter
  <1>1. LockTypes' /\ Reporting'
    BY DEF LockTypes, Reporting
  <1>2. SessionTypes'
    <2>1. requests' \subseteq Requests
      BY DEF SessionTypes
    <2>2. /\ state' \in States /\ stopThread' \in BOOLEAN
          /\ chunking' \in {"none", "running", "completed", "failed"}
          /\ UNCHANGED <<session, result, multi, control>>
      BY DEF SessionTypes
    <2> QED  BY <2>1, <2>2, SessionStays
  <1>3. EquipmentTypes'
    BY DEF EquipmentTypes
  <1>4. ItemsOfSeveral'
    BY DEF LockTypes, SessionTypes, ItemsOfSeveral, Phases
  <1>5. Phases'
    BY DEF LockTypes, SessionTypes, ItemsOfSeveral, Phases
  <1>6. Quiet'
    BY DEF SessionTypes, Phases, EquipmentTypes, Quiet, TapesKnown
  <1>7. Watched'
    BY DEF LockTypes, SessionTypes, EquipmentTypes, Phases, Reporting, Watched,
           Excused, Ending
  <1> QED  BY <1>1, <1>2, <1>3, <1>4, <1>5, <1>6, <1>7

\* A caller is to clear a finished session away, or finds none.
LEMMA LockForWritingKeeps ==
    ASSUME IInv, NEW p \in Callers, LockForWriting(p)
    PROVE  IInv'
  <1> USE DEF IInv, TypeOK, LockForWriting
  <1>1. LockTypes' /\ Reporting'
    BY DEF LockTypes, Reporting
  <1>2. SessionTypes'
    <2>1. requests' \subseteq Requests
      BY DEF SessionTypes
    <2>2. state' \in States /\ UNCHANGED <<session, result, multi, control>>
      BY DEF SessionTypes
    <2>3. /\ stopThread' \in BOOLEAN
          /\ chunking' \in {"none", "running", "completed", "failed"}
      BY DEF SessionTypes
    <2> QED  BY <2>1, <2>2, <2>3, SessionStays
  <1>3. EquipmentTypes'
    BY DEF EquipmentTypes
  <1>4. ItemsOfSeveral'
    BY DEF LockTypes, SessionTypes, ItemsOfSeveral, Phases
  <1>5. Phases'
    BY DEF LockTypes, SessionTypes, ItemsOfSeveral, Phases
  <1>6. Quiet'
    BY DEF SessionTypes, Phases, EquipmentTypes, Quiet, TapesKnown
  <1>7. Watched'
    BY DEF LockTypes, SessionTypes, EquipmentTypes, Phases, Reporting, Watched,
           Excused, Ending
  <1> QED  BY <1>1, <1>2, <1>3, <1>4, <1>5, <1>6, <1>7

\* The thread has ended: nothing is running.
LEMMA ClearKeeps ==
    ASSUME IInv, NEW p \in Callers, Clear(p)
    PROVE  IInv'
  <1> USE DEF IInv, TypeOK, Clear
  <1>1. LockTypes' /\ Reporting'
    BY DEF LockTypes, Reporting
  <1>2. SessionTypes'
    <2>1. /\ requests' = {} /\ at' = "none" /\ chunking' = "none" /\ session' = FALSE
          /\ UNCHANGED <<life, stopThread>>
      OBVIOUS
    <2>2. state \in States /\ result \in {"unknown", "completed", "failed"}
          /\ multi \in BOOLEAN /\ stopThread \in BOOLEAN
      BY DEF SessionTypes
    <2> QED  BY <2>1, <2>2 DEF SessionTypes
  <1>3. EquipmentTypes'
    BY DEF EquipmentTypes
  <1>4. ItemsOfSeveral'
    BY DEF LockTypes, SessionTypes, ItemsOfSeveral, Phases
  <1>5. Phases'
    BY DEF LockTypes, SessionTypes, ItemsOfSeveral, Phases
  <1>6. Quiet'
    BY DEF SessionTypes, Phases, EquipmentTypes, Quiet, TapesKnown
  <1>7. Watched'
    BY DEF LockTypes, SessionTypes, EquipmentTypes, Phases, Reporting, Watched,
           Excused, Ending
  <1> QED  BY <1>1, <1>2, <1>3, <1>4, <1>5, <1>6, <1>7

\* A session starts with nothing running.
LEMMA startNewSessionKeeps ==
    ASSUME IInv, NEW several \in BOOLEAN, startNewSession(several)
    PROVE  IInv'
  <1> USE DEF IInv, TypeOK, startNewSession, Enter
  <1>1. LockTypes' /\ Reporting'
    BY DEF LockTypes, Reporting
  <1>2. SessionTypes'
    BY DEF SessionTypes, LockTypes
  <1>3. EquipmentTypes'
    BY DEF EquipmentTypes
  <1>4. ItemsOfSeveral'
    BY DEF LockTypes, SessionTypes, ItemsOfSeveral, Phases
  <1>5. Phases'
    BY DEF LockTypes, SessionTypes, ItemsOfSeveral, Phases
  <1>6. Quiet'
    BY DEF SessionTypes, Phases, EquipmentTypes, Quiet, TapesKnown
  <1>7. Watched'
    BY DEF LockTypes, SessionTypes, EquipmentTypes, Phases, Reporting, Watched,
           Excused, Ending
  <1> QED  BY <1>1, <1>2, <1>3, <1>4, <1>5, <1>6, <1>7

\* There is no recording to lose.
LEMMA AbortLooseCaptureKeeps ==
    ASSUME IInv, AbortLooseCapture
    PROVE  IInv'
  <1> USE DEF IInv, TypeOK, AbortLooseCapture, Enter
  <1>1. LockTypes' /\ Reporting'
    BY DEF LockTypes, Reporting
  <1>2. SessionTypes'
    <2>1. requests' \subseteq Requests
      BY DEF SessionTypes
    <2>2. /\ state' \in States /\ stopThread' \in BOOLEAN
          /\ chunking' \in {"none", "running", "completed", "failed"}
          /\ UNCHANGED <<session, result, multi, control>>
      BY DEF SessionTypes
    <2> QED  BY <2>1, <2>2, SessionStays
  <1>3. EquipmentTypes'
    BY DEF EquipmentTypes
  <1>4. ItemsOfSeveral'
    BY DEF LockTypes, SessionTypes, ItemsOfSeveral, Phases
  <1>5. Phases'
    BY DEF LockTypes, SessionTypes, ItemsOfSeveral, Phases
  <1>6. Quiet'
    BY DEF SessionTypes, Phases, EquipmentTypes, Quiet, TapesKnown
  <1>7. Watched'
    BY DEF LockTypes, SessionTypes, EquipmentTypes, Phases, Reporting, Watched,
           Excused, Ending
  <1> QED  BY <1>1, <1>2, <1>3, <1>4, <1>5, <1>6, <1>7

\* A request is added to those there.
LEMMA AskKeeps ==
    ASSUME IInv, NEW r \in Requests, Ask(r)
    PROVE  IInv'
  <1> USE DEF IInv, TypeOK, Ask, Enter
  <1>1. LockTypes' /\ Reporting'
    BY DEF LockTypes, Reporting
  <1>2. SessionTypes'
    <2>1. requests' \subseteq Requests
      BY DEF SessionTypes
    <2>2. /\ state' \in States /\ stopThread' \in BOOLEAN
          /\ chunking' \in {"none", "running", "completed", "failed"}
          /\ UNCHANGED <<session, result, multi, control>>
      BY DEF SessionTypes
    <2> QED  BY <2>1, <2>2, SessionStays
  <1>3. EquipmentTypes'
    BY DEF EquipmentTypes
  <1>4. ItemsOfSeveral'
    BY DEF LockTypes, SessionTypes, ItemsOfSeveral, Phases
  <1>5. Phases'
    BY DEF LockTypes, SessionTypes, ItemsOfSeveral, Phases
  <1>6. Quiet'
    BY DEF SessionTypes, Phases, EquipmentTypes, Quiet, TapesKnown
  <1>7. Watched'
    BY DEF LockTypes, SessionTypes, EquipmentTypes, Phases, Reporting, Watched,
           Excused, Ending
  <1> QED  BY <1>1, <1>2, <1>3, <1>4, <1>5, <1>6, <1>7

\* The end of the cutting into items is noticed.
LEMMA GetStatusKeeps ==
    ASSUME IInv, GetStatus
    PROVE  IInv'
  <1> USE DEF IInv, TypeOK, GetStatus, Enter
  <1>1. LockTypes' /\ Reporting'
    BY DEF LockTypes, Reporting
  <1>2. SessionTypes'
    <2>1. requests' \subseteq Requests
      BY DEF SessionTypes
    <2>2. state' \in States /\ UNCHANGED <<session, result, multi, control>>
      BY DEF SessionTypes
    <2>3. /\ stopThread' \in BOOLEAN
          /\ chunking' \in {"none", "running", "completed", "failed"}
      BY DEF SessionTypes
    <2> QED  BY <2>1, <2>2, <2>3, SessionStays
  <1>3. EquipmentTypes'
    BY DEF EquipmentTypes
  <1>4. ItemsOfSeveral'
    BY DEF LockTypes, SessionTypes, ItemsOfSeveral, Phases
  <1>5. Phases'
    BY DEF LockTypes, SessionTypes, ItemsOfSeveral, Phases
  <1>6. Quiet'
    BY DEF SessionTypes, Phases, EquipmentTypes, Quiet, TapesKnown,
           ItemsOfSeveral
  <1>7. Watched'
    BY DEF LockTypes, SessionTypes, EquipmentTypes, Phases, Reporting, Watched,
           Excused, Ending
  <1> QED  BY <1>1, <1>2, <1>3, <1>4, <1>5, <1>6, <1>7

\* A report ends the recording, or was missed.
LEMMA HandleReportKeeps ==
    ASSUME IInv, HandleReport
    PROVE  IInv'
  <1> USE DEF IInv, TypeOK, HandleReport, Enter, AbortIfRecording
  <1>1. LockTypes' /\ Reporting'
    BY DEF LockTypes, Reporting
  <1>2. SessionTypes'
    <2>1. requests' \subseteq Requests
      BY DEF SessionTypes
    <2>2. /\ state' \in States /\ stopThread' \in BOOLEAN
          /\ chunking' \in {"none", "running", "completed", "failed"}
          /\ UNCHANGED <<session, result, multi, control>>
      BY DEF SessionTypes
    <2> QED  BY <2>1, <2>2, SessionStays
  <1>3. EquipmentTypes'
    BY DEF EquipmentTypes
  <1>4. ItemsOfSeveral'
    BY DEF LockTypes, SessionTypes, ItemsOfSeveral, Phases
  <1>5. Phases'
    BY DEF LockTypes, SessionTypes, ItemsOfSeveral, Phases
  <1>6. Quiet'
    BY DEF SessionTypes, Phases, EquipmentTypes, Quiet, TapesKnown
  <1>7. Watched'
    BY DEF LockTypes, SessionTypes, EquipmentTypes, Phases, Reporting, Watched,
           Excused, Ending
  <1> QED  BY <1>1, <1>2, <1>3, <1>4, <1>5, <1>6, <1>7

\* A tape machine stops, and the news is on its way.
LEMMA TapeStopsKeeps ==
    ASSUME IInv, NEW v \in Tapes, TapeStops(v)
    PROVE  IInv'
  <1> USE DEF IInv, TypeOK, TapeStops
  <1>1. LockTypes' /\ Reporting'
    BY DEF LockTypes, Reporting
  <1>2. SessionTypes'
    <2>1. requests' \subseteq Requests
      BY DEF SessionTypes
    <2>2. /\ state' \in States /\ stopThread' \in BOOLEAN
          /\ chunking' \in {"none", "running", "completed", "failed"}
          /\ UNCHANGED <<session, result, multi, control>>
      BY DEF SessionTypes
    <2> QED  BY <2>1, <2>2, SessionStays
  <1>3. EquipmentTypes'
    BY DEF EquipmentTypes
  <1>4. ItemsOfSeveral'
    BY DEF LockTypes, SessionTypes, ItemsOfSeveral, Phases
  <1>5. Phases'
    BY DEF LockTypes, SessionTypes, ItemsOfSeveral, Phases
  <1>6. Quiet'
    BY DEF SessionTypes, Phases, EquipmentTypes, Quiet, TapesKnown
  <1>7. Watched'
    BY DEF LockTypes, SessionTypes, EquipmentTypes, Phases, Reporting, Watched,
           Excused, Ending
  <1> QED  BY <1>1, <1>2, <1>3, <1>4, <1>5, <1>6, <1>7

\* A tape machine changes to another state,
LEMMA TapeGoesKeeps ==
    ASSUME IInv, NEW v \in Tapes, TapeGoes(v)
    PROVE  IInv'
  <1> USE DEF IInv, TypeOK, TapeGoes
  <1>1. LockTypes' /\ Reporting'
    BY DEF LockTypes, Reporting
  <1>2. SessionTypes'
    <2>1. requests' \subseteq Requests
      BY DEF SessionTypes
    <2>2. /\ state' \in States /\ stopThread' \in BOOLEAN
          /\ chunking' \in {"none", "running", "completed", "failed"}
          /\ UNCHANGED <<session, result, multi, control>>
      BY DEF SessionTypes
    <2> QED  BY <2>1, <2>2, SessionStays
  <1>3. EquipmentTypes'
    BY DEF EquipmentTypes
  <1>4. ItemsOfSeveral'
    BY DEF LockTypes, SessionTypes, ItemsOfSeveral, Phases
  <1>5. Phases'
    BY DEF LockTypes, SessionTypes, ItemsOfSeveral, Phases
  <1>6. Quiet'
    BY DEF SessionTypes, Phases, EquipmentTypes, Quiet, TapesKnown
  <1>7. Watched'
    BY DEF LockTypes, SessionTypes, EquipmentTypes, Phases, Reporting, Watched,
           Excused, Ending
  <1> QED  BY <1>1, <1>2, <1>3, <1>4, <1>5, <1>6, <1>7

\* and back.
LEMMA TapeReturnsKeeps ==
    ASSUME IInv, NEW v \in Tapes, TapeReturns(v)
    PROVE  IInv'
  <1> USE DEF IInv, TypeOK, TapeReturns
  <1>1. LockTypes' /\ Reporting'
    BY DEF LockTypes, Reporting
  <1>2. SessionTypes'
    <2>1. requests' \subseteq Requests
      BY DEF SessionTypes
    <2>2. /\ state' \in States /\ stopThread' \in BOOLEAN
          /\ chunking' \in {"none", "running", "completed", "failed"}
          /\ UNCHANGED <<session, result, multi, control>>
      BY DEF SessionTypes
    <2> QED  BY <2>1, <2>2, SessionStays
  <1>3. EquipmentTypes'
    BY DEF EquipmentTypes
  <1>4. ItemsOfSeveral'
    BY DEF LockTypes, SessionTypes, ItemsOfSeveral, Phases
  <1>5. Phases'
    BY DEF LockTypes, SessionTypes, ItemsOfSeveral, Phases
  <1>6. Quiet'
    BY DEF SessionTypes, Phases, EquipmentTypes, Quiet, TapesKnown
  <1>7. Watched'
    BY DEF LockTypes, SessionTypes, EquipmentTypes, Phases, Reporting, Watched,
           Excused, Ending
  <1> QED  BY <1>1, <1>2, <1>3, <1>4, <1>5, <1>6, <1>7

\* The news of a tape machine reaches the session, or is missed.
LEMMA vtrStateKeeps ==
    ASSUME IInv, NEW v \in Tapes, vtrState(v)
    PROVE  IInv'
  <1> USE DEF IInv, TypeOK, vtrState
  <1>1. LockTypes' /\ Reporting'
    BY DEF LockTypes, Reporting
  <1>2. SessionTypes'
    <2>1. requests' \subseteq Requests
      BY DEF SessionTypes
    <2>2. /\ state' \in States /\ stopThread' \in BOOLEAN
          /\ chunking' \in {"none", "running", "completed", "failed"}
          /\ UNCHANGED <<session, result, multi, control>>
      BY DEF SessionTypes
    <2> QED  BY <2>1, <2>2, SessionStays
  <1>3. EquipmentTypes'
    BY DEF EquipmentTypes
  <1>4. ItemsOfSeveral'
    BY DEF LockTypes, SessionTypes, ItemsOfSeveral, Phases
  <1>5. Phases'
    BY DEF LockTypes, SessionTypes, ItemsOfSeveral, Phases
  <1>6. Quiet'
    BY DEF SessionTypes, Phases, EquipmentTypes, Quiet, TapesKnown
  <1>7. Watched'
    BY DEF LockTypes, SessionTypes, EquipmentTypes, Phases, Reporting, Watched,
           Excused, Ending
  <1> QED  BY <1>1, <1>2, <1>3, <1>4, <1>5, <1>6, <1>7

\* What the state does not allow is ignored.
LEMMA IgnoredKeeps ==
    ASSUME IInv, Ignored
    PROVE  IInv'
  <1>1. PICK r \in Requests, allowed \in SUBSET States :
            Refuse(r, allowed) /\ (r \in {"stop", "abort"} => "RECORDING" \in allowed)
    <2>1. CASE Refuse("abort", {"READY", "RECORDING", "REVIEWING",
                                "PREPARE CHUNKING", "CHUNKING"})
      BY <2>1
    <2>2. CASE Refuse("complete", {"REVIEWING"})
      BY <2>2
    <2>3. CASE Refuse("chunk", {"PREPARE CHUNKING"})
      BY <2>3
    <2>4. CASE Refuse("stop", {"RECORDING"})
      BY <2>4
    <2>5. CASE Refuse("start", {"READY"})
      BY <2>5
    <2> QED  BY <2>1, <2>2, <2>3, <2>4, <2>5 DEF Ignored
  <1> QED  BY <1>1, RefuseKeeps

\* The invariant holds at first.
LEMMA InitiallyIInv == Init => IInv
  BY DEF Init, IInv, TypeOK, LockTypes, SessionTypes, EquipmentTypes, ItemsOfSeveral,
         Phases, Quiet, TapesKnown, Reporting, Watched, Excused

\* A step that changes nothing keeps the invariant.
LEMMA StutterKeeps == IInv /\ UNCHANGED vars => IInv'
  <1> SUFFICES ASSUME IInv, UNCHANGED vars PROVE IInv'
    OBVIOUS
  <1> USE DEF IInv, TypeOK, vars
  <1>1. LockTypes' /\ EquipmentTypes' /\ Reporting'
    BY DEF LockTypes, EquipmentTypes, Reporting
  <1>2. SessionTypes' /\ ItemsOfSeveral'
    <2>1. requests' \subseteq Requests
      BY DEF SessionTypes
    <2>2. /\ state' \in States /\ stopThread' \in BOOLEAN
          /\ chunking' \in {"none", "running", "completed", "failed"}
          /\ UNCHANGED <<session, result, multi, control>>
      BY DEF SessionTypes
    <2>3. ItemsOfSeveral'
      BY DEF ItemsOfSeveral
    <2> QED  BY <2>1, <2>2, <2>3, SessionStays
  <1>3. Phases' /\ Quiet'
    BY DEF Phases, Quiet, TapesKnown
  <1>4. Watched'
    BY DEF Watched, Excused, Ending
  <1> QED  BY <1>1, <1>2, <1>3, <1>4

\* The steps of the session's thread keep the invariant.
LEMMA ThreadKeeps == IInv /\ Thread => IInv'
  <1> SUFFICES ASSUME IInv, Thread PROVE IInv'
    OBVIOUS
  <1> QED
    BY TakeRequestKeeps, IgnoredKeeps, StartPlayingKeeps, PlaysTooLateKeeps, StartFailsKeeps,
       StartCaptureKeeps, StartCaptureFailsKeeps, RecordingKeeps,
       DigibetaNotRecordingKeeps, StopBeginsKeeps, StopCaptureKeeps,
       StopFailsKeeps, StoppedKeeps, StartChunkingKeeps, ChunkingFailsKeeps,
       CompleteKeeps, CompleteFailsKeeps, AbortTapesKeeps, AbortKeeps,
       AbortFailsKeeps, LeaveLoopKeeps, SessionDoneKeeps
       DEF Thread

\* The invariant is inductive.
LEMMA NextKeeps == IInv /\ [Next]_vars => IInv'
  <1> SUFFICES ASSUME IInv, [Next]_vars PROVE IInv'
    OBVIOUS
  <1> QED
    BY ThreadKeeps, DiskIsFullKeeps, ChunkingEndsKeeps, RequestKeeps,
       ReportKeeps, OverflowKeeps, ReportOverflowKeeps, HandleNotGoodKeeps,
       HandleOverflowKeeps, LockForWritingKeeps, ClearKeeps, startNewSessionKeeps,
       AbortLooseCaptureKeeps, AskKeeps, GetStatusKeeps, HandleReportKeeps,
       TapeStopsKeeps, TapeGoesKeeps, TapeReturnsKeeps, vtrStateKeeps, StutterKeeps
       DEF Next, StoreThread

\* All three invariants of the module follow from it.
LEMMA Consequences == IInv => TypeOK /\ EndIsQuiet /\ RecordingWatched
  BY DEF IInv, TypeOK, LockTypes, SessionTypes, EquipmentTypes, ItemsOfSeveral, Phases,
         Quiet, TapesKnown, Reporting, Watched, Excused, Ending, EndIsQuiet,
         RecordingWatched

\* The inductive invariant holds in every behaviour.
LEMMA Invariance == Spec => []IInv
  BY InitiallyIInv, NextKeeps, PTL DEF Spec

\* Every variable keeps its type, the lock is held for writing only to wait for
\* the end of a session's thread, and only a session of several items is cut
\* into items.
THEOREM TypeCorrect == Spec => []TypeOK
  BY Invariance, Consequences, PTL

\* A session that was completed or aborted leaves neither a capture nor the
\* cutting into items running, whatever was asked of it, in whatever order, and
\* whatever failed; and of the tape machines only those known to have refused to
\* stop, to have been in another state when they would have been told to, or to
\* have begun to play too late.
THEOREM EndsQuietly == Spec => []EndIsQuiet
  BY Invariance, Consequences, PTL

\* A recording that lacks a tape machine, its signal or its capture is ended, or
\* the news of it is on its way to the session; but for news that came while it
\* was being started and an abort that failed.
THEOREM RecordingIsWatched == Spec => []RecordingWatched
  BY Invariance, Consequences, PTL
===============================================================================
