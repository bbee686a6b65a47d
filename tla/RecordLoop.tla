----------------------------- MODULE RecordLoop -----------------------------
(* The main loop of a record thread (studio/ace-tao/Recorder/                *)
(* recorder_functions.cpp), for one channel encoded by an MtEncoder, with    *)
(* the capture process that fills the ring it reads.                         *)
(*                                                                           *)
(* The record thread queues every new frame of the ring to the encoder's     *)
(* threads, which read the picture in the ring itself and look at the frame  *)
(* number afterwards, and it writes the coded frames to the file in order.   *)
(* Frames are named by their number, and a picture, or the audio of a frame, *)
(* by the tick at which it was captured.                                     *)
EXTENDS CaptureChannel, Sequences

CONSTANTS
    Threads,     \* the threads of the MtEncoder
    SearchGuard, \* SEARCH_GUARD
    MaxAhead,    \* how far ahead of the ring a start may be: 4 in the code
    MaxPostRoll  \* bound: post_roll of Stop

ASSUME BacklogAssumption == RingLen >= 4
ASSUME StartAssumption ==
    SearchGuard \in Nat /\ MaxAhead \in Nat /\ MaxPostRoll \in Nat
\* The signal stays good.
ASSUME GoodSignalAssumption == MaxLosses = 0

VARIABLES
    rec,           \* program counter of the record thread
    start,         \* start_frame
    lastcoded, last_saved,
    toCode,        \* frames_to_code, those still to come
    frames,        \* encode_frame_buffer: of each frame, its video track
    audio,         \* the loop's array a, where all audio tracks point: whose audio is in it
    queue,         \* the MtEncoder's message queue
    thread,        \* its threads: program counter, frame in hand, the picture encoded
    framesWritten, framesDropped,
    stopper,       \* Stop: how far it is, the length it has counted, and, for the
                   \* properties, the length there was when it was called
    target,        \* TargetDuration, 0 until it is set
    saved,         \* for the properties: what was last written to the file
    overrun        \* for the properties: frames were dropped while others were being coded

channel   == vars
recording == <<rec, start, lastcoded, last_saved, toCode, framesWritten, framesDropped>>
coding    == <<frames, audio, queue, thread>>
stopping  == <<stopper, target>>
recVars   == <<channel, recording, coding, stopping, saved, overrun>>

Idle == [at |-> "getq", frame |-> -1, picture |-> Blank]
NotStopped == [at |-> "none", length |-> 0, asked |-> -1]
NothingSaved == [frame |-> -1, picture |-> Blank, audio |-> Blank, error |-> FALSE]

RecInit ==
    /\ Init
    /\ rec = "idle" /\ start = 0 /\ lastcoded = -1 /\ last_saved = -1 /\ toCode = 0
    /\ framesWritten = 0 /\ framesDropped = 0
    /\ frames = <<>> /\ audio = Blank /\ queue = <<>>
    /\ thread = [t \in Threads |-> Idle]
    /\ stopper = NotStopped /\ target = 0 /\ saved = NothingSaved /\ overrun = FALSE

-----------------------------------------------------------------------------
(* IngexRecorder: start and stop *)

SearchLimit == IF RingLen > SearchGuard THEN RingLen - SearchGuard ELSE 1

\* CheckStartTimecode found the start timecode in the ring or, a little in
\* the future, predicted its frame; the record thread enters its loop.
Start(n) ==
    /\ rec = "idle" /\ lastframe >= 0
    /\ n \in lastframe - SearchLimit + 1 .. lastframe + MaxAhead /\ n >= 0
    /\ start' = n /\ lastcoded' = n - 1 /\ last_saved' = n - 1
    /\ rec' = "loop"
    /\ UNCHANGED <<channel, toCode, framesWritten, framesDropped, coding, stopping, saved, overrun>>

AtLeast1(n) == IF n < 1 THEN 1 ELSE n

\* Stop "now", which is called once: the duration so far, and the post-roll,
\* become the target.  FramesWritten, FramesDropped and TargetDuration each
\* take the lock anew, and the record thread goes on in between.
StopReadsWritten(post_roll) ==
    /\ rec \notin {"idle", "done"} /\ stopper = NotStopped
    /\ stopper' = [at |-> "dropped", length |-> framesWritten + post_roll,
                   asked |-> framesWritten + framesDropped]
    /\ UNCHANGED <<channel, recording, coding, target, saved, overrun>>

StopReadsDropped ==
    /\ stopper.at = "dropped"
    /\ stopper' = [stopper EXCEPT !.at = "target", !.length = @ + framesDropped]
    /\ UNCHANGED <<channel, recording, coding, target, saved, overrun>>

StopSetsTarget ==
    /\ stopper.at = "target"
    /\ target' = AtLeast1(stopper.length)
    /\ stopper' = [stopper EXCEPT !.at = "returned"]
    /\ UNCHANGED <<channel, recording, coding, saved, overrun>>

-----------------------------------------------------------------------------
(* The record thread *)

\* Mutant: the whole ring may be waiting
AllowedBacklogWholeRing == RingLen

AllowedBacklog == RingLen - 3

Pending == lastcoded > last_saved

\* Mutant: the dropped frames are still looked for in the buffer
CheckBacklogKeepsSaved ==
    LET frames_to_code == lastframe - lastcoded
        drop == IF frames_to_code > AllowedBacklog THEN frames_to_code - AllowedBacklog ELSE 0
    IN  /\ rec = "loop" /\ frames_to_code > 0
        /\ toCode' = frames_to_code - drop
        /\ lastcoded' = lastcoded + drop
        /\ framesDropped' = framesDropped + drop
        /\ overrun' = (overrun \/ (drop > 0 /\ Pending))
        /\ rec' = "queue"
        /\ UNCHANGED <<channel, start, last_saved, framesWritten, coding, stopping, saved>>

\* New frames (until there are some the thread sleeps, or spins when the
\* start is in the future): those beyond the allowed backlog are dropped.
CheckBacklog ==
    LET frames_to_code == lastframe - lastcoded
        drop == IF frames_to_code > AllowedBacklog THEN frames_to_code - AllowedBacklog ELSE 0
    IN  /\ rec = "loop" /\ frames_to_code > 0
        /\ toCode' = frames_to_code - drop
        /\ lastcoded' = lastcoded + drop
        /\ last_saved' = last_saved + drop
        /\ framesDropped' = framesDropped + drop
        /\ overrun' = (overrun \/ (drop > 0 /\ Pending))
        /\ rec' = "queue"
        /\ UNCHANGED <<channel, start, framesWritten, coding, stopping, saved>>

\* The audio is copied out of the slot into the array a; the video track
\* points into the slot, and remembers the frame number found there.
QueueFrame ==
    LET frame_index == lastcoded + 1
        slot == ring[SlotOf(frame_index)]
    IN  /\ rec = "queue"
        /\ audio' = slot.picture
        /\ frames' = [n \in DOMAIN frames \union {frame_index} |->
                        IF n = frame_index
                        THEN [index |-> slot.number, coded |-> FALSE, error |-> FALSE, picture |-> Blank]
                        ELSE frames[n]]
        /\ queue' = Append(queue, frame_index)
        /\ lastcoded' = frame_index
        /\ toCode' = toCode - 1
        /\ rec' = "save"
        /\ UNCHANGED <<channel, start, last_saved, framesWritten, framesDropped, thread, stopping, saved, overrun>>

\* Mutant: the next frame is written as soon as it is in the buffer
NextIsQueued == last_saved + 1 \in DOMAIN frames

\* (The code makes an entry without tracks when it looks for a frame in vain;
\* such an entry is never coded and is taken for none.)
NextIsCoded == last_saved + 1 \in DOMAIN frames /\ frames[last_saved + 1].coded

Finished(total) == target > 0 /\ total >= target

\* Write the next frame to the file and erase it from the buffer.
SaveFrame ==
    LET n == last_saved + 1
    IN  /\ rec = "save" /\ NextIsCoded
        /\ saved' = [frame |-> n, picture |-> frames[n].picture, audio |-> audio, error |-> frames[n].error]
        /\ last_saved' = n
        /\ frames' = [m \in DOMAIN frames \ {n} |-> frames[m]]
        /\ framesWritten' = framesWritten + 1
        /\ rec' = "finished?"
        /\ UNCHANGED <<channel, start, lastcoded, toCode, framesDropped, audio, queue, thread, stopping, overrun>>

\* The target is read under a lock of its own.
CheckFinished ==
    /\ rec = "finished?"
    /\ rec' = IF Finished(framesWritten + framesDropped) THEN "done" ELSE "save"
    /\ UNCHANGED <<channel, start, lastcoded, last_saved, toCode, framesWritten, framesDropped,
                   coding, stopping, saved, overrun>>

SaveNoMore ==
    /\ rec = "save" /\ ~NextIsCoded
    /\ rec' = IF toCode > 0 THEN "queue" ELSE "loop"
    /\ UNCHANGED <<channel, start, lastcoded, last_saved, toCode, framesWritten, framesDropped,
                   coding, stopping, saved, overrun>>

-----------------------------------------------------------------------------
(* MtEncoder::svc *)

Working(t, at) == rec # "done" /\ thread[t].at = at

GetFrame(t) ==
    /\ Working(t, "getq") /\ queue # <<>>
    /\ thread' = [thread EXCEPT ![t].at = "encode", ![t].frame = Head(queue)]
    /\ queue' = Tail(queue)
    /\ UNCHANGED <<channel, recording, frames, audio, stopping, saved, overrun>>

\* ffmpeg_encoder_encode reads the picture in the ring.
Encode(t) ==
    /\ Working(t, "encode")
    /\ thread' = [thread EXCEPT ![t].at = "check",
                                ![t].picture = ring[SlotOf(thread[t].frame)].picture]
    /\ UNCHANGED <<channel, recording, frames, audio, queue, stopping, saved, overrun>>

\* "Check the frame was still in memory" and, in any case, replace the input
\* data with the coded data, which marks the track as coded.
Replace(t) ==
    LET n == thread[t].frame
        valid == ring[SlotOf(n)].number = frames[n].index
    IN  /\ Working(t, "check")
        /\ frames' = [frames EXCEPT ![n].coded = TRUE, ![n].picture = thread[t].picture]
        /\ thread' = [thread EXCEPT ![t] = IF valid THEN Idle ELSE [@ EXCEPT !.at = "error"]]
        /\ UNCHANGED <<channel, recording, audio, queue, stopping, saved, overrun>>

\* Only then the error is set.  The record thread may have written and erased
\* the frame already; then this writes to freed memory, and nobody reads it.
SetError(t) ==
    LET n == thread[t].frame
    IN  /\ Working(t, "error")
        /\ frames' = [m \in DOMAIN frames |-> IF m = n THEN [frames[m] EXCEPT !.error = TRUE] ELSE frames[m]]
        /\ thread' = [thread EXCEPT ![t] = Idle]
        /\ UNCHANGED <<channel, recording, audio, queue, stopping, saved, overrun>>

-----------------------------------------------------------------------------
\* With a good signal only GetBuffer looks at the time, and no frame is lost
\* in the card: it is enough that a tick passes when the thread waits for it.
WaitsForFrame == capture = "get" /\ taken = now

Capture ==
    \/ Tick /\ WaitsForFrame
    \/ SdiMonitor

RecorderUnchanged == UNCHANGED <<recording, coding, stopping, saved, overrun>>

Record == CheckBacklog \/ QueueFrame \/ SaveFrame \/ CheckFinished \/ SaveNoMore

Control ==
    \/ \E n \in 0 .. MaxTick : Start(n)
    \/ \E post_roll \in 0 .. MaxPostRoll : StopReadsWritten(post_roll)
    \/ StopReadsDropped \/ StopSetsTarget

MtEncoder == \E t \in Threads : GetFrame(t) \/ Encode(t) \/ Replace(t) \/ SetError(t)

\* What follows the end of the recording is left out.
RecNext ==
    \/ rec # "done" /\ Capture /\ RecorderUnchanged
    \/ Record
    \/ Control
    \/ MtEncoder

RecSpec == RecInit /\ [][RecNext]_recVars

-----------------------------------------------------------------------------
\* Every variable holds what the code's types allow, and no more frames are
\* taken on at a time than the backlog allows.
RecTypeOK ==
    /\ TypeOK
    /\ rec \in {"idle", "loop", "queue", "save", "finished?", "done"}
    /\ start \in Nat /\ lastcoded \in Nat \union {-1} /\ last_saved \in Nat \union {-1}
    /\ toCode \in 0 .. RingLen - 3
    /\ DOMAIN frames \subseteq Nat
    /\ \A n \in DOMAIN frames :
          frames[n] \in [index : Nat, coded : BOOLEAN, error : BOOLEAN,
                         picture : 1 .. MaxTick \union {Blank}]
    /\ audio \in 1 .. MaxTick \union {Blank}
    /\ queue \in Seq(Nat)
    /\ thread \in [Threads -> [at : {"getq", "encode", "check", "error"}, frame : Nat \union {-1},
                               picture : 1 .. MaxTick \union {Blank}]]
    /\ framesWritten \in Nat /\ framesDropped \in Nat
    /\ stopper \in [at : {"none", "dropped", "target", "returned"}, length : Nat, asked : Nat \union {-1}]
    /\ target \in Nat
    /\ overrun \in BOOLEAN

\* "Save all frames which have not been saved": the frames in the buffer are
\* just those queued after the last one saved, so the record thread looks for
\* a frame that will come, and leaves none behind.  That is so as long as frames
\* are dropped only when nothing is being coded: otherwise last_saved moves on
\* past frames in the buffer, and reaches numbers that were never queued.
SavesEveryFrameUnlessOverrun == ~overrun => DOMAIN frames = last_saved + 1 .. lastcoded

\* The counts that IngexRecorder makes the duration from account for every
\* frame from the start to the last saved, however the frames were coded.
DurationExact == rec # "idle" => framesWritten + framesDropped = last_saved - start + 1

\* What the card captured for frame n, the signal being good.
PictureOf(n) == n + 1

HasError(n) == frames[n].error \/ \E t \in Threads : thread[t].at = "error" /\ thread[t].frame = n

\* "Check the frame was still in memory": the capture process clears the
\* number of a slot before it changes the picture, and the encoder looks at
\* the number after it has read the picture; so a coded frame that passed the
\* check is the picture of that frame.  This needs that the slot still bore
\* the number when the frame was queued, and that the number is not 0, which
\* is also what a cleared slot bears.
CheckIsSound ==
    \A n \in DOMAIN frames \ {0} :
        frames[n].coded /\ ~HasError(n) /\ frames[n].index = n => frames[n].picture = PictureOf(n)

\* What the check is there for: a frame whose slot bore its number when it was
\* queued, and whose picture was overwritten before it had been read, goes to the
\* file only with its error noted.  (Even when frame 0 is not recorded.)
OverwriteNoted ==
    [][LET n == last_saved + 1
       IN  SaveFrame /\ n > 0 /\ frames[n].index = n /\ frames[n].picture # PictureOf(n)
             => frames[n].error]_recVars

\* What the record thread, the encoder and the capture make of a file together
\* is what RecordedFile promises: frames in order and once, gaps counted, and
\* pictures that are wrong, or marked so, only when the capture has gone round
\* the ring.  It is a promise about pairs of steps that no lock joins: the
\* reading of a slot and its reuse, the marks "coded" and "error" and the
\* writing, and the counting of frames and the reading of the counts by Stop.
Made == INSTANCE RecordedFile WITH
    MaxBacklog <- RingLen - 3,
    phase <- CASE rec \in {"idle", "done"} -> rec [] rec = "finished?" -> "written" [] OTHER -> "recording",
    published <- lastframe, first <- start,
    queued <- lastcoded, waiting <- DOMAIN frames, next <- last_saved + 1,
    written <- framesWritten, dropped <- framesDropped, asked <- stopper.asked, last <- saved

ImplementsRecordedFile == Made!Spec
=============================================================================
