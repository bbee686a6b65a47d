-------------------------- MODULE BufferedMediaSink --------------------------
(* player/ingex_player/buffered_media_sink.c: a ring of frame buffers in     *)
(* front of a display sink.  The player thread (the client) composes frames  *)
(* in the ring, the read thread hands them to the target sink.               *)
(*                                                                           *)
(* A step is what one thread does between two points where the other can    *)
(* run: a critical section of stateMutex is one step, and so is each access  *)
(* outside it to a frame buffer or to the stopping flag.  A thread blocked   *)
(* in pthread_cond_wait has its program counter at "waitWritten" (the read   *)
(* thread, on frameWrittenCond) or "waitRead" (the client, on                *)
(* frameReadCond).                                                           *)
EXTENDS Integers, Sequences

CONSTANTS
    NumFrames,   \* numFrames, the size given to bms_create
    Streams,     \* the streams of the media source
    NULL,        \* no frame buffer
    NoFrame,     \* no frame of the media source
    MaxFrames,   \* bound: frames the player completes
    MaxResets    \* bound: calls of reset_or_close

\* bms_create refuses a size below 2.
ASSUME SizeAssumption == NumFrames \in Nat /\ NumFrames >= 2
ASSUME BoundAssumption == MaxFrames \in Nat /\ MaxResets \in Nat

Slots == 0 .. NumFrames - 1
Buffers == 0 .. NumFrames      \* the ring and one more, for the swap
Frame == [frame : Nat \ {0}, streams : SUBSET Streams]

ASSUME NullAssumption == NULL \notin Buffers
ASSUME NoFrameAssumption == NoFrame \notin Frame

VARIABLES
    \* the fields of struct BufferedMediaSink
    frames, swapFrame, currentFrameRead, firstFramePosition, framesUsed,
    writePosition, frameStarted, stopping, dropFrameWhenFull,
    \* the data in the frame buffers
    content,
    \* program counters of the read thread and of the player thread
    reader, client,
    \* what the player knows: frames completed, resets asked for, the streams
    \* it delivered for the frame it is composing
    completed, resets, sent,
    \* the frame the target sink showed last
    shown

ring == <<frames, swapFrame, currentFrameRead, firstFramePosition, framesUsed>>
player == <<completed, resets, sent>>
vars == <<ring, writePosition, frameStarted, stopping, dropFrameWhenFull,
          content, reader, client, player, shown>>

Blank == [frame |-> 0, streams |-> {}]

Following(slot) == (slot + 1) % NumFrames
FreeSlot(first, used) == (first + used) % NumFrames

ClientOpen == {"open", "writing", "stamped"}
-----------------------------------------------------------------------------
\* bms_create, and the ring that bms_reset_or_close allocates anew
Init ==
    /\ frames = [i \in Slots |-> i]
    /\ swapFrame = NumFrames
    /\ currentFrameRead = NULL
    /\ firstFramePosition = 0
    /\ framesUsed = 0
    /\ writePosition = 0
    /\ frameStarted = FALSE
    /\ stopping = FALSE
    /\ dropFrameWhenFull \in BOOLEAN
    /\ content = [b \in Buffers |-> Blank]
    /\ reader = "top"
    /\ client = "idle"
    /\ completed = 0 /\ resets = 0 /\ sent = {}
    /\ shown = NoFrame
-----------------------------------------------------------------------------
(* The read thread.                                                          *)

\* while (!bufSink->stopping), read without the lock
ReadThreadCheck ==
    /\ reader = "top"
    /\ reader' = IF stopping THEN "exited" ELSE "take"
    /\ UNCHANGED <<ring, writePosition, frameStarted, stopping, dropFrameWhenFull,
                   content, client, player, shown>>

\* the first critical section: take the oldest frame, leave the swap frame
ReadThreadTake ==
    /\ reader = "take"
    /\ IF framesUsed > 0
       THEN /\ currentFrameRead' = frames[firstFramePosition]
            /\ frames' = [frames EXCEPT ![firstFramePosition] = swapFrame]
            /\ swapFrame' = NULL
            /\ firstFramePosition' = Following(firstFramePosition)
            /\ framesUsed' = framesUsed - 1
            /\ reader' = "show"
       ELSE /\ reader' = "empty"
            /\ UNCHANGED ring
    /\ UNCHANGED <<writePosition, frameStarted, stopping, dropFrameWhenFull,
                   content, client, player, shown>>

\* msk_complete_sink_frame, outside the lock: the target reads the buffer
CompleteSinkFrame ==
    /\ reader = "show"
    /\ shown' = content[currentFrameRead]
    /\ reader' = "return"
    /\ UNCHANGED <<ring, writePosition, frameStarted, stopping, dropFrameWhenFull,
                   content, client, player>>

\* pthread_cond_signal(frameReadCond): only the client waits on it
SignalFrameRead == client' = IF client = "waitRead" THEN "accept" ELSE client

\* Mutant of ReturnFrame: does not signal frameReadCond.
ReturnFrameSilently ==
    /\ reader = "return"
    /\ swapFrame' = currentFrameRead
    /\ currentFrameRead' = NULL
    /\ reader' = "top"
    /\ UNCHANGED <<frames, firstFramePosition, framesUsed, writePosition,
                   frameStarted, stopping, dropFrameWhenFull, content, client,
                   player, shown>>

\* the second critical section: the buffer shown becomes the swap frame
ReturnFrame ==
    /\ reader = "return"
    /\ swapFrame' = currentFrameRead
    /\ currentFrameRead' = NULL
    /\ SignalFrameRead
    /\ reader' = "top"
    /\ UNCHANGED <<frames, firstFramePosition, framesUsed, writePosition,
                   frameStarted, stopping, dropFrameWhenFull, content, player, shown>>

\* no frame was taken: wait for one, without looking at the ring again
WaitFrameWritten ==
    /\ reader = "empty"
    /\ reader' = "waitWritten"
    /\ UNCHANGED <<ring, writePosition, frameStarted, stopping, dropFrameWhenFull,
                   content, client, player, shown>>

\* pthread_cond_signal or _broadcast(frameWrittenCond): back to the loop's test
SignalFrameWritten == reader' = IF reader = "waitWritten" THEN "top" ELSE reader
-----------------------------------------------------------------------------
(* The player thread: one frame is accept_stream_frame for its first stream, *)
(* then the streams' data, then complete_frame or cancel_frame.              *)

\* bms_accept_stream_frame is entered with no frame started
AcceptStreamFrame ==
    /\ client = "idle"
    /\ completed < MaxFrames
    /\ client' = "accept"
    /\ UNCHANGED <<ring, writePosition, frameStarted, stopping, dropFrameWhenFull,
                   content, reader, player, shown>>

\* Mutant of AcceptFree: takes the ring for free when it is just full.
AcceptFreeOffByOne ==
    /\ client = "accept"
    /\ framesUsed <= NumFrames
    /\ writePosition' = FreeSlot(firstFramePosition, framesUsed)
    /\ client' = "open"
    /\ UNCHANGED <<ring, frameStarted, stopping, dropFrameWhenFull,
                   content, reader, player, shown>>

\* its critical section, when a slot of the ring is free
AcceptFree ==
    /\ client = "accept"
    /\ framesUsed < NumFrames
    /\ writePosition' = FreeSlot(firstFramePosition, framesUsed)
    /\ client' = "open"
    /\ UNCHANGED <<ring, frameStarted, stopping, dropFrameWhenFull,
                   content, reader, player, shown>>

\* Mutant of AcceptDrop: drops the newest frame instead of the oldest.
AcceptDropNewest ==
    /\ client = "accept"
    /\ framesUsed >= NumFrames
    /\ dropFrameWhenFull
    /\ framesUsed' = framesUsed - 1
    /\ writePosition' = FreeSlot(firstFramePosition, framesUsed')
    /\ client' = "open"
    /\ UNCHANGED <<frames, swapFrame, currentFrameRead, firstFramePosition,
                   frameStarted, stopping, dropFrameWhenFull, content, reader,
                   player, shown>>

\* Mutant of AcceptDrop: moves past the oldest frame but still counts it.
AcceptDropUncounted ==
    /\ client = "accept"
    /\ framesUsed >= NumFrames
    /\ dropFrameWhenFull
    /\ firstFramePosition' = Following(firstFramePosition)
    /\ writePosition' = FreeSlot(firstFramePosition', framesUsed)
    /\ client' = "open"
    /\ UNCHANGED <<frames, swapFrame, currentFrameRead, framesUsed, frameStarted,
                   stopping, dropFrameWhenFull, content, reader, player, shown>>

\* when none is: drop the oldest frame,
AcceptDrop ==
    /\ client = "accept"
    /\ framesUsed >= NumFrames
    /\ dropFrameWhenFull
    /\ firstFramePosition' = Following(firstFramePosition)
    /\ framesUsed' = framesUsed - 1
    /\ writePosition' = FreeSlot(firstFramePosition', framesUsed')
    /\ client' = "open"
    /\ UNCHANGED <<frames, swapFrame, currentFrameRead, frameStarted, stopping,
                   dropFrameWhenFull, content, reader, player, shown>>

\* or wait for the read thread
AcceptWait ==
    /\ client = "accept"
    /\ framesUsed >= NumFrames
    /\ ~dropFrameWhenFull
    /\ client' = "waitRead"
    /\ UNCHANGED <<ring, writePosition, frameStarted, stopping, dropFrameWhenFull,
                   content, reader, player, shown>>

\* msf_reset on the buffer in the slot, outside the lock
StartFrame ==
    /\ client = "open"
    /\ content' = [content EXCEPT ![frames[writePosition]] = Blank]
    /\ frameStarted' = TRUE
    /\ client' = "writing"
    /\ UNCHANGED <<ring, writePosition, stopping, dropFrameWhenFull,
                   reader, player, shown>>

\* bms_get_stream_buffer and bms_receive_stream_frame for stream s, which find
\* the buffer through frames[writePosition] again
ReceiveStreamFrame(s) ==
    /\ client = "writing"
    /\ s \notin sent
    /\ content' = [content EXCEPT ![frames[writePosition]].streams = @ \union {s}]
    /\ sent' = sent \union {s}
    /\ UNCHANGED <<ring, writePosition, frameStarted, stopping, dropFrameWhenFull,
                   reader, client, completed, resets, shown>>

\* bms_complete_frame up to the lock: stamp the frame with its frame info
StampFrame ==
    /\ client = "writing"
    /\ content' = [content EXCEPT ![frames[writePosition]].frame = completed + 1]
    /\ frameStarted' = FALSE
    /\ client' = "stamped"
    /\ UNCHANGED <<ring, writePosition, stopping, dropFrameWhenFull,
                   reader, player, shown>>

\* bms_complete_frame, the critical section
CompleteFrame ==
    /\ client = "stamped"
    /\ framesUsed' = framesUsed + 1
    /\ SignalFrameWritten
    /\ completed' = completed + 1
    /\ sent' = {}
    /\ client' = "idle"
    /\ UNCHANGED <<frames, swapFrame, currentFrameRead, firstFramePosition,
                   writePosition, frameStarted, stopping, dropFrameWhenFull,
                   content, resets, shown>>

\* bms_cancel_frame: the source could not be read, before or after a stream
CancelFrame ==
    /\ client \in {"idle", "writing"}
    /\ frameStarted' = FALSE
    /\ SignalFrameWritten
    /\ sent' = {}
    /\ client' = "idle"
    /\ UNCHANGED <<ring, writePosition, stopping, dropFrameWhenFull, content,
                   completed, resets, shown>>
-----------------------------------------------------------------------------
(* bms_close and bms_reset_or_close, called by the player thread.            *)

\* stopping = 1, without the lock
Stop(how) ==
    /\ client = "idle"
    /\ how = "resetStop" => resets < MaxResets
    /\ resets' = IF how = "resetStop" THEN resets + 1 ELSE resets
    /\ stopping' = TRUE
    /\ client' = how
    /\ UNCHANGED <<ring, writePosition, frameStarted, dropFrameWhenFull,
                   content, reader, completed, sent, shown>>

StopToClose == Stop("closeStop")
StopToReset == Stop("resetStop")

\* the critical section that broadcasts both conditions
Broadcast ==
    /\ client \in {"closeStop", "resetStop"}
    /\ SignalFrameWritten
    /\ client' = IF client = "closeStop" THEN "closeJoin" ELSE "resetJoin"
    /\ UNCHANGED <<ring, writePosition, frameStarted, stopping, dropFrameWhenFull,
                   content, player, shown>>

FreeFrames ==
    /\ frames' = [i \in Slots |-> NULL]
    /\ swapFrame' = NULL
    /\ currentFrameRead' = NULL

\* Mutant of Close: frees the buffers without joining the read thread.
CloseWithoutJoin ==
    /\ client = "closeJoin"
    /\ FreeFrames
    /\ client' = "closed"
    /\ UNCHANGED <<firstFramePosition, framesUsed, writePosition, frameStarted,
                   stopping, dropFrameWhenFull, content, reader, player, shown>>

\* join_thread returns and every buffer is freed, then the target is closed
Close ==
    /\ client = "closeJoin"
    /\ reader = "exited"
    /\ FreeFrames
    /\ client' = "closed"
    /\ UNCHANGED <<firstFramePosition, framesUsed, writePosition, frameStarted,
                   stopping, dropFrameWhenFull, content, reader, player, shown>>

\* the same for a reset, up to the call of the target's reset_or_close
ResetFree ==
    /\ client = "resetJoin"
    /\ reader = "exited"
    /\ FreeFrames
    /\ stopping' = FALSE
    /\ client' = "resetTarget"
    /\ UNCHANGED <<firstFramePosition, framesUsed, writePosition, frameStarted,
                   dropFrameWhenFull, content, reader, player, shown>>

\* the target was reset: a new ring and a new read thread
ResetDone ==
    /\ client = "resetTarget"
    /\ frames' = [i \in Slots |-> i]
    /\ swapFrame' = NumFrames
    /\ firstFramePosition' = 0
    /\ framesUsed' = 0
    /\ writePosition' = 0
    /\ frameStarted' = FALSE
    /\ content' = [b \in Buffers |-> Blank]
    /\ reader' = "top"
    /\ client' = "idle"
    /\ UNCHANGED <<currentFrameRead, stopping, dropFrameWhenFull, player, shown>>

\* the target could be neither reset nor closed (result 0), or the new ring
\* not be made: bms_close, which has no thread left to join
ResetFails ==
    /\ client = "resetTarget"
    /\ stopping' = TRUE
    /\ client' = "closed"
    /\ UNCHANGED <<ring, writePosition, frameStarted, dropFrameWhenFull, content,
                   reader, player, shown>>

\* the target closed itself (result 2): targetSink = NULL, and bms_close then
\* reads targetSink->data in the arguments of join_thread
ResetTargetClosed ==
    /\ client = "resetTarget"
    /\ stopping' = TRUE
    /\ client' = "nullTarget"
    /\ UNCHANGED <<ring, writePosition, frameStarted, dropFrameWhenFull, content,
                   reader, player, shown>>
-----------------------------------------------------------------------------
\* pthread_cond_wait may return without a signal
SpuriousWakeup ==
    \/ /\ reader = "waitWritten"
       /\ reader' = "top"
       /\ UNCHANGED client
    \/ /\ client = "waitRead"
       /\ client' = "accept"
       /\ UNCHANGED reader

Wakeup ==
    /\ SpuriousWakeup
    /\ UNCHANGED <<ring, writePosition, frameStarted, stopping, dropFrameWhenFull,
                   content, player, shown>>

ReadThread ==
    \/ ReadThreadCheck \/ ReadThreadTake \/ CompleteSinkFrame \/ ReturnFrame
    \/ WaitFrameWritten

\* steps of a call the player has made
ClientCall ==
    \/ AcceptFree \/ AcceptDrop \/ AcceptWait \/ StartFrame \/ CompleteFrame
    \/ Broadcast \/ Close \/ ResetFree \/ ResetDone
    \/ ResetFails \/ ResetTargetClosed

\* the player's choice of what to call
ClientChoice ==
    \/ AcceptStreamFrame
    \/ \E s \in Streams : ReceiveStreamFrame(s)
    \/ StampFrame \/ CancelFrame \/ StopToClose \/ StopToReset

Next == ReadThread \/ ClientCall \/ ClientChoice \/ Wakeup

\* Both threads run whenever they can; a call the player has begun goes on.
\* Which call the player makes next, if any, is its own choice.
Fairness == WF_vars(ReadThread) /\ WF_vars(ClientCall)

Spec == Init /\ [][Next]_vars
FairSpec == Spec /\ Fairness
-----------------------------------------------------------------------------
(* Properties.                                                               *)

ReaderPC == {"top", "take", "empty", "waitWritten", "show", "return", "exited"}
ClientPC == ClientOpen \union
    {"idle", "accept", "waitRead", "closeStop", "closeJoin", "closed",
     "resetStop", "resetJoin", "resetTarget", "nullTarget"}
ReaderHolds == reader \in {"show", "return"}
Freed == client \in {"closed", "resetTarget", "nullTarget"}

\* Every field has the type its C declaration and its uses give it, and the
\* ring never holds more frames than it has slots.
TypeOK ==
    /\ frames \in [Slots -> Buffers \union {NULL}]
    /\ swapFrame \in Buffers \union {NULL}
    /\ currentFrameRead \in Buffers \union {NULL}
    /\ firstFramePosition \in Slots
    /\ framesUsed \in 0 .. NumFrames
    /\ writePosition \in Slots
    /\ frameStarted \in BOOLEAN
    /\ stopping \in BOOLEAN
    /\ dropFrameWhenFull \in BOOLEAN
    /\ content \in [Buffers -> [frame : Nat, streams : SUBSET Streams]]
    /\ reader \in ReaderPC
    /\ client \in ClientPC
    /\ completed \in Nat
    /\ resets \in Nat
    /\ sent \in SUBSET Streams
    /\ shown \in Frame \union {NoFrame}

\* Every frame buffer has one owner: while the ring exists, each of the
\* NumFrames + 1 buffers is in exactly one slot, or the swap frame, or in the
\* read thread's hand, and the slots are all filled; so bms_close frees each
\* buffer exactly once.  Once freed, no buffer is reachable and the read
\* thread is gone.
FrameOwnership ==
    IF Freed
    THEN /\ \A i \in Slots : frames[i] = NULL
         /\ swapFrame = NULL /\ currentFrameRead = NULL
         /\ reader = "exited"
    ELSE /\ \A i \in Slots : frames[i] \in Buffers
         /\ \A i, j \in Slots : frames[i] = frames[j] => i = j
         /\ \A i \in Slots : frames[i] \notin {swapFrame, currentFrameRead}
         /\ ReaderHolds <=> swapFrame = NULL
         /\ ReaderHolds <=> currentFrameRead \in Buffers

\* The slot the player composes a frame in is free, and it is the one right
\* behind the queued frames, however far the read thread has got since the
\* player chose it; nobody else reads or writes the buffer in it.
WriterSlotExclusive ==
    client \in ClientOpen =>
        /\ framesUsed < NumFrames
        /\ writePosition = FreeSlot(firstFramePosition, framesUsed)
        /\ frames[writePosition] # currentFrameRead

\* The buffer behind frames[writePosition], which the player looks up anew and
\* without the lock for every stream, stays the same one from the reset of the
\* frame to its completion.
WriterBufferStable ==
    [][(client \in ClientOpen /\ client' \in ClientOpen)
         => frames'[writePosition'] = frames[writePosition]]_vars

NoQueue == client \in {"resetTarget", "closed", "nullTarget"}

Queue == INSTANCE FrameQueue WITH
    Capacity <- NumFrames,
    dropping <- dropFrameWhenFull,
    composing <- sent,
    queue <- IF NoQueue THEN << >>
             ELSE [i \in 1 .. framesUsed |->
                     content[frames[FreeSlot(firstFramePosition, i - 1)]]],
    showing <- IF reader = "show" THEN content[currentFrameRead] ELSE NoFrame

\* The ring with its swap frame is a bounded queue of whole frames: what the
\* target is shown is what the player completed, in that order, nothing twice,
\* nothing torn, and nothing lost unless the sink was made to drop frames.
ImplementsFrameQueue == Queue!Spec

ClientReturned == client \in {"idle", "writing", "closed", "nullTarget"}

\* The read thread waits for a frame although the ring is full, or waits
\* although it has been told to stop.
MissedWakeup == reader = "waitWritten" /\ (framesUsed = NumFrames \/ stopping)

\* Every call of the player returns, unless the read thread has missed the
\* wakeup that was meant for it; in a sink that drops frames accepting a frame
\* never depends on that.
CallReturnsUnlessWakeupMissed ==
    /\ ~ClientReturned ~> (ClientReturned \/ MissedWakeup)
    /\ (dropFrameWhenFull /\ client = "accept") ~> client = "writing"

\* complete_frame signals frameWrittenCond "so that reader wakes up": a player
\* waiting for the read thread to free a slot is therefore served in the end.
\* The read thread misses the signal when it has found the ring empty and has
\* released the lock but not yet begun to wait.
WaitingPlayerIsServed == (client = "waitRead") ~> (client # "waitRead")
==============================================================================
