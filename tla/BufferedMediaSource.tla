------------------------- MODULE BufferedMediaSource -------------------------
(* player/ingex_player/buffered_media_source.c: a ring of frames read ahead  *)
(* of the player.  The read thread reads frames from the target source into  *)
(* the slot given by their position; the player thread (the client) reads    *)
(* them out and seeks.                                                       *)
(*                                                                           *)
(* A critical section of stateMutex is one step, and so is each access       *)
(* outside it: to the target source, to the data in a slot, to the stopped   *)
(* flag.  A wait on clientFrameReadCond is reader = "waitClient", a timed    *)
(* wait on frameReadCond is client = "wait".                                 *)
EXTENDS Integers, Sequences

CONSTANTS
    Size,          \* frameBufferSize
    NumStreams,    \* streams of a frame
    SourceLength,  \* frames of the target source
    SeekPositions, \* positions the player seeks to
    Faults,        \* what may go wrong in the target source; see below
    MaxFaults,     \* bound: how often it does, timed-out waits included
    Nothing        \* no data

\* What a target source, read as mxf_source and libMXF's reader are, may do:
\*   "read"     a frame after the first cannot be read in full
\*   "first"    nor can the first one
\*   "late"     a read times out
\*   "seek"     a seek to the frame wanted fails
\* and, in the waits on the condition variables:
\*   "wait"     the client's timed wait expires
\*   "spurious" a wait returns unsignalled
ASSUME SizeAssumption == Size \in Nat /\ Size >= 1 /\ NumStreams \in Nat /\ NumStreams >= 1
ASSUME LengthAssumption == SourceLength \in Nat /\ SeekPositions \subseteq Nat
ASSUME FaultAssumption ==
    /\ Faults \subseteq {"read", "first", "late", "seek", "wait", "spurious"}
    /\ MaxFaults \in Nat

Slots == 0 .. Size - 1
Position == Nat \union {-1}
Skewed == -2     \* data read across the boundary of two frames
ASSUME NothingAssumption == Nothing \notin Int

VARIABLES
    \* the slots: BufferedFrame.isReady, .position, and the data in the streams
    isReady, position, data,
    \* the other fields of struct BufferedMediaSource
    clientWaiting, clientPosition, waiting, lastPosition, eofPosition, stopped,
    \* the read thread: program counter and local variables of read_thread
    \* (its lastPosition equals the field, which only it writes)
    reader, rPosition, haveReadFrame, readEOF, haveSeeked,
    \* the client: program counter, call in progress, its local variables, and
    \* the streams of the frame it has sent to its listener
    client, call, target, origClientPosition, waitCount, sent,
    \* the target source: the frame it takes itself to be at, and whether a
    \* partial read has left the file beyond the start of that frame
    at, skew, faults,
    \* for the properties: the result of the last call, clientPosition when it
    \* was called, whether a fault occurred during it, and whether a read found
    \* its frame in a slot that the read thread had already chosen to refill
    result, before, faultInCall, overtaken

slots == <<isReady, position, data>>
shared == <<clientWaiting, clientPosition, waiting, lastPosition, eofPosition, stopped>>
readerLocals == <<rPosition, haveReadFrame, readEOF, haveSeeked>>
clientLocals == <<call, target, origClientPosition, waitCount, sent>>
source == <<at, skew, faults>>
observed == <<result, before, faultInCall, overtaken>>
vars == <<slots, shared, reader, readerLocals, client, clientLocals, source, observed>>

SlotOf(p) == p % Size
IsEOF(p) == eofPosition >= 0 /\ p >= eofPosition
FrameReady(p) == isReady[SlotOf(p)] /\ position[SlotOf(p)] = p

\* The read thread has chosen a frame and has not yet published the outcome.
ReaderBusy == reader \in {"chosen", "seek", "init", "read", "recover", "publish"}
-----------------------------------------------------------------------------
\* bmsrc_create
Init ==
    /\ isReady = [i \in Slots |-> FALSE]
    /\ position = [i \in Slots |-> 0]
    /\ data = [i \in Slots |-> Nothing]
    /\ clientWaiting = FALSE /\ clientPosition = 0
    /\ waiting = FALSE /\ lastPosition = -1 /\ eofPosition = -1
    /\ stopped = FALSE
    /\ reader = "top" /\ rPosition = 0
    /\ haveReadFrame = FALSE /\ readEOF = FALSE /\ haveSeeked = FALSE
    /\ client = "idle" /\ call = "none" /\ target = 0
    /\ origClientPosition = 0 /\ waitCount = 0 /\ sent = <<>>
    /\ at = 0 /\ skew = FALSE /\ faults = 0
    /\ result = "none" /\ before = 0 /\ faultInCall = FALSE /\ overtaken = FALSE
-----------------------------------------------------------------------------
(* The target source, as the read thread uses it.                            *)

CanFail(f) == f \in Faults /\ faults < MaxFaults

\* msc_seek: outside the source it fails; to the frame the source takes itself
\* to be at it does nothing, not even undo a partial read; elsewhere it moves.
SeekOutcome(p, a, s) ==
    IF p \notin 0 .. SourceLength THEN [ok |-> FALSE, at |-> a, skew |-> s]
    ELSE IF p = a THEN [ok |-> TRUE, at |-> a, skew |-> s]
    ELSE [ok |-> TRUE, at |-> p, skew |-> FALSE]

Fault ==
    /\ faults' = faults + 1
    /\ faultInCall' = TRUE

NoFault == UNCHANGED <<faults, faultInCall>>
-----------------------------------------------------------------------------
(* The read thread.                                                          *)

\* the tests of stopped, without the lock, before and after a frame is chosen
ReadThreadCheck ==
    /\ reader \in {"top", "chosen"}
    /\ reader' = IF stopped THEN "exited"
                 ELSE IF reader = "top" THEN "choose"
                 ELSE IF IsEOF(rPosition) THEN "publish"
                 ELSE IF rPosition # lastPosition + 1 THEN "seek"
                 ELSE "init"
    /\ UNCHANGED <<slots, shared, readerLocals, client, clientLocals, source, observed>>

\* pthread_cond_signal(frameReadCond) if clientWaiting
SignalClient ==
    client' = IF clientWaiting /\ client = "wait" THEN "loop" ELSE client

\* pthread_cond_signal or _broadcast(clientFrameReadCond)
SignalReader == reader' = IF reader = "waitClient" THEN "top" ELSE reader

\* Mutant of RingFull: waits only when the client's own frame comes next.
RingFullNever == lastPosition + 1 = clientPosition

\* The ring is full: the next frame would go where the client's frame is.
RingFull == SlotOf(lastPosition + 1) = SlotOf(clientPosition)

\* the wait loop's critical section, when the client's frame is in the ring
\* and the ring is full
WaitForClient ==
    /\ reader = "choose"
    /\ FrameReady(clientPosition)
    /\ RingFull
    /\ waiting' = TRUE
    /\ SignalClient
    /\ reader' = "waitClient"
    /\ UNCHANGED <<slots, clientWaiting, clientPosition, lastPosition, eofPosition,
                   stopped, readerLocals, clientLocals, source, observed>>

\* when there is a frame to read: the client's, or the one after the last read
ChooseFrame ==
    /\ reader = "choose"
    /\ ~(FrameReady(clientPosition) /\ RingFull)
    /\ rPosition' = IF FrameReady(clientPosition) THEN lastPosition + 1 ELSE clientPosition
    /\ waiting' = FALSE
    /\ haveReadFrame' = FALSE /\ readEOF' = FALSE /\ haveSeeked' = FALSE
    /\ reader' = "chosen"
    /\ UNCHANGED <<slots, clientWaiting, clientPosition, lastPosition, eofPosition,
                   stopped, client, clientLocals, source, observed>>

\* msc_seek to the frame
SeekTarget ==
    /\ reader = "seek"
    /\ LET s == SeekOutcome(rPosition, at, skew) IN
       \/ /\ at' = s.at /\ skew' = s.skew
          /\ haveSeeked' = s.ok
          /\ reader' = IF s.ok THEN "init" ELSE "recover"
          /\ NoFault
       \/ /\ CanFail("seek")
          /\ Fault
          /\ reader' = "recover"
          /\ UNCHANGED <<at, skew, haveSeeked>>
    /\ UNCHANGED <<slots, shared, rPosition, haveReadFrame, readEOF, client,
                   clientLocals, result, before, overtaken>>

\* Mutant of InitialiseSlot: leaves the slot ready.
InitialiseSlotReady ==
    /\ reader = "init"
    /\ data' = [data EXCEPT ![SlotOf(rPosition)] = Nothing]
    /\ reader' = "read"
    /\ UNCHANGED <<isReady, position, shared, readerLocals, client, clientLocals,
                   source, observed>>

\* the critical section that takes the slot out of the ring
InitialiseSlot ==
    /\ reader = "init"
    /\ isReady' = [isReady EXCEPT ![SlotOf(rPosition)] = FALSE]
    /\ position' = [position EXCEPT ![SlotOf(rPosition)] = -1]
    /\ data' = [data EXCEPT ![SlotOf(rPosition)] = Nothing]
    /\ reader' = "read"
    /\ UNCHANGED <<shared, readerLocals, client, clientLocals, source, observed>>

\* msc_read_frame succeeds: its listener fills the slot, without the lock
ReadFrameOK ==
    /\ reader = "read"
    /\ at < SourceLength
    /\ data' = [data EXCEPT ![SlotOf(rPosition)] = IF skew THEN Skewed ELSE at]
    /\ at' = at + 1
    /\ haveReadFrame' = TRUE
    /\ reader' = "publish"
    /\ UNCHANGED <<isReady, position, shared, rPosition, readEOF, haveSeeked,
                   client, clientLocals, skew, faults, observed>>

\* it fails at the end of the source, or part-way through a frame, or it times
\* out without having moved
ReadFrameFails ==
    /\ reader = "read"
    /\ \/ /\ at >= SourceLength
          /\ readEOF' = TRUE
          /\ NoFault
          /\ UNCHANGED <<at, skew>>
       \/ /\ at < SourceLength
          /\ CanFail(IF at = 0 THEN "first" ELSE "read")
          /\ Fault
          /\ skew' = TRUE
          /\ UNCHANGED <<readEOF, at>>
       \/ /\ CanFail("late")
          /\ Fault
          /\ UNCHANGED <<readEOF, at, skew>>
    /\ reader' = "recover"
    /\ UNCHANGED <<slots, shared, rPosition, haveReadFrame, haveSeeked, client,
                   clientLocals, result, before, overtaken>>

\* Mutant of RecoverPosition: only seeks to the next frame, where the source
\* takes itself to be already.
RecoverPositionOneSeek ==
    /\ reader = "recover"
    /\ LET again == SeekOutcome(lastPosition + 1, at, skew)
       IN  at' = again.at /\ skew' = again.skew
    /\ reader' = "publish"
    /\ UNCHANGED <<slots, shared, readerLocals, client, clientLocals, faults, observed>>

\* back to the frame after the last one read: after a seek by a seek there, else
\* by way of the last frame, because the source ignores a seek to where it
\* takes itself to be
RecoverPosition ==
    /\ reader = "recover"
    /\ LET back == IF haveSeeked THEN [ok |-> TRUE, at |-> at, skew |-> skew]
                   ELSE SeekOutcome(lastPosition, at, skew)
           again == IF back.ok THEN SeekOutcome(lastPosition + 1, back.at, back.skew)
                    ELSE back
       IN  at' = again.at /\ skew' = again.skew
    /\ reader' = "publish"
    /\ UNCHANGED <<slots, shared, readerLocals, client, clientLocals, faults, observed>>

\* Mutant of Publish: signals the client only when a frame was read.
PublishIfRead ==
    /\ reader = "publish"
    /\ IF haveReadFrame
       THEN /\ isReady' = [isReady EXCEPT ![SlotOf(rPosition)] = TRUE]
            /\ position' = [position EXCEPT ![SlotOf(rPosition)] = rPosition]
            /\ lastPosition' = rPosition
            /\ SignalClient
       ELSE UNCHANGED <<isReady, position, lastPosition, client>>
    /\ eofPosition' = IF readEOF THEN rPosition ELSE eofPosition
    /\ reader' = "top"
    /\ UNCHANGED <<data, clientWaiting, clientPosition, waiting, stopped, readerLocals,
                   clientLocals, source, observed>>

\* Mutant of Publish: takes every failed read for the end of the source.
PublishAnyFailureAsEOF ==
    /\ reader = "publish"
    /\ IF haveReadFrame
       THEN /\ isReady' = [isReady EXCEPT ![SlotOf(rPosition)] = TRUE]
            /\ position' = [position EXCEPT ![SlotOf(rPosition)] = rPosition]
            /\ lastPosition' = rPosition
       ELSE UNCHANGED <<isReady, position, lastPosition>>
    /\ eofPosition' = IF haveReadFrame THEN eofPosition ELSE rPosition
    /\ SignalClient
    /\ reader' = "top"
    /\ UNCHANGED <<data, clientWaiting, clientPosition, waiting, stopped, readerLocals,
                   clientLocals, source, observed>>

\* the last critical section: the frame is ready, or it is the end of the
\* source, or it could not be read; the client is told in any case
Publish ==
    /\ reader = "publish"
    /\ IF haveReadFrame
       THEN /\ isReady' = [isReady EXCEPT ![SlotOf(rPosition)] = TRUE]
            /\ position' = [position EXCEPT ![SlotOf(rPosition)] = rPosition]
            /\ lastPosition' = rPosition
       ELSE UNCHANGED <<isReady, position, lastPosition>>
    /\ eofPosition' = IF readEOF THEN rPosition ELSE eofPosition
    /\ SignalClient
    /\ reader' = "top"
    /\ UNCHANGED <<data, clientWaiting, clientPosition, waiting, stopped, readerLocals,
                   clientLocals, source, observed>>
-----------------------------------------------------------------------------
(* The client.                                                               *)

Begin(c) ==
    /\ client = "idle"
    /\ client' = "loop"
    /\ call' = c
    /\ waitCount' = 0
    /\ origClientPosition' = 0
    /\ before' = clientPosition
    /\ faultInCall' = FALSE
    /\ UNCHANGED <<slots, shared, reader, readerLocals, source, sent, result, overtaken>>

\* bmsrc_read_frame, bmsrc_seek
CallReadFrame == Begin("read") /\ UNCHANGED target

CallSeek(p) == Begin("seek") /\ target' = p

Answer(r) ==
    /\ result' = r
    /\ client' = "idle"

\* The wait loops of the two differ only in what a seek does every time round.
EnterLoop ==
    /\ origClientPosition' = IF call = "seek" /\ ~clientWaiting THEN clientPosition
                             ELSE origClientPosition
    /\ clientPosition' = IF call = "seek" THEN target ELSE clientPosition

\* Mutants of GiveUp: one wakeup less, one more.
GiveUpEarly == waitCount >= 1
GiveUpLate == waitCount >= 3

\* "the first wait wake up could have been for another frame"
GiveUp == waitCount >= 2

\* One time round the wait loop, up to its wait: the critical section takes the
\* first of four ways out.
Loop(way) ==
    /\ client = "loop"
    /\ EnterLoop
    /\ way = CASE IsEOF(clientPosition')      -> "eof"
              []  ~IsEOF(clientPosition') /\ FrameReady(clientPosition') -> "ready"
              []  OTHER -> IF GiveUp THEN "giveUp" ELSE "wait"
    /\ clientWaiting' = (way = "wait")
    /\ waitCount' = IF way = "wait" THEN waitCount + 1 ELSE waitCount
    /\ UNCHANGED <<slots, waiting, lastPosition, eofPosition, stopped, readerLocals,
                   call, target, sent, source, before, faultInCall>>

LoopEOF ==
    /\ Loop("eof")
    /\ IF call = "read" THEN Answer("failed at eof")
       ELSE client' = "restoreEOF" /\ UNCHANGED result
    /\ UNCHANGED <<reader, overtaken>>

LoopReady ==
    /\ Loop("ready")
    /\ IF call = "read" THEN client' = "send" /\ UNCHANGED result ELSE Answer("ok")
    /\ overtaken' = (/\ call = "read"
                     /\ reader \in {"chosen", "seek", "init"}
                     /\ SlotOf(rPosition) = SlotOf(clientPosition'))
    /\ UNCHANGED reader

\* two wakeups and still no frame
LoopGiveUp ==
    /\ Loop("giveUp")
    /\ IF call = "read" THEN Answer("failed")
       ELSE client' = "restore" /\ UNCHANGED result
    /\ UNCHANGED <<reader, overtaken>>

LoopWait ==
    /\ Loop("wait")
    /\ IF waiting THEN SignalReader ELSE UNCHANGED reader
    /\ client' = "wait"
    /\ UNCHANGED <<result, overtaken>>

\* pthread_cond_timedwait expires; clientWaiting stays set
TimedOut ==
    /\ client = "wait"
    /\ CanFail("wait")
    /\ Fault
    /\ Answer("timed out")
    /\ UNCHANGED <<slots, shared, reader, readerLocals, clientLocals, at, skew, before,
                   overtaken>>

\* either thread's wait returns unsignalled
SpuriousWakeup ==
    /\ CanFail("spurious")
    /\ Fault
    /\ \/ client = "wait" /\ client' = "loop" /\ UNCHANGED reader
       \/ reader = "waitClient" /\ reader' = "top" /\ UNCHANGED client
    /\ UNCHANGED <<slots, shared, readerLocals, clientLocals, at, skew, result, before,
                   overtaken>>

\* the end of bmsrc_seek when the position is at or past the end, and when the
\* frame could not be read
Restore ==
    /\ \/ /\ client = "restoreEOF"
          /\ clientPosition' = IF clientPosition > eofPosition THEN origClientPosition
                               ELSE clientPosition
          /\ Answer("failed at eof")
       \/ /\ client = "restore"
          /\ clientPosition' = origClientPosition
          /\ Answer("failed")
    /\ UNCHANGED <<slots, clientWaiting, waiting, lastPosition, eofPosition, stopped,
                   reader, readerLocals, clientLocals, source, before, faultInCall,
                   overtaken>>

\* the frame is sent to the listener stream by stream, without the lock
SendStream ==
    /\ client = "send"
    /\ Len(sent) < NumStreams
    /\ sent' = Append(sent, data[SlotOf(clientPosition)])
    /\ UNCHANGED <<slots, shared, reader, readerLocals, client, call, target,
                   origClientPosition, waitCount, source, observed>>

\* the listener refuses a stream
SendFails ==
    /\ client = "send"
    /\ Len(sent) < NumStreams
    /\ sent' = <<>>
    /\ overtaken' = FALSE
    /\ Answer("refused")
    /\ UNCHANGED <<slots, shared, reader, readerLocals, call, target,
                   origClientPosition, waitCount, source, before, faultInCall>>

\* the closing critical section of bmsrc_read_frame
AdvanceClient ==
    /\ client = "send"
    /\ Len(sent) = NumStreams
    /\ sent' = <<>>
    /\ overtaken' = FALSE
    /\ clientPosition' = clientPosition + 1
    /\ SignalReader
    /\ Answer("ok")
    /\ UNCHANGED <<slots, clientWaiting, waiting, lastPosition, eofPosition, stopped,
                   readerLocals, call, target, origClientPosition, waitCount, source,
                   before, faultInCall>>
-----------------------------------------------------------------------------
(* bmsrc_close.                                                              *)

\* stopped = 1, without the lock
Stop ==
    /\ client = "idle"
    /\ stopped' = TRUE
    /\ client' = "stopping"
    /\ UNCHANGED <<slots, clientWaiting, clientPosition, waiting, lastPosition,
                   eofPosition, reader, readerLocals, clientLocals, source, observed>>

Broadcast ==
    /\ client = "stopping"
    /\ SignalReader
    /\ client' = "join"
    /\ UNCHANGED <<slots, shared, readerLocals, clientLocals, source, observed>>

\* join_thread, after which everything is freed
Join ==
    /\ client = "join"
    /\ reader = "exited"
    /\ client' = "closed"
    /\ UNCHANGED <<slots, shared, reader, readerLocals, clientLocals, source, observed>>
-----------------------------------------------------------------------------
ReadThread ==
    \/ ReadThreadCheck \/ WaitForClient \/ ChooseFrame \/ SeekTarget
    \/ InitialiseSlot \/ ReadFrameOK \/ ReadFrameFails \/ RecoverPosition \/ Publish

ClientCall ==
    \/ LoopEOF \/ LoopReady \/ LoopGiveUp \/ LoopWait \/ Restore
    \/ SendStream \/ SendFails \/ AdvanceClient \/ Broadcast \/ Join

ClientChoice ==
    \/ CallReadFrame
    \/ \E p \in SeekPositions : CallSeek(p)
    \/ Stop

Next == ReadThread \/ ClientCall \/ ClientChoice \/ TimedOut \/ SpuriousWakeup

\* Both threads run whenever they can and a call begun goes on; no timed wait
\* is taken to expire, so that nothing owes its progress to the timeout.
Fairness == WF_vars(ReadThread) /\ WF_vars(ClientCall)

Spec == Init /\ [][Next]_vars
FairSpec == Spec /\ Fairness
-----------------------------------------------------------------------------
Data == {Nothing, Skewed} \union Nat

\* The variables stay within what the fields of the struct and the locals hold.
TypeOK ==
    /\ isReady \in [Slots -> BOOLEAN]
    /\ position \in [Slots -> Position]
    /\ data \in [Slots -> Data]
    /\ clientWaiting \in BOOLEAN /\ waiting \in BOOLEAN /\ stopped \in BOOLEAN
    /\ clientPosition \in Nat /\ lastPosition \in Position /\ eofPosition \in Position
    /\ reader \in {"top", "choose", "waitClient", "chosen", "seek", "init", "read",
                  "recover", "publish", "exited"}
    /\ rPosition \in Nat
    /\ haveReadFrame \in BOOLEAN /\ readEOF \in BOOLEAN /\ haveSeeked \in BOOLEAN
    /\ client \in {"idle", "loop", "wait", "restore", "restoreEOF", "send",
                  "stopping", "join", "closed"}
    /\ call \in {"none", "read", "seek"} /\ target \in Nat
    /\ origClientPosition \in Nat /\ waitCount \in 0 .. 2
    /\ sent \in Seq(Data) /\ Len(sent) <= NumStreams
    /\ at \in Nat /\ skew \in BOOLEAN /\ faults \in 0 .. MaxFaults
    /\ result \in {"none", "ok", "failed", "failed at eof", "timed out", "refused"}
    /\ before \in Nat /\ faultInCall \in BOOLEAN /\ overtaken \in BOOLEAN

\* Whenever the read thread is between two frames, the target source stands at
\* the start of the frame after the last one read, whatever failed before:
\* reading on without a seek depends on it.
TargetInStep == ~ReaderBusy => at = lastPosition + 1 /\ ~skew

\* A slot marked ready belongs to the frame it is labelled with and holds that
\* frame's data, however reads, seeks and failures have followed each other.
RingHoldsFrames ==
    \A i \in Slots : isReady[i] => SlotOf(position[i]) = i /\ data[i] = position[i]

\* The end of the source is never recorded anywhere but where it is: a read
\* that failed or timed out does not end the clip.
EofExact == eofPosition \in {-1, SourceLength}

\* Unless the read thread had chosen its slot before the read found the frame
\* there, a frame goes to the listener whole: the read thread does not take the
\* slot, and no stream of the frame is missing or of another frame.
DeliveredRight ==
    ~overtaken => \A k \in 1 .. Len(sent) : sent[k] = clientPosition

Wanted == IF call = "read" THEN before ELSE target

\* A call for a frame the source has does not give up after its two wakeups
\* unless something failed during the call.
FailsOnlyOnFault ==
    (client = "idle" /\ result = "failed") => faultInCall \/ Wanted > SourceLength

\* Every call returns without its timeout expiring: the signals suffice.  The
\* exception is a close that hangs because stopped was set and broadcast
\* between the read thread's test and its wait.
CloseHangs == stopped /\ reader = "waitClient"
CallReturnsUnlessWakeupMissed ==
    (client # "idle") ~> (client \in {"idle", "closed"} \/ CloseHangs)

=============================================================================
