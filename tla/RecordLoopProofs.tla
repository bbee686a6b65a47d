-------------------------- MODULE RecordLoopProofs --------------------------
(* Theorems about RecordLoop for any ring, number of encoder threads and     *)
(* bounds, with their proofs.                                                *)
EXTENDS RecordLoop, CaptureChannelProofs

(* The inductive invariant: that of the channel, and the following.          *)

\* The signal being good, no frame is missed: the tick of a frame is one more
\* than its number, and the thread waits for the next one at most.
GoodSignal ==
    /\ capture \in {"get", "transfer", "number", "publish"} /\ recover = FALSE
    /\ now <= taken + 1
    /\ capture = "get" => taken = lastframe + 1
    /\ capture # "get" => taken = frame /\ frame = lastframe + 2

\* A slot that bears a number other than 0 holds the picture of that frame: the
\* number is cleared before the picture is changed, and comes back after it.
RingTruth ==
    /\ \A s \in Slots :
          /\ ring[s].picture # NoVideo
          /\ ring[s].number # 0 => ring[s].picture = PictureOf(ring[s].number)
    /\ capture \in {"transfer", "number"} => ring[NextSlot].number = 0
    /\ capture = "number" => ring[NextSlot].picture = frame

ChannelInv == IInv /\ GoodSignal /\ RingTruth

LoopTypes ==
    /\ rec \in {"idle", "loop", "queue", "save", "finished?", "done"}
    /\ start \in Nat /\ lastcoded \in Nat \union {-1} /\ last_saved \in Nat \union {-1}
    /\ toCode \in 0 .. RingLen - 3
    /\ framesWritten \in Nat /\ framesDropped \in Nat /\ target \in Nat
    /\ audio \in 1 .. MaxTick \union {Blank}
    /\ overrun \in BOOLEAN

FrameRecords == [index : Nat, coded : BOOLEAN, error : BOOLEAN,
                 picture : 1 .. MaxTick \union {Blank}]
BufferTypes ==
    /\ DOMAIN frames \subseteq Nat
    /\ \A n \in DOMAIN frames : frames[n] \in FrameRecords

ThreadRecords == [at : {"getq", "encode", "check", "error"}, frame : Nat \union {-1},
                  picture : 1 .. MaxTick \union {Blank}]
EncoderTypes ==
    /\ queue \in Seq(Nat)
    /\ thread \in [Threads -> ThreadRecords]

\* Before the recording nothing is counted; a turn of the loop queues only frames
\* that are published, and the buffer holds no frame that is not queued yet.
Turns ==
    /\ rec = "idle" => /\ lastcoded = -1 /\ last_saved = -1
                       /\ framesWritten = 0 /\ framesDropped = 0
    /\ rec = "queue" => toCode > 0
    /\ rec \in {"queue", "save", "finished?"} => lastcoded + toCode <= lastframe
    /\ last_saved <= lastcoded
    /\ \A n \in DOMAIN frames : n <= lastcoded /\ n <= lastframe

\* Every frame is coded once: one that is queued or in the hands of a thread is
\* in the buffer and not coded yet, and in one place only.
Coding == {"encode", "check"}
InHands(t) == thread[t].at \in Coding
CodedOnce ==
    /\ \A i \in 1 .. Len(queue) : queue[i] \in DOMAIN frames /\ frames[queue[i]].coded = FALSE
    /\ \A i, j \in 1 .. Len(queue) : i < j => queue[i] # queue[j]
    /\ \A t \in Threads : InHands(t) =>
          /\ thread[t].frame \in DOMAIN frames /\ frames[thread[t].frame].coded = FALSE
          /\ \A i \in 1 .. Len(queue) : queue[i] # thread[t].frame
    /\ \A t, u \in Threads : InHands(t) /\ InHands(u) /\ t # u => thread[t].frame # thread[u].frame

\* A thread that finds the number still there has read the frame's picture.
WillBeSound ==
    \A t \in Threads :
        LET n == thread[t].frame
        IN  thread[t].at = "check" /\ n # 0 /\ frames[n].index = n /\ ring[SlotOf(n)].number = n
              => thread[t].picture = PictureOf(n)

RecInv ==
    /\ ChannelInv
    /\ LoopTypes /\ BufferTypes /\ EncoderTypes
    /\ Turns /\ CodedOnce /\ WillBeSound
    /\ DurationExact /\ SavesEveryFrameUnlessOverrun /\ CheckIsSound
-----------------------------------------------------------------------------
(* The channel under a good signal. *)

\* Numbers come into the ring in order: a slot keeps its number, is cleared, or
\* takes a number that no frame had before.
NumbersComeOnce ==
    /\ lastframe' >= lastframe
    /\ \A s \in Slots : ring'[s].number \in {ring[s].number, 0, lastframe + 1}

\* What every step of the channel starts from.
LEMMA ChannelFacts ==
    ASSUME ChannelInv
    PROVE  /\ TickTypes /\ RingTypes /\ Phases /\ NextSlot \in Slots
           /\ ring[NextSlot] \in SlotRecords /\ lastframe \in Int /\ taken \in Int /\ now \in Int
           /\ frame \in Int
  <1>1. TickTypes /\ RingTypes /\ TypeOK /\ Phases
    BY TypeParts DEF ChannelInv, IInv
  <1>2. NextSlot \in Slots
    BY <1>1, WindowNumbers
  <1> QED  BY <1>1, <1>2 DEF TickTypes, RingTypes

\* Time passes only when the thread waits for it.
LEMMA TickGood ==
    ASSUME ChannelInv, Tick, WaitsForFrame
    PROVE  GoodSignal' /\ RingTruth' /\ NumbersComeOnce
  <1>1. /\ TickTypes /\ RingTypes /\ Phases /\ NextSlot \in Slots
        /\ ring[NextSlot] \in SlotRecords /\ lastframe \in Int /\ taken \in Int /\ now \in Int
        /\ frame \in Int
    BY ChannelFacts
  <1>2. GoodSignal /\ RingTruth
    BY DEF ChannelInv
  <1>3. /\ now' = now + 1 /\ capture = "get" /\ taken = now
        /\ UNCHANGED <<taken, frame, lastframe, ring, capture, recover>>
    BY DEF Tick, WaitsForFrame
  <1>4. GoodSignal'
    BY <1>1, <1>2, <1>3 DEF GoodSignal
  <1>5. RingTruth' /\ NumbersComeOnce
    BY <1>1, <1>2, <1>3 DEF RingTruth, NumbersComeOnce, NextSlot
  <1> QED  BY <1>4, <1>5

\* The number of the next slot is cleared, and the frame is the next one.
LEMMA GetBufferGood ==
    ASSUME ChannelInv, GetBuffer
    PROVE  GoodSignal' /\ RingTruth' /\ NumbersComeOnce
  <1>1. /\ TickTypes /\ RingTypes /\ Phases /\ NextSlot \in Slots
        /\ ring[NextSlot] \in SlotRecords /\ lastframe \in Int /\ taken \in Int /\ now \in Int
        /\ frame \in Int
    BY ChannelFacts
  <1>2. GoodSignal /\ RingTruth
    BY DEF ChannelInv
  <1>3. /\ capture = "get" /\ capture' = "transfer" /\ UNCHANGED <<now, lastframe, recover>>
        /\ frame' = taken + 1 /\ taken' = frame'
    <2>1. /\ capture = "get" /\ capture' = "transfer" /\ UNCHANGED <<now, lastframe, recover>>
          /\ frame' \in FifoFrames /\ taken' = frame'
      BY DEF GetBuffer
    <2>2. recover = FALSE
      BY <1>2 DEF GoodSignal
    <2>3. frame' \in taken + 1 .. now
      BY <2>1, <2>2 DEF FifoFrames
    <2>4. now <= taken + 1
      BY <1>2 DEF GoodSignal
    <2> QED  BY <1>1, <2>1, <2>3, <2>4
  <1>4. /\ \A u \in Slots \ {NextSlot} : ring'[u] = ring[u]
        /\ ring'[NextSlot].number = 0
        /\ ring'[NextSlot].picture = ring[NextSlot].picture
    <2>1. ring' = [ring EXCEPT ![NextSlot] = [ring[NextSlot] EXCEPT !.number = 0]]
      BY DEF GetBuffer, NextSlot
    <2>2. ring \in [Slots -> SlotRecords]
      BY <1>1 DEF RingTypes
    <2>3. /\ [ring[NextSlot] EXCEPT !.number = 0].number = 0
          /\ [ring[NextSlot] EXCEPT !.number = 0].picture = ring[NextSlot].picture
      BY <1>1 DEF SlotRecords
    <2> QED  BY <1>1, <2>1, <2>2, <2>3
  <1>5. GoodSignal'
    BY <1>1, <1>2, <1>3 DEF GoodSignal
  <1>6. RingTruth'
    BY <1>1, <1>2, <1>3, <1>4, PictureAssumption DEF RingTruth, GoodSignal, NextSlot, PictureOf
  <1>7. NumbersComeOnce
    BY <1>1, <1>2, <1>3, <1>4 DEF NumbersComeOnce
  <1> QED  BY <1>5, <1>6, <1>7

\* The picture goes to the slot of the next frame.
LEMMA TransferGood ==
    ASSUME ChannelInv, Transfer
    PROVE  GoodSignal' /\ RingTruth' /\ NumbersComeOnce
  <1>1. /\ TickTypes /\ RingTypes /\ Phases /\ NextSlot \in Slots
        /\ ring[NextSlot] \in SlotRecords /\ lastframe \in Int /\ taken \in Int /\ now \in Int
        /\ frame \in Int
    BY ChannelFacts
  <1>2. GoodSignal /\ RingTruth
    BY DEF ChannelInv
  <1>3. /\ capture = "transfer" /\ capture' = "number"
        /\ now' = now /\ taken' = taken /\ frame' = frame /\ lastframe' = lastframe
        /\ recover' = recover
    <2>1. recover = FALSE
      BY <1>2 DEF GoodSignal
    <2> QED  BY <2>1 DEF Transfer, AfterTransfer, taking
  <1>4. /\ \A u \in Slots \ {NextSlot} : ring'[u] = ring[u]
        /\ ring'[NextSlot].number = ring[NextSlot].number
        /\ ring'[NextSlot].picture = frame
    <2>1. ring' = [ring EXCEPT ![NextSlot] = [ring[NextSlot] EXCEPT !.picture = frame]]
      BY DEF Transfer, NextSlot
    <2>2. ring \in [Slots -> SlotRecords]
      BY <1>1 DEF RingTypes
    <2>3. /\ [ring[NextSlot] EXCEPT !.picture = frame].number = ring[NextSlot].number
          /\ [ring[NextSlot] EXCEPT !.picture = frame].picture = frame
      BY <1>1 DEF SlotRecords
    <2> QED  BY <1>1, <2>1, <2>2, <2>3
  <1>5. GoodSignal'
    BY <1>1, <1>2, <1>3 DEF GoodSignal
  <1>6. RingTruth'
    BY <1>1, <1>2, <1>3, <1>4, PictureAssumption DEF RingTruth, GoodSignal, NextSlot, PictureOf
  <1>7. NumbersComeOnce
    BY <1>1, <1>2, <1>3, <1>4 DEF NumbersComeOnce
  <1> QED  BY <1>5, <1>6, <1>7

\* The frame data and the frame number are written.
LEMMA NumberGood ==
    ASSUME ChannelInv, Number
    PROVE  GoodSignal' /\ RingTruth' /\ NumbersComeOnce
  <1>1. /\ TickTypes /\ RingTypes /\ Phases /\ NextSlot \in Slots
        /\ ring[NextSlot] \in SlotRecords /\ lastframe \in Int /\ taken \in Int /\ now \in Int
        /\ frame \in Int
    BY ChannelFacts
  <1>2. GoodSignal /\ RingTruth
    BY DEF ChannelInv
  <1>3. /\ capture = "number" /\ capture' = "publish"
        /\ now' = now /\ taken' = taken /\ frame' = frame /\ lastframe' = lastframe
        /\ recover' = recover
    BY DEF Number, taking
  <1>4. /\ \A u \in Slots \ {NextSlot} : ring'[u] = ring[u]
        /\ ring'[NextSlot].number = lastframe + 1
        /\ ring'[NextSlot].picture = ring[NextSlot].picture
    <2>1. ring' = [ring EXCEPT ![NextSlot] = [ring[NextSlot] EXCEPT !.tc = frame, !.signal_ok = TRUE, !.number = lastframe + 1]]
      BY DEF Number, NextSlot
    <2>2. ring \in [Slots -> SlotRecords]
      BY <1>1 DEF RingTypes
    <2>3. /\ [ring[NextSlot] EXCEPT !.tc = frame, !.signal_ok = TRUE, !.number = lastframe + 1].number = lastframe + 1
          /\ [ring[NextSlot] EXCEPT !.tc = frame, !.signal_ok = TRUE, !.number = lastframe + 1].picture = ring[NextSlot].picture
      BY <1>1 DEF SlotRecords
    <2> QED  BY <1>1, <2>1, <2>2, <2>3
  <1>5. GoodSignal'
    BY <1>1, <1>2, <1>3 DEF GoodSignal
  <1>6. RingTruth'
    BY <1>1, <1>2, <1>3, <1>4, PictureAssumption DEF RingTruth, GoodSignal, NextSlot, PictureOf
  <1>7. NumbersComeOnce
    BY <1>1, <1>2, <1>3, <1>4 DEF NumbersComeOnce
  <1> QED  BY <1>5, <1>6, <1>7

\* The frame is published.
LEMMA PublishGood ==
    ASSUME ChannelInv, Publish
    PROVE  GoodSignal' /\ RingTruth' /\ NumbersComeOnce
  <1>1. /\ TickTypes /\ RingTypes /\ Phases /\ NextSlot \in Slots
        /\ ring[NextSlot] \in SlotRecords /\ lastframe \in Int /\ taken \in Int /\ now \in Int
        /\ frame \in Int
    BY ChannelFacts
  <1>2. GoodSignal /\ RingTruth
    BY DEF ChannelInv
  <1>3. /\ capture = "publish" /\ capture' = "get" /\ recover' = FALSE
        /\ lastframe' = lastframe + 1
        /\ now' = now /\ taken' = taken /\ frame' = frame /\ ring' = ring
    BY DEF Publish, taking
  <1>4. GoodSignal'
    BY <1>1, <1>2, <1>3 DEF GoodSignal
  <1>5. RingTruth' /\ NumbersComeOnce
    BY <1>1, <1>2, <1>3 DEF RingTruth, NumbersComeOnce
  <1> QED  BY <1>4, <1>5

\* The other steps of the channel are not taken.
LEMMA CaptureGood ==
    ASSUME ChannelInv, Capture
    PROVE  ChannelInv' /\ NumbersComeOnce
  <1>1. IInv /\ GoodSignal
    BY DEF ChannelInv
  <1>2. IInv'
    BY <1>1, NextKeeps DEF Capture, Next
  <1>3. losses = 0
    <2>1. losses \in 0 .. MaxLosses
      BY <1>1 DEF IInv, TypeOK
    <2> QED  BY <2>1, GoodSignalAssumption
  <1>4. CASE Tick /\ WaitsForFrame
    BY <1>2, <1>4, TickGood DEF ChannelInv
  <1>5. CASE GetBuffer
    BY <1>2, <1>5, GetBufferGood DEF ChannelInv
  <1>6. CASE Transfer
    BY <1>2, <1>6, TransferGood DEF ChannelInv
  <1>7. CASE Number
    BY <1>2, <1>7, NumberGood DEF ChannelInv
  <1>8. CASE Publish
    BY <1>2, <1>8, PublishGood DEF ChannelInv
  <1>9. CASE NoSignal \/ TransferFails
    BY <1>3, <1>9, GoodSignalAssumption DEF NoSignal, TransferFails
  <1>10. CASE \/ Recover \/ DummyMark \/ DummyFill \/ DummyPublish
              \/ \E videoin \in BOOLEAN : Poll(videoin)
    BY <1>1, <1>10 DEF GoodSignal, Recover, DummyMark, DummyFill, DummyPublish, Poll
  <1> QED  BY <1>4, <1>5, <1>6, <1>7, <1>8, <1>9, <1>10 DEF Capture, SdiMonitor

\* A step that leaves the channel alone keeps what is known of it.
LEMMA ChannelStutters ==
    ASSUME ChannelInv, UNCHANGED channel
    PROVE  ChannelInv' /\ lastframe' = lastframe /\ ring' = ring
  <1>1. UNCHANGED vars /\ IInv /\ GoodSignal /\ RingTruth
    BY DEF channel, ChannelInv
  <1>2. IInv'
    BY <1>1, StutterKeeps
  <1>3. /\ now' = now /\ taken' = taken /\ frame' = frame /\ lastframe' = lastframe
        /\ ring' = ring /\ capture' = capture /\ recover' = recover
    BY <1>1 DEF vars, taking
  <1>4. GoodSignal' /\ RingTruth'
    BY <1>1, <1>3 DEF GoodSignal, RingTruth, NextSlot
  <1> QED  BY <1>2, <1>3, <1>4 DEF ChannelInv
-----------------------------------------------------------------------------
(* The record thread and the encoder. *)

\* The channel goes on: a number that a thread looks for does not come back.
LEMMA CaptureKeeps ==
    ASSUME RecInv, Capture, RecorderUnchanged
    PROVE  RecInv'
  <1>1. /\ ChannelInv /\ LoopTypes /\ BufferTypes /\ EncoderTypes /\ Turns /\ CodedOnce /\ WillBeSound
        /\ DurationExact /\ SavesEveryFrameUnlessOverrun /\ CheckIsSound
    BY DEF RecInv
  <1>2. lastframe \in Int
    BY <1>1, ChannelFacts
  <1>3. ChannelInv' /\ NumbersComeOnce /\ lastframe' \in Int
    <2>1. ChannelInv' /\ NumbersComeOnce
      BY <1>1, CaptureGood
    <2> QED  BY <2>1 DEF ChannelInv, IInv, TypeOK
  <1>4. /\ rec' = rec /\ start' = start /\ lastcoded' = lastcoded /\ last_saved' = last_saved
        /\ toCode' = toCode /\ framesWritten' = framesWritten /\ framesDropped' = framesDropped /\ frames' = frames
        /\ audio' = audio /\ queue' = queue /\ thread' = thread /\ target' = target
        /\ overrun' = overrun
    BY DEF RecorderUnchanged, recording, coding, stopping
  <1>5. LoopTypes' /\ BufferTypes' /\ EncoderTypes' /\ CodedOnce' /\ DurationExact' /\ SavesEveryFrameUnlessOverrun' /\ CheckIsSound'
    BY <1>1, <1>4 DEF LoopTypes, BufferTypes, FrameRecords, EncoderTypes, CodedOnce, InHands, DurationExact, SavesEveryFrameUnlessOverrun, CheckIsSound, HasError

  <1>6. Turns'
    BY <1>1, <1>2, <1>3, <1>4 DEF Turns, NumbersComeOnce, LoopTypes, BufferTypes
  <1>7. WillBeSound'
    <2> SUFFICES ASSUME NEW t \in Threads, NEW n, n = thread[t].frame,
                        thread[t].at = "check", n # 0, frames[n].index = n,
                        ring'[SlotOf(n)].number = n
                 PROVE  thread[t].picture = PictureOf(n)
      BY <1>4 DEF WillBeSound, PictureOf
    <2>1. n \in DOMAIN frames
      BY <1>1 DEF CodedOnce, InHands, Coding
    <2>2. n \in Nat /\ n <= lastframe /\ SlotOf(n) \in Slots
      BY <1>1, <2>1, SlotOfType DEF Turns, BufferTypes
    <2>3. ring[SlotOf(n)].number = n
      BY <1>2, <1>3, <2>2 DEF NumbersComeOnce
    <2> QED  BY <1>1, <2>3 DEF WillBeSound
  <1> QED  BY <1>3, <1>5, <1>6, <1>7 DEF RecInv

\* The recording starts: nothing is in the buffer, and nothing is counted.
LEMMA StartKeeps ==
    ASSUME RecInv, NEW n \in 0 .. MaxTick, Start(n)
    PROVE  RecInv'
  <1>1. /\ ChannelInv /\ LoopTypes /\ BufferTypes /\ EncoderTypes /\ Turns /\ CodedOnce /\ WillBeSound
        /\ DurationExact /\ SavesEveryFrameUnlessOverrun /\ CheckIsSound
    BY DEF RecInv
  <1>2. lastframe \in Int
    BY <1>1, ChannelFacts
  <1>3. /\ rec = "idle" /\ rec' = "loop"
        /\ start' = n /\ lastcoded' = n - 1 /\ last_saved' = n - 1
    BY DEF Start
  <1>4. /\ UNCHANGED channel
        /\ toCode' = toCode /\ framesWritten' = framesWritten /\ framesDropped' = framesDropped /\ frames' = frames
        /\ audio' = audio /\ queue' = queue /\ thread' = thread /\ target' = target
        /\ overrun' = overrun
    BY DEF Start, coding, stopping
  <1>5. ChannelInv' /\ lastframe' = lastframe /\ ring' = ring
    BY <1>1, <1>4, ChannelStutters

  <1>6. lastcoded = -1 /\ framesWritten = 0 /\ framesDropped = 0
    BY <1>1, <1>3 DEF Turns
  <1>7. \A m : m \notin DOMAIN frames
    BY <1>1, <1>6 DEF Turns, BufferTypes
  <1>8. LoopTypes'
    BY <1>1, <1>3, <1>4 DEF LoopTypes
  <1>9. BufferTypes' /\ EncoderTypes' /\ CodedOnce' /\ WillBeSound' /\ CheckIsSound'
    BY <1>1, <1>4, <1>5 DEF BufferTypes, FrameRecords, EncoderTypes, CodedOnce, InHands, WillBeSound, CheckIsSound, HasError

  <1>10. Turns'
    BY <1>3, <1>4, <1>7 DEF Turns
  <1>11. DurationExact'
    BY <1>3, <1>4, <1>6 DEF DurationExact
  <1>12. SavesEveryFrameUnlessOverrun'
    <2>1. DOMAIN frames = {}
      BY <1>7
    <2>2. n - 1 + 1 .. n - 1 = {}
      OBVIOUS
    <2> QED  BY <1>3, <1>4, <2>1, <2>2 DEF SavesEveryFrameUnlessOverrun
  <1> QED  BY <1>5, <1>8, <1>9, <1>10, <1>11, <1>12 DEF RecInv

StopSteps == (\E post_roll \in 0 .. MaxPostRoll : StopReadsWritten(post_roll)) \/ StopReadsDropped \/ StopSetsTarget

\* Stop reads the counts and sets the target, and nothing else.
LEMMA StopKeeps ==
    ASSUME RecInv, StopSteps, stopper.length \in Nat
    PROVE  RecInv'
  <1>1. /\ ChannelInv /\ LoopTypes /\ BufferTypes /\ EncoderTypes /\ Turns /\ CodedOnce /\ WillBeSound
        /\ DurationExact /\ SavesEveryFrameUnlessOverrun /\ CheckIsSound
    BY DEF RecInv
  <1>2. lastframe \in Int
    BY <1>1, ChannelFacts
  <1>3. target' \in Nat
    BY <1>1 DEF StopSteps, StopReadsWritten, StopReadsDropped, StopSetsTarget, AtLeast1, LoopTypes
  <1>4. /\ UNCHANGED channel
        /\ rec' = rec /\ start' = start /\ lastcoded' = lastcoded /\ last_saved' = last_saved
        /\ toCode' = toCode /\ framesWritten' = framesWritten /\ framesDropped' = framesDropped /\ frames' = frames
        /\ audio' = audio /\ queue' = queue /\ thread' = thread /\ overrun' = overrun
    BY DEF StopSteps, StopReadsWritten, StopReadsDropped, StopSetsTarget, channel, recording, coding
  <1>5. ChannelInv' /\ lastframe' = lastframe /\ ring' = ring
    BY <1>1, <1>4, ChannelStutters

  <1>6. LoopTypes'
    BY <1>1, <1>3, <1>4 DEF LoopTypes
  <1>7. BufferTypes' /\ EncoderTypes' /\ Turns' /\ CodedOnce' /\ WillBeSound'
    BY <1>1, <1>4, <1>5 DEF BufferTypes, FrameRecords, EncoderTypes, Turns, CodedOnce, InHands, WillBeSound
  <1>8. DurationExact' /\ SavesEveryFrameUnlessOverrun' /\ CheckIsSound'
    BY <1>1, <1>4, <1>5 DEF DurationExact, SavesEveryFrameUnlessOverrun, CheckIsSound, HasError
  <1> QED  BY <1>5, <1>6, <1>7, <1>8 DEF RecInv

\* The frames beyond the backlog are dropped.  If frames were being coded that is
\* an overrun; otherwise the buffer is empty, before and after.
LEMMA CheckBacklogKeeps ==
    ASSUME RecInv, CheckBacklog
    PROVE  RecInv'
  <1>1. /\ ChannelInv /\ LoopTypes /\ BufferTypes /\ EncoderTypes /\ Turns /\ CodedOnce /\ WillBeSound
        /\ DurationExact /\ SavesEveryFrameUnlessOverrun /\ CheckIsSound
    BY DEF RecInv
  <1>2. lastframe \in Int
    BY <1>1, ChannelFacts
  <1> DEFINE waiting == lastframe - lastcoded
             drop == IF waiting > AllowedBacklog THEN waiting - AllowedBacklog ELSE 0
  <1>3. /\ rec = "loop" /\ rec' = "queue" /\ waiting > 0
        /\ toCode' = waiting - drop /\ lastcoded' = lastcoded + drop /\ last_saved' = last_saved + drop
        /\ framesDropped' = framesDropped + drop
    BY DEF CheckBacklog
  <1>4. overrun' = (overrun \/ (drop > 0 /\ Pending))
    BY DEF CheckBacklog
  <1>5. overrun' \in BOOLEAN /\ (~overrun' => ~overrun /\ ~(drop > 0 /\ Pending))
    BY <1>4, Zenon
  <1>6. /\ UNCHANGED channel
        /\ start' = start /\ framesWritten' = framesWritten /\ frames' = frames /\ audio' = audio
        /\ queue' = queue /\ thread' = thread /\ target' = target
    BY DEF CheckBacklog, coding, stopping
  <1>7. ChannelInv' /\ lastframe' = lastframe /\ ring' = ring
    BY <1>1, <1>6, ChannelStutters

  <1>8. /\ lastcoded \in Int /\ last_saved \in Int /\ last_saved <= lastcoded
        /\ lastcoded >= -1 /\ last_saved >= -1
        /\ drop \in Nat /\ waiting - drop \in 1 .. RingLen - 3
    BY <1>1, <1>2, <1>3, BacklogAssumption, RingAssumption DEF Turns, LoopTypes, AllowedBacklog
  <1>9. lastcoded' + toCode' = lastframe
    BY <1>2, <1>3, <1>8
  <1> HIDE DEF drop
  <1>10. LoopTypes'
    BY <1>1, <1>3, <1>5, <1>6, <1>8 DEF LoopTypes
  <1>11. BufferTypes' /\ EncoderTypes' /\ CodedOnce' /\ WillBeSound' /\ CheckIsSound'
    BY <1>1, <1>6, <1>7 DEF BufferTypes, FrameRecords, EncoderTypes, CodedOnce, InHands, WillBeSound, CheckIsSound, HasError

  <1>12. Turns'
    <2>1. \A m \in DOMAIN frames : m <= lastcoded' /\ m <= lastframe
      BY <1>1, <1>3, <1>8 DEF Turns, BufferTypes
    <2> QED  BY <1>2, <1>3, <1>6, <1>7, <1>8, <1>9, <2>1 DEF Turns
  <1>13. DurationExact'
    BY <1>1, <1>3, <1>6, <1>8 DEF DurationExact, LoopTypes
  <1>14. SavesEveryFrameUnlessOverrun'
    <2> SUFFICES ASSUME ~overrun' PROVE DOMAIN frames = last_saved' + 1 .. lastcoded'
      BY <1>6 DEF SavesEveryFrameUnlessOverrun
    <2>1. DOMAIN frames = last_saved + 1 .. lastcoded
      BY <1>1, <1>5 DEF SavesEveryFrameUnlessOverrun
    <2>2. CASE drop = 0
      BY <1>3, <1>8, <2>1, <2>2
    <2>3. CASE drop > 0
      <3>1. last_saved = lastcoded
        BY <1>5, <1>8, <2>3 DEF Pending
      <3> QED  BY <1>3, <1>8, <2>1, <3>1
    <2> QED  BY <1>8, <2>2, <2>3
  <1> QED  BY <1>7, <1>10, <1>11, <1>12, <1>13, <1>14 DEF RecInv

\* The next frame is queued: no frame in the buffer has its number.
LEMMA QueueFrameKeeps ==
    ASSUME RecInv, QueueFrame
    PROVE  RecInv'
  <1>1. /\ ChannelInv /\ LoopTypes /\ BufferTypes /\ EncoderTypes /\ Turns /\ CodedOnce /\ WillBeSound
        /\ DurationExact /\ SavesEveryFrameUnlessOverrun /\ CheckIsSound
    BY DEF RecInv
  <1>2. lastframe \in Int
    BY <1>1, ChannelFacts
  <1> DEFINE k == lastcoded + 1
             slot == ring[SlotOf(k)]
             entry == [index |-> slot.number, coded |-> FALSE, error |-> FALSE, picture |-> Blank]
  <1>3. /\ rec = "queue" /\ rec' = "save" /\ audio' = slot.picture
        /\ queue' = Append(queue, k) /\ lastcoded' = k /\ toCode' = toCode - 1
    BY DEF QueueFrame
  <1>4. frames' = [n \in DOMAIN frames \union {k} |-> IF n = k THEN entry ELSE frames[n]]
    BY DEF QueueFrame
  <1>5. /\ UNCHANGED channel
        /\ start' = start /\ last_saved' = last_saved /\ framesWritten' = framesWritten /\ framesDropped' = framesDropped
        /\ thread' = thread /\ target' = target /\ overrun' = overrun
    BY DEF QueueFrame, channel, stopping
  <1>6. ChannelInv' /\ lastframe' = lastframe /\ ring' = ring
    BY <1>1, <1>5, ChannelStutters

  <1>7. /\ k \in Nat /\ lastcoded \in Int /\ k <= lastframe /\ SlotOf(k) \in Slots
        /\ toCode \in 1 .. RingLen - 3
    <2>1. k \in Nat /\ lastcoded \in Int /\ k <= lastframe /\ toCode \in 1 .. RingLen - 3
      BY <1>1, <1>2, <1>3, RingAssumption DEF Turns, LoopTypes
    <2> QED  BY <2>1, SlotOfType
  <1> HIDE DEF k
  <1>8. slot \in SlotRecords /\ slot.picture # NoVideo
    BY <1>1, <1>7, ChannelFacts DEF RingTypes, ChannelInv, RingTruth
  <1> HIDE DEF slot
  <1>9. entry \in FrameRecords /\ entry.coded = FALSE
    BY <1>8 DEF FrameRecords, SlotRecords
  <1> HIDE DEF entry
  <1>10. \A n \in DOMAIN frames : n \in Nat /\ n # k
    BY <1>1, <1>7 DEF Turns, BufferTypes, k
  <1>11. /\ DOMAIN frames' = DOMAIN frames \union {k} /\ frames'[k] = entry
         /\ \A n \in DOMAIN frames : frames'[n] = frames[n]
    BY <1>4, <1>10
  <1>12. LoopTypes'
    <2>1. audio' \in 1 .. MaxTick \union {Blank}
      BY <1>3, <1>8 DEF SlotRecords
    <2> QED  BY <1>1, <1>3, <1>5, <1>7, <2>1, RingAssumption DEF LoopTypes
  <1>13. BufferTypes'
    BY <1>1, <1>7, <1>9, <1>10, <1>11 DEF BufferTypes
  <1>14. /\ queue' \in Seq(Nat) /\ Len(queue) \in Nat /\ Len(queue') = Len(queue) + 1
         /\ queue'[Len(queue) + 1] = k
         /\ \A i \in 1 .. Len(queue) : queue'[i] = queue[i]
    BY <1>1, <1>3, <1>7 DEF EncoderTypes
  <1>15. EncoderTypes'
    BY <1>1, <1>5, <1>14 DEF EncoderTypes
  <1>16. Turns'
    BY <1>1, <1>2, <1>3, <1>5, <1>6, <1>7, <1>10, <1>11 DEF Turns, LoopTypes, k
  <1>17. CodedOnce'
    <2>1. \A i \in 1 .. Len(queue) : /\ queue[i] \in DOMAIN frames /\ queue[i] # k
                                      /\ frames'[queue[i]].coded = FALSE
      BY <1>1, <1>10, <1>11 DEF CodedOnce
    <2>2. \A i \in 1 .. Len(queue') : queue'[i] \in DOMAIN frames' /\ frames'[queue'[i]].coded = FALSE
      BY <1>9, <1>11, <1>14, <2>1
    <2>3. \A i, j \in 1 .. Len(queue') : i < j => queue'[i] # queue'[j]
      <3> SUFFICES ASSUME NEW i \in 1 .. Len(queue'), NEW j \in 1 .. Len(queue'), i < j
                   PROVE  queue'[i] # queue'[j]
        OBVIOUS
      <3>1. i \in 1 .. Len(queue) /\ (j \in 1 .. Len(queue) \/ j = Len(queue) + 1)
        BY <1>14
      <3> QED  BY <1>1, <1>14, <2>1, <3>1 DEF CodedOnce
    <2>4. \A t \in Threads : InHands(t) =>
             /\ thread[t].frame \in DOMAIN frames /\ frames[thread[t].frame].coded = FALSE
             /\ \A i \in 1 .. Len(queue) : queue[i] # thread[t].frame
      BY <1>1 DEF CodedOnce
    <2>5. \A t \in Threads : InHands(t) =>
             /\ thread[t].frame \in DOMAIN frames' /\ frames'[thread[t].frame].coded = FALSE
             /\ \A i \in 1 .. Len(queue') : queue'[i] # thread[t].frame
      <3> SUFFICES ASSUME NEW t \in Threads, InHands(t)
                   PROVE  /\ thread[t].frame \in DOMAIN frames' /\ frames'[thread[t].frame].coded = FALSE
                          /\ \A i \in 1 .. Len(queue') : queue'[i] # thread[t].frame
        OBVIOUS
      <3>1. \A i \in 1 .. Len(queue') : i \in 1 .. Len(queue) \/ i = Len(queue) + 1
        BY <1>14
      <3> QED  BY <1>10, <1>11, <1>14, <2>4, <3>1
    <2>6. \A t, u \in Threads : InHands(t) /\ InHands(u) /\ t # u => thread[t].frame # thread[u].frame
      BY <1>1 DEF CodedOnce
    <2> QED  BY <1>5, <2>2, <2>3, <2>5, <2>6 DEF CodedOnce, InHands
  <1>18. WillBeSound'
    <2>1. \A t \in Threads : thread[t].at = "check" => thread[t].frame \in DOMAIN frames
      BY <1>1 DEF CodedOnce, InHands, Coding
    <2> QED  BY <1>1, <1>5, <1>6, <1>11, <2>1 DEF WillBeSound
  <1>19. DurationExact'
    BY <1>1, <1>3, <1>5 DEF DurationExact
  <1>20. SavesEveryFrameUnlessOverrun'
    BY <1>1, <1>3, <1>5, <1>7, <1>11 DEF SavesEveryFrameUnlessOverrun, Turns, LoopTypes, k
  <1>21. CheckIsSound'
    <2> SUFFICES ASSUME NEW n \in DOMAIN frames' \ {0}, frames'[n].coded, ~HasError(n)',
                        frames'[n].index = n
                 PROVE  frames'[n].picture = PictureOf(n)
      BY DEF CheckIsSound, PictureOf
    <2>1. n \in DOMAIN frames
      BY <1>9, <1>11
    <2>2. frames[n].coded /\ frames[n].index = n /\ ~HasError(n)
      BY <1>5, <1>11, <2>1 DEF HasError
    <2> QED  BY <1>1, <1>11, <2>1, <2>2 DEF CheckIsSound
  <1> QED  BY <1>6, <1>12, <1>13, <1>15, <1>16, <1>17, <1>18, <1>19, <1>20, <1>21 DEF RecInv

\* The next frame goes to the file and leaves the buffer.
LEMMA SaveFrameKeeps ==
    ASSUME RecInv, SaveFrame
    PROVE  RecInv'
  <1>1. /\ ChannelInv /\ LoopTypes /\ BufferTypes /\ EncoderTypes /\ Turns /\ CodedOnce /\ WillBeSound
        /\ DurationExact /\ SavesEveryFrameUnlessOverrun /\ CheckIsSound
    BY DEF RecInv
  <1>2. lastframe \in Int
    BY <1>1, ChannelFacts
  <1> DEFINE n == last_saved + 1
  <1>3. /\ rec = "save" /\ rec' = "finished?"
        /\ n \in DOMAIN frames /\ frames[n].coded
        /\ last_saved' = n /\ framesWritten' = framesWritten + 1
        /\ frames' = [m \in DOMAIN frames \ {n} |-> frames[m]]
    BY DEF SaveFrame, NextIsCoded
  <1>4. /\ UNCHANGED channel
        /\ start' = start /\ lastcoded' = lastcoded /\ toCode' = toCode /\ framesDropped' = framesDropped
        /\ audio' = audio /\ queue' = queue /\ thread' = thread /\ target' = target
        /\ overrun' = overrun
    BY DEF SaveFrame, channel, stopping
  <1>5. ChannelInv' /\ lastframe' = lastframe /\ ring' = ring
    BY <1>1, <1>4, ChannelStutters

  <1>6. /\ DOMAIN frames' = DOMAIN frames \ {n}
        /\ \A m \in DOMAIN frames \ {n} : frames'[m] = frames[m]
    BY <1>3
  <1>7. n \in Nat /\ last_saved \in Int /\ n <= lastcoded /\ lastcoded \in Int
    BY <1>1, <1>3 DEF LoopTypes, BufferTypes, Turns
  <1> HIDE DEF n
  <1>8. LoopTypes'
    BY <1>1, <1>3, <1>4, <1>7 DEF LoopTypes
  <1>9. BufferTypes' /\ EncoderTypes'
    BY <1>1, <1>4, <1>6 DEF BufferTypes, EncoderTypes
  <1>10. Turns'
    BY <1>1, <1>3, <1>4, <1>5, <1>6, <1>7 DEF Turns
  <1>11. CodedOnce'
    <2>1. \A i \in 1 .. Len(queue) : queue[i] # n
      BY <1>1, <1>3 DEF CodedOnce
    <2>2. \A t \in Threads : InHands(t) => thread[t].frame # n
      BY <1>1, <1>3 DEF CodedOnce
    <2> QED  BY <1>1, <1>4, <1>6, <2>1, <2>2 DEF CodedOnce, InHands
  <1>12. WillBeSound'
    <2>1. \A t \in Threads : thread[t].at = "check" =>
             thread[t].frame \in DOMAIN frames /\ thread[t].frame # n
      BY <1>1, <1>3 DEF CodedOnce, InHands, Coding
    <2> QED  BY <1>1, <1>4, <1>5, <1>6, <2>1 DEF WillBeSound
  <1>13. DurationExact'
    BY <1>1, <1>3, <1>4, <1>7 DEF DurationExact, LoopTypes, n
  <1>14. SavesEveryFrameUnlessOverrun'
    BY <1>1, <1>3, <1>4, <1>6, <1>7 DEF SavesEveryFrameUnlessOverrun, n
  <1>15. CheckIsSound'
    BY <1>1, <1>4, <1>6 DEF CheckIsSound, HasError
  <1> QED  BY <1>5, <1>8, <1>9, <1>10, <1>11, <1>12, <1>13, <1>14, <1>15 DEF RecInv

\* The frame was the last one, or not.
LEMMA CheckFinishedKeeps ==
    ASSUME RecInv, CheckFinished
    PROVE  RecInv'
  <1>1. /\ ChannelInv /\ LoopTypes /\ BufferTypes /\ EncoderTypes /\ Turns /\ CodedOnce /\ WillBeSound
        /\ DurationExact /\ SavesEveryFrameUnlessOverrun /\ CheckIsSound
    BY DEF RecInv
  <1>2. rec = "finished?" /\ rec' \in {"done", "save"}
    BY DEF CheckFinished
  <1>3. /\ UNCHANGED channel
        /\ start' = start /\ lastcoded' = lastcoded /\ last_saved' = last_saved /\ toCode' = toCode
        /\ framesWritten' = framesWritten /\ framesDropped' = framesDropped /\ frames' = frames /\ audio' = audio
        /\ queue' = queue /\ thread' = thread /\ target' = target /\ overrun' = overrun
    BY DEF CheckFinished, coding, stopping
  <1>4. ChannelInv' /\ lastframe' = lastframe /\ ring' = ring
    BY <1>1, <1>3, ChannelStutters
  <1>5. LoopTypes' /\ Turns' /\ DurationExact'
    BY <1>1, <1>2, <1>3, <1>4 DEF LoopTypes, Turns, DurationExact
  <1>6. BufferTypes' /\ EncoderTypes' /\ CodedOnce' /\ WillBeSound' /\ SavesEveryFrameUnlessOverrun' /\ CheckIsSound'
    BY <1>1, <1>3, <1>4 DEF BufferTypes, FrameRecords, EncoderTypes, CodedOnce, InHands, WillBeSound, SavesEveryFrameUnlessOverrun, CheckIsSound, HasError
  <1> QED  BY <1>4, <1>5, <1>6 DEF RecInv

\* The next frame is not coded yet: the thread goes on queueing, or waits.
LEMMA SaveNoMoreKeeps ==
    ASSUME RecInv, SaveNoMore
    PROVE  RecInv'
  <1>1. /\ ChannelInv /\ LoopTypes /\ BufferTypes /\ EncoderTypes /\ Turns /\ CodedOnce /\ WillBeSound
        /\ DurationExact /\ SavesEveryFrameUnlessOverrun /\ CheckIsSound
    BY DEF RecInv
  <1>2. lastframe \in Int
    BY <1>1, ChannelFacts
  <1>3. /\ rec = "save" /\ rec' = IF toCode > 0 THEN "queue" ELSE "loop"
    BY DEF SaveNoMore
  <1>4. /\ UNCHANGED channel
        /\ start' = start /\ lastcoded' = lastcoded /\ last_saved' = last_saved /\ toCode' = toCode
        /\ framesWritten' = framesWritten /\ framesDropped' = framesDropped /\ frames' = frames /\ audio' = audio
        /\ queue' = queue /\ thread' = thread /\ target' = target /\ overrun' = overrun
    BY DEF SaveNoMore, coding, stopping
  <1>5. ChannelInv' /\ lastframe' = lastframe /\ ring' = ring
    BY <1>1, <1>4, ChannelStutters

  <1>6. LoopTypes' /\ Turns' /\ DurationExact'
    BY <1>1, <1>3, <1>4, <1>5 DEF LoopTypes, Turns, DurationExact
  <1>7. BufferTypes' /\ EncoderTypes' /\ CodedOnce' /\ WillBeSound' /\ SavesEveryFrameUnlessOverrun' /\ CheckIsSound'
    BY <1>1, <1>4, <1>5 DEF BufferTypes, FrameRecords, EncoderTypes, CodedOnce, InHands, WillBeSound, SavesEveryFrameUnlessOverrun, CheckIsSound, HasError
  <1> QED  BY <1>5, <1>6, <1>7 DEF RecInv

\* A thread takes the first frame of the queue.
LEMMA GetFrameKeeps ==
    ASSUME RecInv, NEW t \in Threads, GetFrame(t)
    PROVE  RecInv'
  <1>1. /\ ChannelInv /\ LoopTypes /\ BufferTypes /\ EncoderTypes /\ Turns /\ CodedOnce /\ WillBeSound
        /\ DurationExact /\ SavesEveryFrameUnlessOverrun /\ CheckIsSound
    BY DEF RecInv
  <1>2. lastframe \in Int
    BY <1>1, ChannelFacts
  <1>3. /\ thread[t].at = "getq" /\ queue # <<>> /\ queue' = Tail(queue)
        /\ thread' = [thread EXCEPT ![t].at = "encode", ![t].frame = Head(queue)]
    BY DEF GetFrame, Working
  <1>4. /\ UNCHANGED channel
        /\ rec' = rec /\ start' = start /\ lastcoded' = lastcoded /\ last_saved' = last_saved
        /\ toCode' = toCode /\ framesWritten' = framesWritten /\ framesDropped' = framesDropped /\ frames' = frames
        /\ audio' = audio /\ target' = target /\ overrun' = overrun
    BY DEF GetFrame, channel, recording, stopping
  <1>5. ChannelInv' /\ lastframe' = lastframe /\ ring' = ring
    BY <1>1, <1>4, ChannelStutters

  <1>6. /\ Head(queue) = queue[1] /\ Head(queue) \in Nat /\ queue' \in Seq(Nat)
        /\ Len(queue) \in Nat /\ 1 \in 1 .. Len(queue) /\ Len(queue') = Len(queue) - 1
        /\ \A i \in 1 .. Len(queue') : queue'[i] = queue[i + 1] /\ i + 1 \in 1 .. Len(queue)
    BY <1>1, <1>3 DEF EncoderTypes
  <1>7. /\ thread' \in [Threads -> ThreadRecords]
         /\ thread'[t].at = "encode"
         /\ thread'[t].frame = queue[1]
         /\ \A u \in Threads \ {t} : thread'[u] = thread[u]
    <2>1. thread \in [Threads -> ThreadRecords] /\ thread[t] \in ThreadRecords
      BY <1>1 DEF EncoderTypes
    <2> QED  BY <2>1, <1>3, <1>6 DEF ThreadRecords
  <1>8. LoopTypes' /\ BufferTypes' /\ Turns' /\ DurationExact' /\ SavesEveryFrameUnlessOverrun'
    BY <1>1, <1>4, <1>5 DEF LoopTypes, BufferTypes, FrameRecords, Turns, DurationExact, SavesEveryFrameUnlessOverrun

  <1>9. EncoderTypes'
    BY <1>6, <1>7 DEF EncoderTypes
  <1>10. CodedOnce'
    <2>1. \A i \in 1 .. Len(queue') : queue'[i] \in DOMAIN frames /\ frames[queue'[i]].coded = FALSE
      <3> SUFFICES ASSUME NEW i \in 1 .. Len(queue')
                   PROVE  queue'[i] \in DOMAIN frames /\ frames[queue'[i]].coded = FALSE
        OBVIOUS
      <3>1. queue'[i] = queue[i + 1] /\ i + 1 \in 1 .. Len(queue)
        BY <1>6
      <3>2. queue[i + 1] \in DOMAIN frames /\ frames[queue[i + 1]].coded = FALSE
        BY <1>1, <3>1 DEF CodedOnce
      <3> QED  BY <3>1, <3>2
    <2>2. \A i, j \in 1 .. Len(queue') : i < j => queue'[i] # queue'[j]
      <3> SUFFICES ASSUME NEW i \in 1 .. Len(queue'), NEW j \in 1 .. Len(queue'), i < j
                   PROVE  queue'[i] # queue'[j]
        OBVIOUS
      <3>1. /\ queue'[i] = queue[i + 1] /\ i + 1 \in 1 .. Len(queue)
            /\ queue'[j] = queue[j + 1] /\ j + 1 \in 1 .. Len(queue)
            /\ i + 1 < j + 1
        BY <1>6
      <3>2. queue[i + 1] # queue[j + 1]
        BY <1>1, <3>1 DEF CodedOnce
      <3> QED  BY <3>1, <3>2
    <2>3. \A i \in 1 .. Len(queue') : queue'[i] # queue[1]
      <3> SUFFICES ASSUME NEW i \in 1 .. Len(queue') PROVE queue'[i] # queue[1]
        OBVIOUS
      <3>1. 1 < i + 1
        BY <1>6
      <3> QED  BY <1>1, <1>6, <3>1 DEF CodedOnce
    <2>4. queue[1] \in DOMAIN frames /\ frames[queue[1]].coded = FALSE
      BY <1>1, <1>6 DEF CodedOnce
    <2>5. \A u \in Threads \ {t} : InHands(u)' => InHands(u) /\ thread'[u] = thread[u]
      BY <1>7 DEF InHands
    <2>6. \A u \in Threads \ {t} : InHands(u)' => thread'[u].frame # queue[1]
      BY <1>1, <1>6, <2>5 DEF CodedOnce
    <2>7. \A u \in Threads : InHands(u)' =>
             /\ thread'[u].frame \in DOMAIN frames /\ frames[thread'[u].frame].coded = FALSE
             /\ \A i \in 1 .. Len(queue') : queue'[i] # thread'[u].frame
      <3> SUFFICES ASSUME NEW u \in Threads, InHands(u)'
                   PROVE  /\ thread'[u].frame \in DOMAIN frames /\ frames[thread'[u].frame].coded = FALSE
                          /\ \A i \in 1 .. Len(queue') : queue'[i] # thread'[u].frame
        OBVIOUS
      <3>1. CASE u = t
        BY <1>7, <2>3, <2>4, <3>1
      <3>2. CASE u # t
        BY <1>1, <1>6, <2>5, <3>2 DEF CodedOnce
      <3> QED  BY <3>1, <3>2
    <2>8. \A u, v \in Threads : InHands(u)' /\ InHands(v)' /\ u # v => thread'[u].frame # thread'[v].frame
      BY <1>1, <1>7, <2>5, <2>6 DEF CodedOnce
    <2> QED  BY <1>4, <2>1, <2>2, <2>7, <2>8 DEF CodedOnce
  <1>11. WillBeSound'
    BY <1>1, <1>4, <1>5, <1>7 DEF WillBeSound
  <1>12. CheckIsSound'
    <2>1. \A n : HasError(n) => HasError(n)'
      BY <1>3, <1>4, <1>7 DEF HasError
    <2> QED  BY <1>1, <1>4, <2>1 DEF CheckIsSound
  <1> QED  BY <1>5, <1>8, <1>9, <1>10, <1>11, <1>12 DEF RecInv

\* A thread encodes the picture in the slot; if the number is there, it is the frame's.
LEMMA EncodeKeeps ==
    ASSUME RecInv, NEW t \in Threads, Encode(t)
    PROVE  RecInv'
  <1>1. /\ ChannelInv /\ LoopTypes /\ BufferTypes /\ EncoderTypes /\ Turns /\ CodedOnce /\ WillBeSound
        /\ DurationExact /\ SavesEveryFrameUnlessOverrun /\ CheckIsSound
    BY DEF RecInv
  <1>2. lastframe \in Int
    BY <1>1, ChannelFacts
  <1>3. /\ thread[t].at = "encode"
        /\ thread' = [thread EXCEPT ![t].at = "check",
                                    ![t].picture = ring[SlotOf(thread[t].frame)].picture]
    BY DEF Encode, Working
  <1>4. /\ UNCHANGED channel
        /\ rec' = rec /\ start' = start /\ lastcoded' = lastcoded /\ last_saved' = last_saved
        /\ toCode' = toCode /\ framesWritten' = framesWritten /\ framesDropped' = framesDropped /\ frames' = frames
        /\ audio' = audio /\ queue' = queue /\ target' = target /\ overrun' = overrun
    BY DEF Encode, channel, recording, stopping
  <1>5. ChannelInv' /\ lastframe' = lastframe /\ ring' = ring
    BY <1>1, <1>4, ChannelStutters

  <1>6. /\ thread[t].frame \in Nat /\ SlotOf(thread[t].frame) \in Slots
        /\ ring[SlotOf(thread[t].frame)].picture \in 1 .. MaxTick \union {Blank}
        /\ \A n \in Nat \ {0} : thread[t].frame = n /\ ring[SlotOf(n)].number = n
              => ring[SlotOf(n)].picture = PictureOf(n)
    <2>1. thread[t].frame \in Nat
      BY <1>1, <1>3 DEF CodedOnce, InHands, Coding, BufferTypes
    <2>2. SlotOf(thread[t].frame) \in Slots
      BY <2>1, SlotOfType
    <2>3. ring[SlotOf(thread[t].frame)] \in SlotRecords
      BY <1>1, <2>2, ChannelFacts DEF RingTypes
    <2> QED  BY <1>1, <2>1, <2>2, <2>3 DEF SlotRecords, ChannelInv, RingTruth
  <1>7. /\ thread' \in [Threads -> ThreadRecords]
         /\ thread'[t].at = "check"
         /\ thread'[t].frame = thread[t].frame
         /\ thread'[t].picture = ring[SlotOf(thread[t].frame)].picture
         /\ \A u \in Threads \ {t} : thread'[u] = thread[u]
    <2>1. thread \in [Threads -> ThreadRecords] /\ thread[t] \in ThreadRecords
      BY <1>1 DEF EncoderTypes
    <2> QED  BY <2>1, <1>3, <1>6 DEF ThreadRecords
  <1>8. LoopTypes' /\ BufferTypes' /\ Turns' /\ DurationExact' /\ SavesEveryFrameUnlessOverrun'
    BY <1>1, <1>4, <1>5 DEF LoopTypes, BufferTypes, FrameRecords, Turns, DurationExact, SavesEveryFrameUnlessOverrun

  <1>9. EncoderTypes'
    BY <1>1, <1>4, <1>7 DEF EncoderTypes
  <1>10. CodedOnce'
    <2>1. \A u \in Threads : InHands(u)' => InHands(u) /\ thread'[u].frame = thread[u].frame
      BY <1>3, <1>7 DEF InHands, Coding
    <2> QED  BY <1>1, <1>4, <2>1 DEF CodedOnce
  <1>11. WillBeSound'
    <2> SUFFICES ASSUME NEW u \in Threads, NEW n, n = thread'[u].frame, thread'[u].at = "check",
                        n # 0, frames[n].index = n, ring[SlotOf(n)].number = n
                 PROVE  thread'[u].picture = PictureOf(n)
      BY <1>4, <1>5 DEF WillBeSound, PictureOf
    <2>1. CASE u = t
      BY <1>6, <1>7, <2>1
    <2>2. CASE u # t
      BY <1>1, <1>7, <2>2 DEF WillBeSound
    <2> QED  BY <2>1, <2>2
  <1>12. CheckIsSound'
    <2>1. \A n : HasError(n) => HasError(n)'
      BY <1>3, <1>4, <1>7 DEF HasError
    <2> QED  BY <1>1, <1>4, <2>1 DEF CheckIsSound
  <1> QED  BY <1>5, <1>8, <1>9, <1>10, <1>11, <1>12 DEF RecInv

\* The thread checks the number and marks the frame coded.  If the number is there
\* the picture is the frame's; if not, the error is noted or about to be.
LEMMA ReplaceKeeps ==
    ASSUME RecInv, NEW t \in Threads, Replace(t)
    PROVE  RecInv'
  <1>1. /\ ChannelInv /\ LoopTypes /\ BufferTypes /\ EncoderTypes /\ Turns /\ CodedOnce /\ WillBeSound
        /\ DurationExact /\ SavesEveryFrameUnlessOverrun /\ CheckIsSound
    BY DEF RecInv
  <1>2. lastframe \in Int
    BY <1>1, ChannelFacts
  <1> DEFINE n == thread[t].frame
             valid == ring[SlotOf(n)].number = frames[n].index
  <1>3. /\ thread[t].at = "check"
        /\ frames' = [frames EXCEPT ![n].coded = TRUE, ![n].picture = thread[t].picture]
        /\ thread' = [thread EXCEPT ![t] = IF valid THEN Idle ELSE [@ EXCEPT !.at = "error"]]
    BY DEF Replace, Working
  <1>4. /\ UNCHANGED channel
        /\ rec' = rec /\ start' = start /\ lastcoded' = lastcoded /\ last_saved' = last_saved
        /\ toCode' = toCode /\ framesWritten' = framesWritten /\ framesDropped' = framesDropped /\ audio' = audio
        /\ queue' = queue /\ target' = target /\ overrun' = overrun
    BY DEF Replace, channel, recording, stopping
  <1>5. ChannelInv' /\ lastframe' = lastframe /\ ring' = ring
    BY <1>1, <1>4, ChannelStutters

  <1>6. n \in DOMAIN frames /\ n \in Nat /\ frames[n] \in FrameRecords
    BY <1>1, <1>3 DEF CodedOnce, InHands, Coding, BufferTypes
  <1>7. thread \in [Threads -> ThreadRecords] /\ thread[t] \in ThreadRecords
    BY <1>1 DEF EncoderTypes
  <1>8. /\ DOMAIN frames' = DOMAIN frames
        /\ \A m \in DOMAIN frames \ {n} : frames'[m] = frames[m]
        /\ frames'[n] = [frames[n] EXCEPT !.coded = TRUE, !.picture = thread[t].picture]
    BY <1>3, <1>6
  <1>9. /\ frames'[n] \in FrameRecords /\ frames'[n].index = frames[n].index
        /\ frames'[n].picture = thread[t].picture
    BY <1>6, <1>7, <1>8 DEF FrameRecords, ThreadRecords
  <1>10. /\ thread' \in [Threads -> ThreadRecords]
         /\ thread'[t].at \in {"getq", "error"}
         /\ ~valid => thread'[t].at = "error" /\ thread'[t].frame = n
         /\ \A u \in Threads \ {t} : thread'[u] = thread[u]
    <2>1. CASE valid
      <3>1. thread' = [thread EXCEPT ![t] = Idle]
        BY <1>3, <2>1
      <3>2. Idle \in ThreadRecords /\ Idle.at = "getq"
        BY DEF Idle, ThreadRecords
      <3> QED  BY <1>7, <2>1, <3>1, <3>2
    <2>2. CASE ~valid
      <3>1. thread' = [thread EXCEPT ![t] = [thread[t] EXCEPT !.at = "error"]]
        BY <1>3, <2>2
      <3>2. /\ [thread[t] EXCEPT !.at = "error"] \in ThreadRecords
            /\ [thread[t] EXCEPT !.at = "error"].at = "error"
            /\ [thread[t] EXCEPT !.at = "error"].frame = n
        BY <1>7 DEF ThreadRecords
      <3> QED  BY <1>7, <3>1, <3>2
    <2> QED  BY <2>1, <2>2
  <1> HIDE DEF n, valid
  <1>11. LoopTypes' /\ DurationExact'
    BY <1>1, <1>4 DEF LoopTypes, DurationExact

  <1>12. BufferTypes' /\ Turns' /\ SavesEveryFrameUnlessOverrun'
    BY <1>1, <1>4, <1>5, <1>8, <1>9 DEF BufferTypes, Turns, SavesEveryFrameUnlessOverrun
  <1>13. EncoderTypes'
    BY <1>1, <1>4, <1>10 DEF EncoderTypes
  <1>14. \A u \in Threads : InHands(u)' => InHands(u) /\ thread'[u] = thread[u] /\ u # t /\ thread[u].frame # n
    <2>1. InHands(t)
      BY <1>3 DEF InHands, Coding
    <2>2. \A u \in Threads : InHands(u)' => InHands(u) /\ thread'[u] = thread[u] /\ u # t
      BY <1>10 DEF InHands, Coding
    <2> QED  BY <1>1, <2>1, <2>2 DEF CodedOnce, n
  <1>15. CodedOnce'
    <2>1. \A i \in 1 .. Len(queue) : queue[i] # n
      BY <1>1, <1>3 DEF CodedOnce, InHands, Coding, n
    <2>2. \A i \in 1 .. Len(queue) : queue[i] \in DOMAIN frames' /\ frames'[queue[i]].coded = FALSE
      BY <1>1, <1>8, <2>1 DEF CodedOnce
    <2>3. \A u \in Threads : InHands(u)' =>
             /\ thread'[u].frame \in DOMAIN frames' /\ frames'[thread'[u].frame].coded = FALSE
             /\ \A i \in 1 .. Len(queue) : queue[i] # thread'[u].frame
      BY <1>1, <1>8, <1>14 DEF CodedOnce
    <2>4. \A u, v \in Threads : InHands(u)' /\ InHands(v)' /\ u # v => thread'[u].frame # thread'[v].frame
      BY <1>1, <1>14 DEF CodedOnce
    <2> QED  BY <1>1, <1>4, <2>2, <2>3, <2>4 DEF CodedOnce
  <1>16. WillBeSound'
    <2> SUFFICES ASSUME NEW u \in Threads, NEW m, m = thread'[u].frame, thread'[u].at = "check",
                        m # 0, frames'[m].index = m, ring[SlotOf(m)].number = m
                 PROVE  thread'[u].picture = PictureOf(m)
      BY <1>4, <1>5 DEF WillBeSound, PictureOf
    <2>1. InHands(u)'
      BY DEF InHands, Coding
    <2>2. thread'[u] = thread[u] /\ InHands(u) /\ m # n
      BY <1>14, <2>1
    <2>3. m \in DOMAIN frames
      BY <1>1, <2>2 DEF CodedOnce
    <2> QED  BY <1>1, <1>8, <2>2, <2>3 DEF WillBeSound
  <1>17. CheckIsSound'
    <2> SUFFICES ASSUME NEW m \in DOMAIN frames' \ {0}, frames'[m].coded, ~HasError(m)',
                        frames'[m].index = m
                 PROVE  frames'[m].picture = PictureOf(m)
      BY DEF CheckIsSound, PictureOf
    <2>1. CASE m = n
      <3>1. valid
        BY <1>10, <2>1 DEF HasError
      <3>2. n # 0 /\ frames[n].index = n /\ ring[SlotOf(n)].number = n
        BY <1>9, <2>1, <3>1 DEF valid
      <3>3. thread[t].picture = PictureOf(n)
        BY <1>1, <1>3, <3>2 DEF WillBeSound, n
      <3> QED  BY <1>9, <2>1, <3>3
    <2>2. CASE m # n
      <3>1. m \in DOMAIN frames \ {0} /\ frames'[m] = frames[m]
        BY <1>8, <2>2
      <3>2. ~HasError(m)
        <4>1. \A u \in Threads : thread[u].at = "error" => thread'[u] = thread[u]
          BY <1>3, <1>10
        <4> QED  BY <3>1, <4>1 DEF HasError
      <3> QED  BY <1>1, <3>1, <3>2 DEF CheckIsSound
    <2> QED  BY <2>1, <2>2
  <1> QED  BY <1>5, <1>11, <1>12, <1>13, <1>15, <1>16, <1>17 DEF RecInv

\* The thread notes the error, if the frame is still in the buffer.
LEMMA SetErrorKeeps ==
    ASSUME RecInv, NEW t \in Threads, SetError(t)
    PROVE  RecInv'
  <1>1. /\ ChannelInv /\ LoopTypes /\ BufferTypes /\ EncoderTypes /\ Turns /\ CodedOnce /\ WillBeSound
        /\ DurationExact /\ SavesEveryFrameUnlessOverrun /\ CheckIsSound
    BY DEF RecInv
  <1>2. lastframe \in Int
    BY <1>1, ChannelFacts
  <1> DEFINE n == thread[t].frame
  <1>3. /\ thread[t].at = "error" /\ thread' = [thread EXCEPT ![t] = Idle]
        /\ frames' = [m \in DOMAIN frames |-> IF m = n THEN [frames[m] EXCEPT !.error = TRUE] ELSE frames[m]]
    BY DEF SetError, Working
  <1>4. /\ UNCHANGED channel
        /\ rec' = rec /\ start' = start /\ lastcoded' = lastcoded /\ last_saved' = last_saved
        /\ toCode' = toCode /\ framesWritten' = framesWritten /\ framesDropped' = framesDropped /\ audio' = audio
        /\ queue' = queue /\ target' = target /\ overrun' = overrun
    BY DEF SetError, channel, recording, stopping
  <1>5. ChannelInv' /\ lastframe' = lastframe /\ ring' = ring
    BY <1>1, <1>4, ChannelStutters

  <1>6. /\ thread' \in [Threads -> ThreadRecords] /\ thread'[t].at = "getq"
        /\ \A u \in Threads \ {t} : thread'[u] = thread[u]
    <2>1. thread \in [Threads -> ThreadRecords]
      BY <1>1 DEF EncoderTypes
    <2>2. Idle \in ThreadRecords /\ Idle.at = "getq"
      BY DEF Idle, ThreadRecords
    <2> QED  BY <1>3, <2>1, <2>2
  <1>7. /\ DOMAIN frames' = DOMAIN frames
        /\ \A m \in DOMAIN frames \ {n} : frames'[m] = frames[m]
        /\ n \in DOMAIN frames => frames'[n] = [frames[n] EXCEPT !.error = TRUE]
    BY <1>3
  <1>8. \A m \in DOMAIN frames :
           /\ frames'[m] \in FrameRecords /\ frames'[m].index = frames[m].index
           /\ frames'[m].coded = frames[m].coded /\ frames'[m].picture = frames[m].picture
    <2> SUFFICES ASSUME NEW m \in DOMAIN frames
                 PROVE  /\ frames'[m] \in FrameRecords /\ frames'[m].index = frames[m].index
                        /\ frames'[m].coded = frames[m].coded /\ frames'[m].picture = frames[m].picture
      OBVIOUS
    <2>1. frames[m] \in FrameRecords
      BY <1>1 DEF BufferTypes
    <2>2. CASE m = n
      BY <1>7, <2>1, <2>2 DEF FrameRecords
    <2>3. CASE m # n
      BY <1>7, <2>1, <2>3
    <2> QED  BY <2>2, <2>3
  <1>9. \A m \in DOMAIN frames : HasError(m) => HasError(m)'
    <2> SUFFICES ASSUME NEW m \in DOMAIN frames, HasError(m) PROVE HasError(m)'
      OBVIOUS
    <2>1. CASE m = n
      <3>1. frames[n] \in FrameRecords /\ frames'[n] = [frames[n] EXCEPT !.error = TRUE]
        BY <1>1, <1>7, <2>1 DEF BufferTypes
      <3>2. frames'[n].error = TRUE
        BY <3>1 DEF FrameRecords
      <3> QED  BY <2>1, <3>2 DEF HasError
    <2>2. CASE m # n
      BY <1>6, <1>7, <2>2 DEF HasError
    <2> QED  BY <2>1, <2>2
  <1> HIDE DEF n
  <1>10. LoopTypes' /\ DurationExact'
    BY <1>1, <1>4 DEF LoopTypes, DurationExact

  <1>11. BufferTypes' /\ Turns' /\ SavesEveryFrameUnlessOverrun'
    BY <1>1, <1>4, <1>5, <1>7, <1>8 DEF BufferTypes, Turns, SavesEveryFrameUnlessOverrun
  <1>12. EncoderTypes'
    BY <1>1, <1>4, <1>6 DEF EncoderTypes
  <1>13. \A u \in Threads : InHands(u)' => InHands(u) /\ thread'[u] = thread[u]
    BY <1>6 DEF InHands, Coding
  <1>14. CodedOnce'
    <2>1. \A i \in 1 .. Len(queue) : queue[i] \in DOMAIN frames' /\ frames'[queue[i]].coded = FALSE
      BY <1>1, <1>7, <1>8 DEF CodedOnce
    <2>2. \A u \in Threads : InHands(u)' =>
             /\ thread'[u].frame \in DOMAIN frames' /\ frames'[thread'[u].frame].coded = FALSE
             /\ \A i \in 1 .. Len(queue) : queue[i] # thread'[u].frame
      BY <1>1, <1>7, <1>8, <1>13 DEF CodedOnce
    <2>3. \A u, v \in Threads : InHands(u)' /\ InHands(v)' /\ u # v => thread'[u].frame # thread'[v].frame
      BY <1>1, <1>13 DEF CodedOnce
    <2> QED  BY <1>1, <1>4, <2>1, <2>2, <2>3 DEF CodedOnce
  <1>15. WillBeSound'
    <2> SUFFICES ASSUME NEW u \in Threads, NEW m, m = thread'[u].frame, thread'[u].at = "check",
                        m # 0, frames'[m].index = m, ring[SlotOf(m)].number = m
                 PROVE  thread'[u].picture = PictureOf(m)
      BY <1>4, <1>5 DEF WillBeSound, PictureOf
    <2>1. thread'[u] = thread[u] /\ InHands(u)
      BY <1>13 DEF InHands, Coding
    <2>2. m \in DOMAIN frames
      BY <1>1, <2>1 DEF CodedOnce
    <2> QED  BY <1>1, <1>8, <2>1, <2>2 DEF WillBeSound
  <1>16. CheckIsSound'
    BY <1>1, <1>7, <1>8, <1>9 DEF CheckIsSound
  <1> QED  BY <1>5, <1>10, <1>11, <1>12, <1>14, <1>15, <1>16 DEF RecInv

LEMMA RecStutterKeeps ==
    ASSUME RecInv, UNCHANGED recVars
    PROVE  RecInv'
  <1>1. /\ ChannelInv /\ LoopTypes /\ BufferTypes /\ EncoderTypes /\ Turns /\ CodedOnce /\ WillBeSound
        /\ DurationExact /\ SavesEveryFrameUnlessOverrun /\ CheckIsSound
    BY DEF RecInv
  <1>2. /\ UNCHANGED channel
        /\ rec' = rec /\ start' = start /\ lastcoded' = lastcoded /\ last_saved' = last_saved
        /\ toCode' = toCode /\ framesWritten' = framesWritten /\ framesDropped' = framesDropped /\ frames' = frames
        /\ audio' = audio /\ queue' = queue /\ thread' = thread /\ target' = target
        /\ overrun' = overrun
    BY DEF recVars, channel, recording, coding, stopping
  <1>3. ChannelInv' /\ lastframe' = lastframe /\ ring' = ring
    BY <1>1, <1>2, ChannelStutters
  <1>4. LoopTypes' /\ BufferTypes' /\ EncoderTypes' /\ Turns' /\ CodedOnce' /\ WillBeSound' /\ DurationExact' /\ SavesEveryFrameUnlessOverrun' /\ CheckIsSound'
    BY <1>1, <1>2, <1>3 DEF LoopTypes, BufferTypes, FrameRecords, EncoderTypes, Turns, CodedOnce, InHands, WillBeSound, DurationExact, SavesEveryFrameUnlessOverrun, CheckIsSound, HasError

  <1> QED  BY <1>3, <1>4 DEF RecInv
-----------------------------------------------------------------------------
\* The initial states satisfy the invariant.
LEMMA RecInitHolds == RecInit => RecInv
  <1> SUFFICES ASSUME RecInit PROVE RecInv
    OBVIOUS
  <1>1. Init /\ IInv
    BY InitHolds DEF RecInit
  <1>2. /\ rec = "idle" /\ start = 0 /\ lastcoded = -1 /\ last_saved = -1 /\ toCode = 0
        /\ framesWritten = 0 /\ framesDropped = 0 /\ frames = <<>> /\ audio = Blank /\ queue = <<>>
        /\ thread = [t \in Threads |-> Idle] /\ target = 0 /\ overrun = FALSE
    BY DEF RecInit
  <1>3. ChannelInv
    <2>1. /\ now = 1 /\ taken = 0 /\ lastframe = -1 /\ capture = "get" /\ recover = FALSE
          /\ ring = [s \in Slots |-> EmptySlot]
      BY <1>1 DEF Init
    <2>2. GoodSignal
      BY <2>1 DEF GoodSignal
    <2>3. \A s \in Slots : ring[s].number = 0 /\ ring[s].picture = Blank
      BY <2>1 DEF EmptySlot
    <2>4. RingTruth
      BY <2>1, <2>3, PictureAssumption DEF RingTruth
    <2> QED  BY <1>1, <2>2, <2>4 DEF ChannelInv
  <1>4. DOMAIN frames = {} /\ Len(queue) = 0 /\ queue \in Seq(Nat)
    BY <1>2
  <1>5. thread \in [Threads -> ThreadRecords] /\ \A t \in Threads : thread[t].at = "getq"
    <2>1. Idle \in ThreadRecords /\ Idle.at = "getq"
      BY DEF Idle, ThreadRecords
    <2> QED  BY <1>2, <2>1
  <1>6. LoopTypes
    <2>1. overrun \in BOOLEAN
      BY <1>2, Zenon
    <2>2. toCode \in 0 .. RingLen - 3
      BY <1>2, BacklogAssumption, RingAssumption
    <2> QED  BY <1>2, <2>1, <2>2 DEF LoopTypes
  <1>7. BufferTypes /\ EncoderTypes
    BY <1>4, <1>5 DEF BufferTypes, EncoderTypes
  <1>8. Turns /\ DurationExact
    BY <1>2, <1>4 DEF Turns, DurationExact
  <1>9. CodedOnce /\ WillBeSound
    BY <1>4, <1>5 DEF CodedOnce, WillBeSound, InHands, Coding
  <1>10. SavesEveryFrameUnlessOverrun /\ CheckIsSound
    BY <1>2, <1>4 DEF SavesEveryFrameUnlessOverrun, CheckIsSound
  <1> QED  BY <1>3, <1>6, <1>7, <1>8, <1>9, <1>10 DEF RecInv

(* The reads of Stop: the counts grow in between, so that what it has         *)
(* counted is no less than there was at first, and no more than there is now, *)
(* but for the post-roll.                                                     *)

StopRecords == [at : {"none", "dropped", "target", "returned"}, length : Nat, asked : Nat \union {-1}]
StopInv ==
    /\ stopper \in StopRecords
    /\ rec = "idle" => stopper.at = "none"
    /\ rec = "done" => target > 0
    /\ stopper.at # "returned" => target = 0
    /\ stopper.at # "none" => stopper.asked # -1
    /\ stopper.at = "dropped" =>
          \E post_roll \in 0 .. MaxPostRoll :
             /\ stopper.asked + post_roll <= stopper.length + framesDropped
             /\ stopper.length <= framesWritten + post_roll
    /\ stopper.at = "target" =>
          \E post_roll \in 0 .. MaxPostRoll :
             /\ stopper.asked + post_roll <= stopper.length
             /\ stopper.length <= framesWritten + framesDropped + post_roll

\* The other threads let the counts grow.
LEMMA OthersKeepStopInv ==
    ASSUME StopInv, LoopTypes, UNCHANGED stopping,
           framesWritten' \in Nat, framesWritten' >= framesWritten,
           framesDropped' \in Nat, framesDropped' >= framesDropped,
           rec' # "idle" \/ rec = "idle", rec' # "done" \/ rec = "done" \/ target > 0
    PROVE  StopInv'
  <1>1. stopper' = stopper /\ target' = target
    BY DEF stopping
  <1>2. stopper.length \in Nat /\ stopper.asked \in Int /\ framesWritten \in Nat /\ framesDropped \in Nat
    BY DEF StopInv, StopRecords, LoopTypes
  <1>3. ASSUME stopper.at = "dropped"
        PROVE  \E post_roll \in 0 .. MaxPostRoll :
                  /\ stopper.asked + post_roll <= stopper.length + framesDropped'
                  /\ stopper.length <= framesWritten' + post_roll
    <2>1. PICK post_roll \in 0 .. MaxPostRoll :
             /\ stopper.asked + post_roll <= stopper.length + framesDropped
             /\ stopper.length <= framesWritten + post_roll
      BY <1>3 DEF StopInv
    <2> QED  BY <1>2, <2>1, StartAssumption
  <1>4. ASSUME stopper.at = "target"
        PROVE  \E post_roll \in 0 .. MaxPostRoll :
                  /\ stopper.asked + post_roll <= stopper.length
                  /\ stopper.length <= framesWritten' + framesDropped' + post_roll
    <2>1. PICK post_roll \in 0 .. MaxPostRoll :
             /\ stopper.asked + post_roll <= stopper.length
             /\ stopper.length <= framesWritten + framesDropped + post_roll
      BY <1>4 DEF StopInv
    <2> QED  BY <1>2, <2>1, StartAssumption
  <1> QED  BY <1>1, <1>3, <1>4 DEF StopInv

LEMMA StopKeepsStopInv ==
    ASSUME StopInv, LoopTypes, StopSteps
    PROVE  StopInv'
  <1>1. /\ stopper \in StopRecords /\ framesWritten \in Nat /\ framesDropped \in Nat
        /\ framesWritten' = framesWritten /\ framesDropped' = framesDropped /\ rec' = rec
    BY DEF StopInv, LoopTypes, StopSteps, StopReadsWritten, StopReadsDropped, StopSetsTarget, recording
  <1>2. CASE \E post_roll \in 0 .. MaxPostRoll : StopReadsWritten(post_roll)
    <2>1. PICK post_roll \in 0 .. MaxPostRoll : StopReadsWritten(post_roll)
      BY <1>2
    <2>2. /\ rec \notin {"idle", "done"} /\ stopper.at = "none" /\ target' = target
          /\ stopper' = [at |-> "dropped", length |-> framesWritten + post_roll,
                         asked |-> framesWritten + framesDropped]
      BY <2>1 DEF StopReadsWritten, NotStopped
    <2>3. /\ stopper' \in StopRecords /\ stopper'.at = "dropped" /\ stopper'.asked # -1
          /\ stopper'.asked + post_roll <= stopper'.length + framesDropped
          /\ stopper'.length <= framesWritten + post_roll
      BY <1>1, <2>2, StartAssumption DEF StopRecords
    <2> QED  BY <1>1, <2>2, <2>3 DEF StopInv
  <1>3. CASE StopReadsDropped
    <2>1. /\ stopper.at = "dropped" /\ target' = target
          /\ stopper' \in StopRecords /\ stopper'.at = "target" /\ stopper'.asked = stopper.asked
          /\ stopper'.length = stopper.length + framesDropped
      <3>1. stopper.length + framesDropped \in Nat
        BY <1>1 DEF StopRecords
      <3> DEFINE length == stopper.length + framesDropped
      <3>2. /\ stopper.at = "dropped" /\ target' = target
            /\ stopper' = [stopper EXCEPT !.at = "target", !.length = length]
        BY <1>1, <1>3 DEF StopReadsDropped, StopRecords
      <3> HIDE DEF length
      <3>3. /\ stopper' \in StopRecords /\ stopper'.at = "target" /\ stopper'.asked = stopper.asked
            /\ stopper'.length = length
        BY <1>1, <3>1, <3>2 DEF StopRecords, length
      <3> QED  BY <3>2, <3>3 DEF length
    <2>2. PICK post_roll \in 0 .. MaxPostRoll :
             /\ stopper.asked + post_roll <= stopper.length + framesDropped
             /\ stopper.length <= framesWritten + post_roll
      BY <2>1 DEF StopInv
    <2>3. stopper'.length <= framesWritten + framesDropped + post_roll
      BY <1>1, <2>1, <2>2, StartAssumption DEF StopRecords
    <2> QED  BY <1>1, <2>1, <2>2, <2>3 DEF StopInv
  <1>4. CASE StopSetsTarget
    <2>1. /\ stopper.at = "target" /\ target' = AtLeast1(stopper.length)
          /\ stopper' \in StopRecords /\ stopper'.at = "returned" /\ stopper'.asked = stopper.asked
      BY <1>1, <1>4 DEF StopSetsTarget, StopRecords
    <2>2. target' > 0
      BY <1>1, <2>1 DEF AtLeast1, StopRecords
    <2> QED  BY <1>1, <2>1, <2>2 DEF StopInv
  <1> QED  BY <1>2, <1>3, <1>4 DEF StopSteps

LEMMA RecNextKeepsStopInv == RecInv /\ StopInv /\ [RecNext]_recVars => StopInv'
  <1> SUFFICES ASSUME RecInv, StopInv, [RecNext]_recVars PROVE StopInv'
    OBVIOUS
  <1>1. LoopTypes /\ framesWritten \in Nat /\ framesDropped \in Nat
    BY DEF RecInv, LoopTypes
  <1>2. CASE Control
    <2>1. CASE \E n \in 0 .. MaxTick : Start(n)
      BY <1>1, <2>1, OthersKeepStopInv DEF Start
    <2>2. CASE StopSteps
      BY <1>1, <2>2, StopKeepsStopInv
    <2> QED  BY <1>2, <2>1, <2>2 DEF Control, StopSteps
  <1>3. CASE CheckBacklog
    <2> DEFINE drop == IF lastframe - lastcoded > AllowedBacklog THEN lastframe - lastcoded - AllowedBacklog ELSE 0
    <2>1. /\ UNCHANGED stopping /\ framesWritten' = framesWritten /\ rec' = "queue"
          /\ framesDropped' = framesDropped + drop
      BY <1>3 DEF CheckBacklog
    <2>2. drop \in Nat
      BY ChannelFacts, RingAssumption DEF RecInv, LoopTypes, AllowedBacklog
    <2> HIDE DEF drop
    <2> QED  BY <1>1, <2>1, <2>2, OthersKeepStopInv
  <1>4. CASE QueueFrame \/ SaveFrame \/ CheckFinished \/ SaveNoMore
    <2>1. /\ UNCHANGED stopping /\ framesDropped' = framesDropped
          /\ framesWritten' \in Nat /\ framesWritten' >= framesWritten /\ rec' # "idle"
          /\ rec' = "done" => target > 0
      BY <1>1, <1>4 DEF QueueFrame, SaveFrame, CheckFinished, Finished, SaveNoMore
    <2> QED  BY <1>1, <2>1, OthersKeepStopInv
  <1>5. CASE MtEncoder \/ (rec # "done" /\ Capture /\ RecorderUnchanged) \/ UNCHANGED recVars
    <2>1. UNCHANGED <<recording, stopping>>
      BY <1>5 DEF MtEncoder, GetFrame, Encode, Replace, SetError, RecorderUnchanged, recVars
    <2> QED  BY <1>1, <2>1, OthersKeepStopInv DEF recording
  <1> QED  BY <1>2, <1>3, <1>4, <1>5 DEF RecNext, Record

LEMMA RecNextKeeps == RecInv /\ StopInv /\ [RecNext]_recVars => RecInv'
  <1> SUFFICES ASSUME RecInv, StopInv, [RecNext]_recVars PROVE RecInv'
    OBVIOUS
  <1>1. CASE rec # "done" /\ Capture /\ RecorderUnchanged
    BY <1>1, CaptureKeeps
  <1>2. CASE Record
    BY <1>2, CheckBacklogKeeps, QueueFrameKeeps, SaveFrameKeeps, CheckFinishedKeeps, SaveNoMoreKeeps DEF Record
  <1>3. CASE Control
    <2>1. stopper.length \in Nat
      BY DEF StopInv, StopRecords
    <2> QED  BY <1>3, <2>1, StartKeeps, StopKeeps DEF Control, StopSteps
  <1>4. CASE MtEncoder
    BY <1>4, GetFrameKeeps, EncodeKeeps, ReplaceKeeps, SetErrorKeeps DEF MtEncoder
  <1>5. CASE UNCHANGED recVars
    BY <1>5, RecStutterKeeps
  <1> QED  BY <1>1, <1>2, <1>3, <1>4, <1>5 DEF RecNext

LEMMA RecInvariance == RecSpec => [](RecInv /\ StopInv)
  <1>1. RecInit => StopInv
    BY DEF RecInit, StopInv, StopRecords, NotStopped
  <1> QED  BY <1>1, RecInitHolds, RecNextKeeps, RecNextKeepsStopInv, PTL DEF RecSpec
-----------------------------------------------------------------------------
\* The recorder only reads the ring: whatever it does, the capture process
\* behaves as CaptureChannel says.
THEOREM RecorderKeepsChannel == RecSpec => Spec
  <1>1. RecInit => Init
    BY DEF RecInit
  <1>2. [RecNext]_recVars => [Next]_vars
    <2> SUFFICES ASSUME [RecNext]_recVars PROVE [Next]_vars
      OBVIOUS
    <2>1. CASE Capture
      BY <2>1 DEF Capture, Next
    <2>2. CASE Record
      BY <2>2 DEF Record, CheckBacklog, QueueFrame, SaveFrame, CheckFinished, SaveNoMore, channel
    <2>3. CASE Control
      BY <2>3 DEF Control, Start, StopReadsWritten, StopReadsDropped, StopSetsTarget, channel
    <2>4. CASE MtEncoder
      BY <2>4 DEF MtEncoder, GetFrame, Encode, Replace, SetError, channel
    <2>5. CASE UNCHANGED recVars
      BY <2>5 DEF recVars, channel
    <2> QED  BY <2>1, <2>2, <2>3, <2>4, <2>5 DEF RecNext
  <1> QED  BY <1>1, <1>2, PTL DEF RecSpec, Spec

\* Every variable of the recorder stays within its type, and no more frames are
\* taken on at a time than the backlog allows.
THEOREM RecorderTypes == RecSpec => []RecTypeOK
  <1>1. RecInv /\ StopInv => RecTypeOK
    BY DEF StopInv, StopRecords, RecInv, ChannelInv, IInv, RecTypeOK, LoopTypes, BufferTypes, EncoderTypes,
           FrameRecords, ThreadRecords
  <1> QED  BY RecInvariance, <1>1, PTL

\* The frames in the buffer are those queued after the last one saved, unless
\* frames were dropped while others were being coded.
THEOREM SavesEveryFrame == RecSpec => []SavesEveryFrameUnlessOverrun
  <1>1. RecInv => SavesEveryFrameUnlessOverrun
    BY DEF RecInv
  <1> QED  BY RecInvariance, <1>1, PTL

\* The duration reported is the number of frames from the start to the last one
\* saved, however the threads coded them and whatever was dropped.
THEOREM DurationIsExact == RecSpec => []DurationExact
  <1>1. RecInv => DurationExact
    BY DEF RecInv
  <1> QED  BY RecInvariance, <1>1, PTL

\* A frame that passed the encoder's check of the frame number is coded from
\* its own picture, though the capture process takes no notice of the encoder.
THEOREM NumberCheckIsSound == RecSpec => []CheckIsSound
  <1>1. RecInv => CheckIsSound
    BY DEF RecInv
  <1> QED  BY RecInvariance, <1>1, PTL
-----------------------------------------------------------------------------
(* Refinement: the record thread, the encoder and the capture make the file  *)
(* that RecordedFile promises.  What has to be known for it, beside RecInv,   *)
(* is whose pictures there are in the ring, in the buffer and in the hands of *)
(* the threads.                                                               *)

\* Frame n is no longer safe in the ring, and what may pass for its content:
\* Overtaken and Content of RecordedFile.
Gone(n) == lastframe >= n + RingLen - 1
Right(n, p) == p = n + 1 \/ (Gone(n) /\ p \in n + 1 .. lastframe + 2)

\* The slot of a published frame holds its picture or a later one, and bears its
\* number for as long as the frame is safe.
RingContent ==
    /\ \A n \in 0 .. lastframe :
          /\ Right(n, ring[SlotOf(n)].picture)
          /\ ~Gone(n) => ring[SlotOf(n)].number = n
    /\ capture \in {"number", "publish"} => ring[NextSlot].picture = frame
    /\ capture = "publish" => ring[NextSlot].number = lastframe + 1

\* So a frame that is coded has such a picture, and one that was queued with the
\* wrong number or has an error is no longer safe.
BufferContent ==
    \A n \in DOMAIN frames :
        /\ frames[n].coded => Right(n, frames[n].picture)
        /\ frames[n].error \/ frames[n].index # n => Gone(n)

ThreadContent ==
    \A t \in Threads :
        LET n == thread[t].frame
        IN  /\ thread[t].at = "check" => Right(n, thread[t].picture)
            /\ thread[t].at = "error" => n \in Nat /\ Gone(n)

\* While frames are saved the array holds the audio of the last frame queued.
AudioContent == rec \in {"save", "finished?"} => Right(lastcoded, audio)

FileInv == RingContent /\ BufferContent /\ ThreadContent /\ AudioContent

\* What is gone stays gone, and what is right stays right.
LEMMA RightStays ==
    ASSUME lastframe \in Int, lastframe' \in Int, lastframe' >= lastframe, NEW n \in Int
    PROVE  /\ Gone(n) => Gone(n)'
           /\ \A p : Right(n, p) => Right(n, p)'
  BY RingAssumption DEF Gone, Right

\* A frame in the slot of the next one is gone.
LEMMA NextSlotGone ==
    ASSUME lastframe \in Int, NEW n \in 0 .. lastframe, SlotOf(n) = NextSlot
    PROVE  Gone(n)
  <1>1. n \in Int /\ n < lastframe + 1 /\ lastframe + 1 \in Int
    OBVIOUS
  <1>2. ~(lastframe + 1 < n + RingLen)
    BY <1>1, SlotsApart DEF NextSlot
  <1> QED  BY <1>1, <1>2, RingAssumption DEF Gone

\* The frames in the slots that a step leaves alone, and those that are gone from
\* a slot that gets the next picture.
LEMMA RingContentWrite ==
    ASSUME lastframe \in Int, RingContent, lastframe' = lastframe,
           \A u \in Slots \ {NextSlot} : ring'[u] = ring[u],
           ring'[NextSlot].picture \in {ring[NextSlot].picture, lastframe + 2}
    PROVE  \A n \in 0 .. lastframe :
              /\ Right(n, ring'[SlotOf(n)].picture)
              /\ ~Gone(n) => ring'[SlotOf(n)].number = n
  <1> SUFFICES ASSUME NEW n \in 0 .. lastframe
               PROVE  /\ Right(n, ring'[SlotOf(n)].picture)
                      /\ ~Gone(n) => ring'[SlotOf(n)].number = n
    OBVIOUS
  <1>1. /\ Right(n, ring[SlotOf(n)].picture)
        /\ ~Gone(n) => ring[SlotOf(n)].number = n
    BY DEF RingContent
  <1>2. CASE SlotOf(n) # NextSlot
    BY <1>1, <1>2, SlotOfType
  <1>3. CASE SlotOf(n) = NextSlot
    <2>1. Gone(n)
      BY <1>3, NextSlotGone
    <2>2. lastframe + 2 \in n + 1 .. lastframe + 2
      OBVIOUS
    <2>3. Right(n, lastframe + 2)
      BY <2>1, <2>2 DEF Right
    <2> QED  BY <1>1, <1>3, <2>1, <2>3
  <1> QED  BY <1>2, <1>3

\* The signal being good, these are the steps that the capture process takes.
LEMMA GoodSteps ==
    ASSUME ChannelInv, Capture
    PROVE  (Tick /\ WaitsForFrame) \/ GetBuffer \/ Transfer \/ Number \/ Publish
  <1>1. GoodSignal /\ losses \in 0 .. MaxLosses
    BY DEF ChannelInv, IInv, TypeOK
  <1>2. ~NoSignal /\ ~TransferFails
    BY <1>1, GoodSignalAssumption DEF NoSignal, TransferFails
  <1>3. ~Recover /\ ~DummyMark /\ ~DummyFill /\ ~DummyPublish /\ ~(\E videoin \in BOOLEAN : Poll(videoin))
    BY <1>1 DEF GoodSignal, Recover, DummyMark, DummyFill, DummyPublish, Poll
  <1> QED  BY <1>2, <1>3 DEF Capture, SdiMonitor

\* The capture process keeps what there is in the ring: it changes the slot of the
\* next frame only, and publishes it when it holds the picture and the number.
LEMMA CaptureContent ==
    ASSUME ChannelInv, Capture, RingContent
    PROVE  RingContent'
  <1>1. /\ ring \in [Slots -> SlotRecords] /\ NextSlot \in Slots
        /\ ring[NextSlot] \in SlotRecords /\ lastframe \in Int
    BY ChannelFacts DEF RingTypes
  <1>2. GoodSignal
    BY DEF ChannelInv
  <1>3. CASE Tick /\ WaitsForFrame
    <2>1. lastframe' = lastframe /\ ring' = ring /\ frame' = frame /\ capture' = capture
      BY <1>3 DEF Tick
    <2> QED  BY <2>1 DEF RingContent, Right, Gone, NextSlot
  <1>4. CASE GetBuffer
    <2>1. /\ capture' = "transfer" /\ lastframe' = lastframe
          /\ ring' = [ring EXCEPT ![NextSlot] = [ring[NextSlot] EXCEPT !.number = 0]]
      BY <1>4 DEF GetBuffer, NextSlot
    <2>2. [ring[NextSlot] EXCEPT !.number = 0].picture = ring[NextSlot].picture
      BY <1>1 DEF SlotRecords
    <2>3. /\ \A u \in Slots \ {NextSlot} : ring'[u] = ring[u]
          /\ ring'[NextSlot].picture = ring[NextSlot].picture
      BY <1>1, <2>1, <2>2
    <2>4. \A n \in 0 .. lastframe :
             /\ Right(n, ring'[SlotOf(n)].picture)
             /\ ~Gone(n) => ring'[SlotOf(n)].number = n
      BY <1>1, <2>1, <2>3, RingContentWrite
    <2> QED  BY <2>1, <2>4 DEF RingContent, Right, Gone
  <1>5. CASE Transfer
    <2>1. /\ capture = "transfer" /\ capture' = "number" /\ lastframe' = lastframe /\ frame' = frame
          /\ ring' = [ring EXCEPT ![NextSlot] = [ring[NextSlot] EXCEPT !.picture = frame]]
      BY <1>2, <1>5 DEF Transfer, NextSlot, taking, AfterTransfer, GoodSignal
    <2>2. [ring[NextSlot] EXCEPT !.picture = frame].picture = frame
      BY <1>1 DEF SlotRecords
    <2>3. frame = lastframe + 2
      BY <1>2, <2>1 DEF GoodSignal
    <2>4. /\ \A u \in Slots \ {NextSlot} : ring'[u] = ring[u]
          /\ ring'[NextSlot].picture = frame
      BY <1>1, <2>1, <2>2
    <2>5. \A n \in 0 .. lastframe :
             /\ Right(n, ring'[SlotOf(n)].picture)
             /\ ~Gone(n) => ring'[SlotOf(n)].number = n
      BY <1>1, <2>1, <2>3, <2>4, RingContentWrite
    <2>6. NextSlot' = NextSlot
      BY <2>1 DEF NextSlot
    <2> QED  BY <2>1, <2>4, <2>5, <2>6 DEF RingContent, Right, Gone
  <1>6. CASE Number
    <2>1. /\ capture = "number" /\ capture' = "publish" /\ lastframe' = lastframe /\ frame' = frame
          /\ ring' = [ring EXCEPT ![NextSlot] = [ring[NextSlot] EXCEPT !.tc = frame,
                                                   !.signal_ok = TRUE, !.number = lastframe + 1]]
      BY <1>6 DEF Number, NextSlot, taking
    <2> DEFINE slot == [ring[NextSlot] EXCEPT !.tc = frame, !.signal_ok = TRUE, !.number = lastframe + 1]
    <2>2. slot.picture = ring[NextSlot].picture /\ slot.number = lastframe + 1
      BY <1>1 DEF SlotRecords
    <2>3. /\ \A u \in Slots \ {NextSlot} : ring'[u] = ring[u]
          /\ ring'[NextSlot].picture = ring[NextSlot].picture
          /\ ring'[NextSlot].number = lastframe + 1
      BY <1>1, <2>1, <2>2
    <2>4. \A n \in 0 .. lastframe :
             /\ Right(n, ring'[SlotOf(n)].picture)
             /\ ~Gone(n) => ring'[SlotOf(n)].number = n
      BY <1>1, <2>1, <2>3, RingContentWrite
    <2>5. ring[NextSlot].picture = frame
      BY <2>1 DEF RingContent
    <2>6. NextSlot' = NextSlot
      BY <2>1 DEF NextSlot
    <2> QED  BY <2>1, <2>3, <2>4, <2>5, <2>6 DEF RingContent, Right, Gone
  <1>7. CASE Publish
    <2>1. /\ capture = "publish" /\ capture' = "get" /\ lastframe' = lastframe + 1 /\ ring' = ring
      BY <1>7 DEF Publish
    <2>2. frame = lastframe + 2
      BY <1>2, <2>1 DEF GoodSignal
    <2>3. ring[NextSlot].picture = lastframe + 2 /\ ring[NextSlot].number = lastframe + 1
      BY <2>1, <2>2 DEF RingContent
    <2>4. ASSUME NEW n \in 0 .. lastframe + 1
          PROVE  /\ Right(n, ring[SlotOf(n)].picture)'
                 /\ ~Gone(n)' => ring[SlotOf(n)].number = n
      <3>1. CASE n = lastframe + 1
        <4>1. SlotOf(n) = NextSlot
          BY <3>1 DEF NextSlot
        <4>2. ring'[SlotOf(n)].picture = n + 1
          BY <1>1, <2>1, <2>3, <3>1, <4>1
        <4> QED  BY <2>3, <3>1, <4>1, <4>2 DEF Right
      <3>2. CASE n # lastframe + 1
        <4>1. n \in 0 .. lastframe
          BY <1>1, <3>2
        <4>2. /\ Right(n, ring[SlotOf(n)].picture)
              /\ ~Gone(n) => ring[SlotOf(n)].number = n
          BY <4>1 DEF RingContent
        <4>3. /\ Gone(n) => Gone(n)'
              /\ Right(n, ring[SlotOf(n)].picture) => Right(n, ring[SlotOf(n)].picture)'
          BY <1>1, <2>1, <4>1, RingAssumption DEF Gone, Right
        <4> QED  BY <4>2, <4>3
      <3> QED  BY <3>1, <3>2
    <2> QED  BY <2>1, <2>4 DEF RingContent
  <1> QED  BY <1>3, <1>4, <1>5, <1>6, <1>7, GoodSteps

\* A frame in the buffer is published; in particular one in the hands of a thread.
LEMMA BufferPublished ==
    ASSUME RecInv
    PROVE  /\ lastframe \in Int
           /\ \A n \in DOMAIN frames : n \in Nat /\ n <= lastframe
           /\ \A t \in Threads : InHands(t) => thread[t].frame \in DOMAIN frames
  BY ChannelFacts DEF RecInv, Turns, BufferTypes, CodedOnce

\* The channel goes on: what passes for the content of a frame still does.
LEMMA CaptureKeepsFile ==
    ASSUME RecInv, FileInv, Capture, RecorderUnchanged
    PROVE  FileInv'
  <1>1. /\ lastframe \in Int /\ lastframe' \in Int /\ lastframe' >= lastframe
        /\ RingContent'
    <2>1. ChannelInv /\ ChannelInv' /\ NumbersComeOnce
      BY CaptureGood DEF RecInv
    <2>2. lastframe \in Int /\ lastframe' \in Int
      BY <2>1 DEF ChannelInv, IInv, TypeOK
    <2> QED  BY <2>1, <2>2, CaptureContent DEF FileInv, NumbersComeOnce
  <1>2. /\ rec' = rec /\ lastcoded' = lastcoded /\ frames' = frames /\ audio' = audio
        /\ thread' = thread
    BY DEF RecorderUnchanged, recording, coding, stopping
  <1>3. \A n \in Int : (Gone(n) => Gone(n)') /\ (\A p : Right(n, p) => Right(n, p)')
    BY <1>1, RightStays
  <1>4. BufferContent'
    <2> SUFFICES ASSUME NEW n \in DOMAIN frames
                 PROVE  /\ frames[n].coded => Right(n, frames[n].picture)'
                        /\ frames[n].error \/ frames[n].index # n => Gone(n)'
      BY <1>2 DEF BufferContent
    <2>1. n \in Int
      BY BufferPublished
    <2>2. /\ frames[n].coded => Right(n, frames[n].picture)
          /\ frames[n].error \/ frames[n].index # n => Gone(n)
      BY DEF FileInv, BufferContent
    <2>3. Right(n, frames[n].picture) => Right(n, frames[n].picture)'
      BY <1>2, <1>3, <2>1 DEF Right, Gone
    <2> QED  BY <1>3, <2>1, <2>2, <2>3
  <1>5. ThreadContent'
    <2> SUFFICES ASSUME NEW t \in Threads, NEW n, n = thread[t].frame
                 PROVE  /\ thread[t].at = "check" => Right(n, thread[t].picture)'
                        /\ thread[t].at = "error" => n \in Nat /\ Gone(n)'
      BY <1>2 DEF ThreadContent, Right, Gone
    <2>1. /\ thread[t].at = "check" => Right(n, thread[t].picture)
          /\ thread[t].at = "error" => n \in Nat /\ Gone(n)
      BY DEF FileInv, ThreadContent
    <2>2. thread[t].at = "check" => n \in Int
      BY BufferPublished DEF InHands, Coding
    <2>3. ASSUME n \in Int, Right(n, thread[t].picture) PROVE Right(n, thread[t].picture)'
      BY <1>2, <1>3, <2>3 DEF Right, Gone
    <2> QED  BY <1>3, <2>1, <2>2, <2>3
  <1>6. AudioContent'
    <2> SUFFICES ASSUME rec \in {"save", "finished?"} PROVE Right(lastcoded, audio)'
      BY <1>2 DEF AudioContent
    <2>1. lastcoded \in Int /\ Right(lastcoded, audio)
      BY DEF RecInv, LoopTypes, FileInv, AudioContent
    <2> QED  BY <1>2, <1>3, <2>1 DEF Right, Gone
  <1> QED  BY <1>1, <1>4, <1>5, <1>6 DEF FileInv

\* A step of the recorder leaves the ring alone, and with it what passes for the
\* content of a frame.
LEMMA RecorderStep ==
    ASSUME RecInv, FileInv, UNCHANGED channel
    PROVE  /\ lastframe' = lastframe /\ RingContent'
           /\ \A n : Gone(n)' <=> Gone(n)
           /\ \A n, p : Right(n, p)' <=> Right(n, p)
  <1>1. lastframe' = lastframe /\ ring' = ring /\ capture' = capture /\ frame' = frame
    BY DEF channel, vars, taking
  <1>2. RingContent'
    BY <1>1 DEF FileInv, RingContent, Right, Gone, NextSlot
  <1> QED  BY <1>1, <1>2 DEF Right, Gone

\* Steps that touch neither the buffer nor what the threads have in hand
LEMMA LoopKeepsFile ==
    ASSUME RecInv, FileInv, UNCHANGED <<channel, frames, thread>>, rec' \notin {"save", "finished?"}
    PROVE  FileInv'
  <1>1. BufferContent' /\ ThreadContent' /\ AudioContent'
    BY RecorderStep DEF FileInv, BufferContent, ThreadContent, AudioContent, Right, Gone
  <1> QED  BY <1>1, RecorderStep DEF FileInv

\* The frame queued is published: its slot has its number, or the frame is gone.
LEMMA QueueFrameKeepsFile ==
    ASSUME RecInv, FileInv, QueueFrame
    PROVE  FileInv'
  <1> DEFINE k == lastcoded + 1
             slot == ring[SlotOf(k)]
             entry == [index |-> slot.number, coded |-> FALSE, error |-> FALSE, picture |-> Blank]
  <1>1. /\ UNCHANGED channel /\ thread' = thread
        /\ rec = "queue" /\ audio' = slot.picture /\ lastcoded' = k
        /\ frames' = [n \in DOMAIN frames \union {k} |-> IF n = k THEN entry ELSE frames[n]]
    BY DEF QueueFrame, channel, stopping
  <1>2. lastframe' = lastframe /\ RingContent'
    BY <1>1, RecorderStep
  <1>3. k \in 0 .. lastframe
    BY <1>1, ChannelFacts DEF RecInv, Turns, LoopTypes
  <1>4. Right(k, slot.picture) /\ (slot.number # k => Gone(k))
    BY <1>3 DEF FileInv, RingContent
  <1> HIDE DEF k, slot
  <1>5. entry.index = slot.number /\ entry.coded = FALSE /\ entry.error = FALSE
    OBVIOUS
  <1> HIDE DEF entry
  <1>6. BufferContent'
    <2> SUFFICES ASSUME NEW n \in DOMAIN frames'
                 PROVE  /\ frames'[n].coded => Right(n, frames'[n].picture)
                        /\ frames'[n].error \/ frames'[n].index # n => Gone(n)
      BY <1>2 DEF BufferContent, Right, Gone
    <2>1. CASE n = k
      BY <1>1, <1>4, <1>5, <2>1
    <2>2. CASE n # k
      BY <1>1, <2>2 DEF FileInv, BufferContent
    <2> QED  BY <2>1, <2>2
  <1>7. ThreadContent'
    BY <1>1, <1>2 DEF FileInv, ThreadContent, Right, Gone
  <1>8. AudioContent'
    BY <1>1, <1>2, <1>4 DEF AudioContent, Right, Gone
  <1> QED  BY <1>2, <1>6, <1>7, <1>8 DEF FileInv

LEMMA SaveFrameKeepsFile ==
    ASSUME RecInv, FileInv, SaveFrame
    PROVE  FileInv'
  <1>1. /\ UNCHANGED channel /\ thread' = thread /\ audio' = audio /\ lastcoded' = lastcoded
        /\ rec = "save" /\ frames' = [m \in DOMAIN frames \ {last_saved + 1} |-> frames[m]]
    BY DEF SaveFrame, channel, stopping
  <1>2. lastframe' = lastframe /\ RingContent'
    BY <1>1, RecorderStep
  <1>3. BufferContent'
    BY <1>1, <1>2 DEF FileInv, BufferContent, Right, Gone
  <1>4. ThreadContent' /\ AudioContent'
    BY <1>1, <1>2 DEF FileInv, ThreadContent, AudioContent, Right, Gone
  <1> QED  BY <1>2, <1>3, <1>4 DEF FileInv

\* A thread takes a frame, or encodes what is in the frame's slot.
LEMMA EncodeKeepsFile ==
    ASSUME RecInv, FileInv, NEW t \in Threads, GetFrame(t) \/ Encode(t)
    PROVE  FileInv'
  <1>1. /\ UNCHANGED channel /\ frames' = frames /\ audio' = audio
        /\ lastcoded' = lastcoded /\ rec' = rec
    BY DEF GetFrame, Encode, channel, recording
  <1>2. lastframe' = lastframe /\ RingContent'
    BY <1>1, RecorderStep
  <1>3. thread \in [Threads -> ThreadRecords] /\ thread[t] \in ThreadRecords
    BY DEF RecInv, EncoderTypes
  <1>4. /\ \A u \in Threads \ {t} : thread'[u] = thread[u]
        /\ thread'[t].at \in {"encode", "check"}
        /\ thread'[t].at = "check" => Right(thread'[t].frame, thread'[t].picture)
    <2>1. CASE GetFrame(t)
      <3>1. thread' = [thread EXCEPT ![t] = [thread[t] EXCEPT !.at = "encode", !.frame = Head(queue)]]
        BY <1>3, <2>1 DEF GetFrame
      <3>2. [thread[t] EXCEPT !.at = "encode", !.frame = Head(queue)].at = "encode"
        BY <1>3 DEF ThreadRecords
      <3> QED  BY <1>3, <3>1, <3>2
    <2>2. CASE Encode(t)
      <3> DEFINE n == thread[t].frame
      <3>1. n \in 0 .. lastframe
        BY <2>2, BufferPublished DEF Encode, Working, InHands, Coding
      <3>2. Right(n, ring[SlotOf(n)].picture)
        BY <3>1 DEF FileInv, RingContent
      <3>3. thread' = [thread EXCEPT ![t] = [thread[t] EXCEPT !.at = "check",
                                                             !.picture = ring[SlotOf(n)].picture]]
        BY <1>3, <2>2 DEF Encode
      <3> HIDE DEF n
      <3> DEFINE coded == [thread[t] EXCEPT !.at = "check", !.picture = ring[SlotOf(n)].picture]
      <3>4. coded.at = "check" /\ coded.frame = n /\ coded.picture = ring[SlotOf(n)].picture
        BY <1>3 DEF ThreadRecords, n
      <3> HIDE DEF coded
      <3>5. thread'[t] = coded /\ \A u \in Threads \ {t} : thread'[u] = thread[u]
        BY <1>3, <3>3 DEF coded
      <3> QED  BY <3>2, <3>4, <3>5
    <2> QED  BY <2>1, <2>2
  <1>5. ThreadContent'
    <2> SUFFICES ASSUME NEW u \in Threads
                 PROVE  /\ thread'[u].at = "check" => Right(thread'[u].frame, thread'[u].picture)
                        /\ thread'[u].at = "error" => thread'[u].frame \in Nat /\ Gone(thread'[u].frame)
      BY <1>2 DEF ThreadContent, Right, Gone
    <2>1. CASE u = t
      BY <1>4, <2>1
    <2>2. CASE u # t
      BY <1>4, <2>2 DEF FileInv, ThreadContent
    <2> QED  BY <2>1, <2>2
  <1>6. BufferContent' /\ AudioContent'
    BY <1>1, <1>2 DEF FileInv, BufferContent, AudioContent, Right, Gone
  <1> QED  BY <1>2, <1>5, <1>6 DEF FileInv

\* The check fails only for a frame that is gone: either its number was not in
\* the slot when it was queued, or it is not there now.
LEMMA ReplaceKeepsFile ==
    ASSUME RecInv, FileInv, NEW t \in Threads, Replace(t)
    PROVE  FileInv'
  <1> DEFINE n == thread[t].frame
             valid == ring[SlotOf(n)].number = frames[n].index
  <1>1. /\ UNCHANGED channel /\ audio' = audio /\ lastcoded' = lastcoded /\ rec' = rec
        /\ thread[t].at = "check"
        /\ frames' = [frames EXCEPT ![n].coded = TRUE, ![n].picture = thread[t].picture]
        /\ thread' = [thread EXCEPT ![t] = IF valid THEN Idle ELSE [@ EXCEPT !.at = "error"]]
    BY DEF Replace, Working, channel, recording
  <1>2. lastframe' = lastframe /\ RingContent'
    BY <1>1, RecorderStep
  <1>3. thread \in [Threads -> ThreadRecords] /\ thread[t] \in ThreadRecords
    BY DEF RecInv, EncoderTypes
  <1>4. n \in DOMAIN frames /\ n \in 0 .. lastframe /\ frames[n] \in FrameRecords
    BY <1>1, BufferPublished DEF InHands, Coding, RecInv, BufferTypes
  <1>5. Right(n, thread[t].picture)
    BY <1>1 DEF FileInv, ThreadContent
  <1>6. ~valid => Gone(n)
    <2>1. ~Gone(n) => ring[SlotOf(n)].number = n
      BY <1>4 DEF FileInv, RingContent
    <2>2. ~Gone(n) => frames[n].index = n
      BY <1>4 DEF FileInv, BufferContent
    <2> QED  BY <2>1, <2>2
  <1>7. /\ \A u \in Threads \ {t} : thread'[u] = thread[u]
        /\ thread'[t].at # "check"
        /\ thread'[t].at = "error" => ~valid /\ thread'[t].frame = n
    <2>1. CASE valid
      <3>1. thread'[t] = Idle /\ \A u \in Threads \ {t} : thread'[u] = thread[u]
        BY <1>1, <1>3, <2>1
      <3> QED  BY <3>1 DEF Idle
    <2>2. CASE ~valid
      <3>1. /\ [thread[t] EXCEPT !.at = "error"].at = "error"
            /\ [thread[t] EXCEPT !.at = "error"].frame = n
        BY <1>3 DEF ThreadRecords
      <3>2. /\ thread'[t] = [thread[t] EXCEPT !.at = "error"]
            /\ \A u \in Threads \ {t} : thread'[u] = thread[u]
        BY <1>1, <1>3, <2>2
      <3> QED  BY <2>2, <3>1, <3>2
    <2> QED  BY <2>1, <2>2
  <1>8. /\ DOMAIN frames' = DOMAIN frames
        /\ \A m \in DOMAIN frames \ {n} : frames'[m] = frames[m]
        /\ frames'[n].picture = thread[t].picture
        /\ frames'[n].error = frames[n].error /\ frames'[n].index = frames[n].index
    <2>1. frames' = [frames EXCEPT ![n] = [frames[n] EXCEPT !.coded = TRUE, !.picture = thread[t].picture]]
      BY <1>1
    <2> DEFINE done == [frames[n] EXCEPT !.coded = TRUE, !.picture = thread[t].picture]
    <2>2. /\ done.picture = thread[t].picture
          /\ done.error = frames[n].error /\ done.index = frames[n].index
      BY <1>4 DEF FrameRecords
    <2>3. frames'[n] = done
      BY <1>4, <2>1
    <2> QED  BY <2>1, <2>2, <2>3
  <1> HIDE DEF n, valid
  <1>9. ThreadContent'
    <2> SUFFICES ASSUME NEW u \in Threads
                 PROVE  /\ thread'[u].at = "check" => Right(thread'[u].frame, thread'[u].picture)
                        /\ thread'[u].at = "error" => thread'[u].frame \in Nat /\ Gone(thread'[u].frame)
      BY <1>2 DEF ThreadContent, Right, Gone
    <2>1. CASE u = t
      BY <1>4, <1>6, <1>7, <2>1
    <2>2. CASE u # t
      BY <1>7, <2>2 DEF FileInv, ThreadContent
    <2> QED  BY <2>1, <2>2
  <1>10. BufferContent'
    <2> SUFFICES ASSUME NEW m \in DOMAIN frames
                 PROVE  /\ frames'[m].coded => Right(m, frames'[m].picture)
                        /\ frames'[m].error \/ frames'[m].index # m => Gone(m)
      BY <1>2, <1>8 DEF BufferContent, Right, Gone
    <2>1. CASE m = n
      BY <1>4, <1>5, <1>8, <2>1 DEF FileInv, BufferContent
    <2>2. CASE m # n
      BY <1>8, <2>2 DEF FileInv, BufferContent
    <2> QED  BY <2>1, <2>2
  <1>11. AudioContent'
    BY <1>1, <1>2 DEF FileInv, AudioContent, Right, Gone
  <1> QED  BY <1>2, <1>9, <1>10, <1>11 DEF FileInv

\* The error is noted of a frame that is gone.
LEMMA SetErrorKeepsFile ==
    ASSUME RecInv, FileInv, NEW t \in Threads, SetError(t)
    PROVE  FileInv'
  <1> DEFINE n == thread[t].frame
  <1>1. /\ UNCHANGED channel /\ audio' = audio /\ lastcoded' = lastcoded /\ rec' = rec
        /\ thread[t].at = "error" /\ thread' = [thread EXCEPT ![t] = Idle]
        /\ frames' = [m \in DOMAIN frames |-> IF m = n THEN [frames[m] EXCEPT !.error = TRUE] ELSE frames[m]]
    BY DEF SetError, Working, channel, recording
  <1>2. lastframe' = lastframe /\ RingContent'
    BY <1>1, RecorderStep
  <1>3. Gone(n)
    BY <1>1 DEF FileInv, ThreadContent
  <1>4. /\ \A u \in Threads \ {t} : thread'[u] = thread[u]
        /\ thread'[t].at = "getq"
    <2>1. thread \in [Threads -> ThreadRecords]
      BY DEF RecInv, EncoderTypes
    <2> QED  BY <1>1, <2>1 DEF Idle
  <1>5. ThreadContent'
    <2> SUFFICES ASSUME NEW u \in Threads
                 PROVE  /\ thread'[u].at = "check" => Right(thread'[u].frame, thread'[u].picture)
                        /\ thread'[u].at = "error" => thread'[u].frame \in Nat /\ Gone(thread'[u].frame)
      BY <1>2 DEF ThreadContent, Right, Gone
    <2> QED  BY <1>4 DEF FileInv, ThreadContent
  <1>6. BufferContent'
    <2> SUFFICES ASSUME NEW m \in DOMAIN frames
                 PROVE  /\ frames'[m].coded => Right(m, frames'[m].picture)
                        /\ frames'[m].error \/ frames'[m].index # m => Gone(m)
      BY <1>1, <1>2 DEF BufferContent, Right, Gone
    <2>1. frames[m] \in FrameRecords
      BY DEF RecInv, BufferTypes
    <2>2. /\ frames[m].coded => Right(m, frames[m].picture)
          /\ frames[m].error \/ frames[m].index # m => Gone(m)
      BY DEF FileInv, BufferContent
    <2>3. CASE m = n
      <3>1. frames'[m].coded = frames[m].coded /\ frames'[m].picture = frames[m].picture
        BY <1>1, <2>1, <2>3 DEF FrameRecords
      <3> QED  BY <1>3, <2>2, <2>3, <3>1
    <2>4. CASE m # n
      BY <1>1, <2>2, <2>4
    <2> QED  BY <2>3, <2>4
  <1>7. AudioContent'
    BY <1>1, <1>2 DEF FileInv, AudioContent, Right, Gone
  <1> QED  BY <1>2, <1>5, <1>6, <1>7 DEF FileInv

LEMMA FileStutters ==
    ASSUME RecInv, FileInv, UNCHANGED <<channel, lastcoded, frames, audio, thread>>,
           rec' = rec \/ rec = "finished?"
    PROVE  FileInv'
  <1>1. lastframe' = lastframe /\ RingContent'
    BY RecorderStep
  <1>2. BufferContent' /\ ThreadContent' /\ AudioContent'
    BY <1>1 DEF FileInv, BufferContent, ThreadContent, AudioContent, Right, Gone
  <1> QED  BY <1>1, <1>2 DEF FileInv

LEMMA FileInvHolds == RecSpec => []FileInv
  <1>1. RecInit => FileInv
    <2> SUFFICES ASSUME RecInit PROVE FileInv
      OBVIOUS
    <2>1. /\ lastframe = -1 /\ capture = "get" /\ rec = "idle" /\ DOMAIN frames = {}
          /\ \A t \in Threads : thread[t].at = "getq"
      BY DEF RecInit, Init, Idle
    <2> QED  BY <2>1 DEF FileInv, RingContent, BufferContent, ThreadContent, AudioContent
  <1>2. RecInv /\ FileInv /\ [RecNext]_recVars => FileInv'
    <2> SUFFICES ASSUME RecInv, FileInv, [RecNext]_recVars PROVE FileInv'
      OBVIOUS
    <2>1. CASE rec # "done" /\ Capture /\ RecorderUnchanged
      BY <2>1, CaptureKeepsFile
    <2>2. CASE CheckBacklog \/ SaveNoMore
      <3>1. UNCHANGED <<channel, frames, thread>> /\ rec' \notin {"save", "finished?"}
        BY <2>2 DEF CheckBacklog, SaveNoMore, coding
      <3> QED  BY <3>1, LoopKeepsFile
    <2>3. CASE QueueFrame \/ SaveFrame
      BY <2>3, QueueFrameKeepsFile, SaveFrameKeepsFile
    <2>4. CASE \E n \in 0 .. MaxTick : Start(n)
      <3>1. UNCHANGED <<channel, frames, thread>> /\ rec' \notin {"save", "finished?"}
        BY <2>4 DEF Start, coding
      <3> QED  BY <3>1, LoopKeepsFile
    <2>5. CASE StopSteps
      BY <2>5, FileStutters DEF StopSteps, StopReadsWritten, StopReadsDropped, StopSetsTarget, recording, coding
    <2>8. CASE CheckFinished
      BY <2>8, FileStutters DEF CheckFinished, coding
    <2>6. CASE MtEncoder
      BY <2>6, EncodeKeepsFile, ReplaceKeepsFile, SetErrorKeepsFile DEF MtEncoder
    <2>7. CASE UNCHANGED recVars
      BY <2>7, FileStutters DEF recVars, recording, coding
    <2> QED  BY <2>1, <2>2, <2>3, <2>4, <2>5, <2>6, <2>7, <2>8 DEF RecNext, Record, Control, StopSteps
  <1> QED  BY <1>1, <1>2, RecInvariance, PTL DEF RecSpec

\* Gone and Right are Overtaken and Content of RecordedFile.
LEMMA ContentOf ==
    ASSUME lastframe \in Int, NEW n \in Int
    PROVE  /\ Gone(n) <=> Made!Overtaken(n)
           /\ \A p : Right(n, p) => p \in Made!Content(n)
  BY RingAssumption DEF Gone, Right, Made!Overtaken, Made!Content, Made!CapturedFor

LEMMA MadeInit == RecInit => Made!Init
  <1> SUFFICES ASSUME RecInit PROVE Made!Init
    OBVIOUS
  <1>1. /\ rec = "idle" /\ lastframe = -1 /\ start = 0 /\ lastcoded = -1 /\ last_saved = -1
        /\ framesWritten = 0 /\ framesDropped = 0 /\ target = 0 /\ saved = NothingSaved
        /\ stopper.asked = -1
        /\ DOMAIN frames = {}
    BY DEF RecInit, Init, NotStopped
  <1> QED  BY <1>1 DEF Made!Init, NothingSaved

\* Of the steps of the channel only Publish is seen.
LEMMA CaptureMakes ==
    ASSUME RecInv, Capture, RecorderUnchanged
    PROVE  Made!Publish \/ UNCHANGED Made!vars
  <1>1. /\ rec' = rec /\ start' = start /\ lastcoded' = lastcoded /\ last_saved' = last_saved
        /\ framesWritten' = framesWritten /\ framesDropped' = framesDropped
        /\ target' = target /\ stopper' = stopper /\ saved' = saved /\ frames' = frames
    BY DEF RecorderUnchanged, recording, coding, stopping
  <1>2. lastframe' \in {lastframe, lastframe + 1}
    BY GoodSteps DEF RecInv, Tick, GetBuffer, Transfer, Number, Publish
  <1>3. CASE lastframe' = lastframe
    BY <1>1, <1>3 DEF Made!vars
  <1>4. CASE lastframe' = lastframe + 1
    BY <1>1, <1>4 DEF Made!Publish
  <1> QED  BY <1>2, <1>3, <1>4

\* The frame at which the thread starts is in the ring, or ahead of it.
LEMMA StartMakes ==
    ASSUME RecInv, NEW n \in 0 .. MaxTick, Start(n)
    PROVE  Made!Start
  <1>1. /\ rec = "idle" /\ rec' = "loop"
        /\ start' = n /\ lastcoded' = n - 1 /\ last_saved' = n - 1
        /\ n >= lastframe - SearchLimit + 1
        /\ framesWritten' = framesWritten /\ framesDropped' = framesDropped
        /\ target' = target /\ stopper' = stopper /\ saved' = saved /\ lastframe' = lastframe /\ frames' = frames
    BY DEF Start, channel, vars, coding, stopping
  <1>2. SearchLimit \in 1 .. RingLen
    BY RingAssumption, StartAssumption DEF SearchLimit
  <1>3. lastframe \in Int
    BY ChannelFacts DEF RecInv
  <1>4. n > lastframe - RingLen /\ (n - 1) + 1 = n
    BY <1>1, <1>2, <1>3, RingAssumption
  <1> HIDE DEF SearchLimit
  <1> QED  BY <1>1, <1>4 DEF Made!Start

\* The end is asked for when Stop begins to read.
LEMMA StopMakes ==
    ASSUME RecInv, StopInv, StopSteps
    PROVE  Made!Ask \/ Made!Stop \/ UNCHANGED Made!vars
  <1>1. /\ rec' = rec /\ start' = start /\ lastcoded' = lastcoded /\ last_saved' = last_saved
        /\ framesWritten' = framesWritten /\ framesDropped' = framesDropped
        /\ saved' = saved /\ lastframe' = lastframe /\ frames' = frames
    BY DEF StopSteps, StopReadsWritten, StopReadsDropped, StopSetsTarget, channel, vars, recording, coding
  <1>2. /\ rec \in {"idle", "loop", "queue", "save", "finished?", "done"}
        /\ framesWritten \in Nat /\ framesDropped \in Nat /\ stopper \in StopRecords
    BY DEF RecInv, LoopTypes, StopInv
  <1>3. ASSUME NEW post_roll \in 0 .. MaxPostRoll, StopReadsWritten(post_roll) PROVE Made!Ask
    <2>1. /\ rec \notin {"idle", "done"} /\ stopper.asked = -1 /\ target' = target
          /\ stopper'.asked = framesWritten + framesDropped
      BY <1>3 DEF StopReadsWritten, NotStopped
    <2> QED  BY <1>1, <2>1 DEF Made!Ask, Made!Going
  <1>4. CASE StopReadsDropped
    <2>1. stopper'.asked = stopper.asked /\ target' = target
      BY <1>2, <1>4 DEF StopReadsDropped, StopRecords
    <2> QED  BY <1>1, <2>1 DEF Made!vars
  <1>5. CASE StopSetsTarget
    <2>1. /\ stopper.at = "target" /\ target' = AtLeast1(stopper.length)
          /\ stopper'.asked = stopper.asked
      BY <1>2, <1>5 DEF StopSetsTarget, StopRecords
    <2>2. rec \notin {"idle", "done"} /\ target = 0 /\ stopper.asked # -1
      BY <2>1 DEF StopInv
    <2>3. PICK post_roll \in 0 .. MaxPostRoll :
             /\ stopper.asked + post_roll <= stopper.length
             /\ stopper.length <= framesWritten + framesDropped + post_roll
      BY <2>1 DEF StopInv
    <2>4. target' \in Made!AtLeast1(stopper.asked + post_roll)
                        .. Made!AtLeast1(framesWritten + framesDropped + post_roll)
      BY <1>2, <2>1, <2>3, StartAssumption DEF AtLeast1, Made!AtLeast1, StopRecords
    <2> QED  BY <1>1, <2>1, <2>2, <2>4 DEF Made!Stop, Made!Going
  <1> QED  BY <1>3, <1>4, <1>5 DEF StopSteps

\* What the check of the backlog drops is what is more than the backlog allows.
LEMMA CheckBacklogMakes ==
    ASSUME RecInv, CheckBacklog
    PROVE  Made!Drop \/ UNCHANGED Made!vars
  <1> DEFINE waiting == lastframe - lastcoded
             drop == IF waiting > AllowedBacklog THEN waiting - AllowedBacklog ELSE 0
  <1>1. /\ rec = "loop" /\ rec' = "queue"
        /\ lastcoded' = lastcoded + drop /\ last_saved' = last_saved + drop
        /\ framesDropped' = framesDropped + drop
        /\ start' = start /\ framesWritten' = framesWritten /\ target' = target /\ stopper' = stopper
        /\ saved' = saved /\ lastframe' = lastframe /\ frames' = frames
    BY DEF CheckBacklog, channel, vars, coding, stopping
  <1>2. /\ lastframe \in Int /\ lastcoded \in Int /\ last_saved \in Int /\ framesDropped \in Int
        /\ RingLen \in Nat
    BY ChannelFacts, RingAssumption DEF RecInv, LoopTypes
  <1>3. CASE waiting > AllowedBacklog
    <2>1. drop = lastframe - lastcoded - (RingLen - 3) /\ drop > 0
      BY <1>2, <1>3 DEF AllowedBacklog
    <2> HIDE DEF drop
    <2>2. last_saved' + 1 = last_saved + 1 + drop
      BY <1>1, <1>2, <2>1
    <2> QED  BY <1>1, <2>1, <2>2 DEF Made!Drop
  <1>4. CASE ~(waiting > AllowedBacklog)
    <2>1. lastcoded' = lastcoded /\ last_saved' = last_saved /\ framesDropped' = framesDropped
      BY <1>1, <1>2, <1>4
    <2> QED  BY <1>1, <2>1 DEF Made!vars
  <1> QED  BY <1>3, <1>4

LEMMA QueueFrameMakes ==
    ASSUME RecInv, QueueFrame
    PROVE  Made!Queue
  <1>1. /\ rec = "queue" /\ rec' = "save" /\ lastcoded' = lastcoded + 1
        /\ start' = start /\ last_saved' = last_saved
        /\ framesWritten' = framesWritten /\ framesDropped' = framesDropped
        /\ target' = target /\ stopper' = stopper /\ saved' = saved /\ lastframe' = lastframe
        /\ DOMAIN frames' = DOMAIN frames \union {lastcoded + 1}
    BY DEF QueueFrame, channel, stopping, vars
  <1>2. lastcoded < lastframe
    BY <1>1, ChannelFacts, RingAssumption DEF RecInv, Turns, LoopTypes
  <1> QED  BY <1>1, <1>2 DEF Made!Queue

\* The frame written is the next in order; its picture and error are those of the
\* buffer, and the audio is that of the last frame queued.
LEMMA SaveFrameMakes ==
    ASSUME RecInv, FileInv, SaveFrame
    PROVE  Made!Write
  <1> DEFINE n == last_saved + 1
  <1>1. /\ rec = "save" /\ n \in DOMAIN frames /\ frames[n].coded
        /\ saved' = [frame |-> n, picture |-> frames[n].picture, audio |-> audio,
                     error |-> frames[n].error]
        /\ last_saved' = n /\ framesWritten' = framesWritten + 1
        /\ rec' = "finished?"
        /\ start' = start /\ lastcoded' = lastcoded /\ framesDropped' = framesDropped
        /\ target' = target /\ stopper' = stopper /\ lastframe' = lastframe
        /\ DOMAIN frames' = DOMAIN frames \ {n}
    BY DEF SaveFrame, NextIsCoded, stopping, channel, vars
  <1>2. /\ lastframe \in Int /\ n \in Nat /\ n <= lastcoded /\ lastcoded \in Int
        /\ frames[n].error \in BOOLEAN
    BY <1>1, ChannelFacts DEF RecInv, LoopTypes, Turns, BufferTypes, FrameRecords
  <1>3. frames[n].picture \in Made!Content(n)
    <2>1. Right(n, frames[n].picture)
      BY <1>1 DEF FileInv, BufferContent
    <2> QED  BY <1>2, <2>1, ContentOf
  <1>4. audio \in Made!Content(lastcoded)
    <2>1. Right(lastcoded, audio)
      BY <1>1 DEF FileInv, AudioContent
    <2> QED  BY <1>2, <2>1, ContentOf
  <1>5. frames[n].error \in IF Made!Overtaken(n) THEN BOOLEAN ELSE {FALSE}
    <2>1. frames[n].error => Gone(n)
      BY <1>1 DEF FileInv, BufferContent
    <2>2. frames[n].error => Made!Overtaken(n)
      BY <1>2, <2>1, ContentOf
    <2>3. CASE Made!Overtaken(n)
      BY <1>2, <2>3
    <2>4. CASE ~Made!Overtaken(n)
      <3>1. frames[n].error = FALSE
        BY <1>2, <2>2, <2>4, Zenon
      <3> QED  BY <2>4, <3>1, Zenon
    <2> QED  BY <2>3, <2>4
  <1>6. saved' \in [frame : {n}, picture : Made!Content(n), audio : Made!Content(lastcoded),
                    error : IF Made!Overtaken(n) THEN BOOLEAN ELSE {FALSE}]
    BY <1>1, <1>3, <1>4, <1>5
  <1>7. last_saved' + 1 = n + 1 /\ n <= lastcoded
    BY <1>1, <1>2
  <1> QED  BY <1>1, <1>6, <1>7 DEF Made!Write

\* The frame written last is the last one as soon as the recording has its frames.
LEMMA CheckFinishedMakes ==
    ASSUME RecInv, CheckFinished
    PROVE  Made!Decide
  BY DEF CheckFinished, Finished, coding, stopping, channel, vars, Made!Decide

\* Only its own start, stop, queueing, dropping and writing are seen of the
\* recorder: nothing of the encoder.
LEMMA RecNextMakes ==
    ASSUME RecInv, StopInv, FileInv, RecNext
    PROVE  Made!Next \/ UNCHANGED Made!vars
  <1>1. CASE rec # "done" /\ Capture /\ RecorderUnchanged
    BY <1>1, CaptureMakes DEF Made!Next
  <1>2. CASE CheckBacklog \/ QueueFrame \/ SaveFrame \/ CheckFinished
    BY <1>2, CheckBacklogMakes, QueueFrameMakes, SaveFrameMakes, CheckFinishedMakes DEF Made!Next
  <1>3. CASE SaveNoMore
    BY <1>3 DEF SaveNoMore, coding, stopping, channel, vars, Made!vars
  <1>4. CASE Control
    BY <1>4, StartMakes, StopMakes DEF Control, StopSteps, Made!Next
  <1>5. CASE MtEncoder
    <2>1. DOMAIN frames' = DOMAIN frames
      BY <1>5 DEF MtEncoder, GetFrame, Encode, Replace, SetError
    <2>2. UNCHANGED <<channel, recording, stopping, saved>>
      BY <1>5 DEF MtEncoder, GetFrame, Encode, Replace, SetError
    <2> QED  BY <2>1, <2>2 DEF recording, stopping, channel, vars, Made!vars
  <1> QED  BY <1>1, <1>2, <1>3, <1>4, <1>5 DEF RecNext, Record

\* The recorder makes the file RecordedFile promises: every frame from the start
\* on is written in order and once or counted as dropped, and its picture and
\* audio are what may pass for them, with an error noted only of a frame that the
\* capture process has overtaken.  (recorder_functions.cpp, MtEncoder.cpp, dvs_sdi.c)
THEOREM MakesRecordedFile == RecSpec => ImplementsRecordedFile
  <1>1. RecInv /\ StopInv /\ FileInv /\ [RecNext]_recVars => [Made!Next]_(Made!vars)
    <2> SUFFICES ASSUME RecInv, StopInv, FileInv, [RecNext]_recVars PROVE [Made!Next]_(Made!vars)
      OBVIOUS
    <2>1. CASE UNCHANGED recVars
      BY <2>1 DEF recVars, recording, coding, stopping, channel, vars, Made!vars
    <2> QED  BY <2>1, RecNextMakes
  <1> QED  BY <1>1, MadeInit, RecInvariance, FileInvHolds, PTL DEF RecSpec, Made!Spec, ImplementsRecordedFile
=============================================================================
