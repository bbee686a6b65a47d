--------------------------- MODULE CaptureChannel ---------------------------
(* studio/capture/dvs_sdi.c: one channel of the capture process, the thread  *)
(* sdi_monitor.  It puts every frame of the SDI input, or a black "dummy"    *)
(* frame while there is no signal, into a ring in shared memory, and         *)
(* publishes lastframe under the mutex m_lastframe.  Readers never lock a    *)
(* slot: they tell from the frame number in it whether it was overwritten.   *)
(*                                                                           *)
(* Time is counted in frames.  The timecode of a frame is the tick at which  *)
(* it was captured, so timecode_type, the master channel and the day's wrap  *)
(* are left out; a transferred picture is named by the tick too.             *)
EXTENDS Integers

CONSTANTS
    RingLen,    \* p_control->ringlen
    FifoDepth,  \* frames the capture card buffers
    GoodFrames, \* polls with good video that end an outage: 25 in the code
    MaxRecover, \* largest gap made good after an outage: 50 in the code
    MaxTick,    \* bound: the last tick
    MaxSleep,   \* bound: ticks that may pass from one poll to the next
    MaxLosses,  \* bound: signal losses and failed transfers
    Blank,      \* the picture of a slot never written
    NoVideo     \* no_video_frame, the picture of a dummy frame

ASSUME RingAssumption == RingLen \in Nat /\ RingLen >= 2
ASSUME CountAssumption ==
    /\ FifoDepth \in Nat \ {0} /\ GoodFrames \in Nat \ {0} /\ MaxRecover \in Nat
    /\ MaxTick \in Nat \ {0} /\ MaxSleep \in Nat /\ MaxLosses \in Nat
ASSUME PictureAssumption == Blank \notin Int /\ NoVideo \notin Int /\ Blank # NoVideo

VARIABLES
    now,       \* the tick
    taken,     \* the tick of the last frame that has left the card's fifo
    frame,     \* the tick of the frame in hand
    losses,    \* signal losses and failed transfers so far
    lastframe, \* NexusBufCtl.lastframe
    ring,      \* the slots: the picture and, of NexusFrameData, frame_number, the timecode, signal_ok
    capture,   \* program counter of sdi_monitor
    recover,   \* recover_from_video_loss
    good,      \* good_frames
    polled,    \* current_frame_tick
    tickLast,  \* tick_last_dummy_frame
    dummies,   \* num_dummy_frames
    made,      \* i, the dummy frames of this batch published so far
    unwritten, \* for the properties: frames in the ring published without a picture
    batched    \* for the properties: whether dummy frames were ever made several at a time

taking   == <<now, taken, frame, losses>>
polling  == <<good, polled, tickLast, dummies, made, batched>>
vars     == <<taking, lastframe, ring, capture, recover, polling, unwritten>>

Slots == 0 .. RingLen - 1
SlotOf(n) == n % RingLen
EmptySlot == [number |-> 0, picture |-> Blank, tc |-> 0, signal_ok |-> FALSE]

\* The published frames that are still in the ring whatever the writer does
\* to the slot of the next one.
Window(last) == {n \in last - RingLen + 2 .. last : n >= 0}

Init ==
    /\ now = 1 /\ taken = 0 /\ frame = 0 /\ losses = 0
    /\ lastframe = -1
    /\ ring = [s \in Slots |-> EmptySlot]
    /\ capture = "get" /\ recover = FALSE
    /\ good = 0 /\ polled = 0 /\ tickLast = -1 /\ dummies = 0 /\ made = 0
    /\ unwritten = {}
    /\ batched = FALSE

-----------------------------------------------------------------------------
(* write_picture *)

\* The fifo drops frames only when the thread is too far behind; with
\* SV_FIFO_FLAG_FLUSH the thread waits for a frame that is captured now.
FifoFrames ==
    IF recover THEN {now} \ {taken}
    ELSE {t \in taken + 1 .. now : t = taken + 1 \/ now - taken > FifoDepth}

\* Mutant: the number of the last frame is cleared, not that of the next
GetBufferOffByOne ==
    /\ capture = "get"
    /\ frame' \in FifoFrames /\ taken' = frame'
    /\ ring' = [ring EXCEPT ![SlotOf(lastframe + RingLen)].number = 0]
    /\ capture' = "transfer"
    /\ UNCHANGED <<now, losses, lastframe, recover, polling, unwritten>>

\* Mutant: the number of the next slot is left alone
GetBufferKeepsNumber ==
    /\ capture = "get"
    /\ frame' \in FifoFrames /\ taken' = frame'
    /\ capture' = "transfer"
    /\ UNCHANGED <<now, losses, lastframe, ring, recover, polling, unwritten>>

\* sv_fifo_getbuffer succeeds, and the frame number in the next slot is
\* cleared "to mark video as changed before we start to change it".
GetBuffer ==
    /\ capture = "get"
    /\ frame' \in FifoFrames /\ taken' = frame'
    /\ ring' = [ring EXCEPT ![SlotOf(lastframe + 1)].number = 0]
    /\ capture' = "transfer"
    /\ UNCHANGED <<now, losses, lastframe, recover, polling, unwritten>>

\* Mutant: good_frames keeps the count of the last outage
NoSignalKeepsCount ==
    /\ capture = "get" /\ now > taken
    /\ losses < MaxLosses /\ losses' = losses + 1
    /\ capture' = "poll"
    /\ tickLast' = -1 /\ polled' = now
    /\ UNCHANGED <<now, taken, frame, lastframe, ring, recover, good, dummies, made, batched, unwritten>>

\* sv_fifo_getbuffer finds no signal; wait_for_good_signal starts.
NoSignal ==
    /\ capture = "get" /\ now > taken
    /\ losses < MaxLosses /\ losses' = losses + 1
    /\ capture' = "poll"
    /\ good' = 0 /\ tickLast' = -1 /\ polled' = now
    /\ UNCHANGED <<now, taken, frame, lastframe, ring, recover, dummies, made, batched, unwritten>>

AfterTransfer == IF recover /\ lastframe > -1 THEN "recover" ELSE "number"

\* sv_fifo_putbuffer, and the conversion of the picture into the slot.
Transfer ==
    /\ capture = "transfer"
    /\ ring' = [ring EXCEPT ![SlotOf(lastframe + 1)].picture = frame]
    /\ capture' = AfterTransfer
    /\ UNCHANGED <<taking, lastframe, recover, polling, unwritten>>

\* sv_fifo_putbuffer fails: the fifo is restarted, and the frame published
\* with the picture that the slot happened to hold.
TransferFails ==
    /\ capture = "transfer"
    /\ losses < MaxLosses /\ losses' = losses + 1
    /\ unwritten' = unwritten \union {lastframe + 1}
    /\ taken' = now
    /\ capture' = AfterTransfer
    /\ UNCHANGED <<now, frame, lastframe, ring, recover, polling>>

\* Mutant: the frame in hand is counted as missing
MissingOffByOne == frame - ring[SlotOf(lastframe)].tc

\* The frames missing between the last frame and the one in hand.
Missing == frame - ring[SlotOf(lastframe)].tc - 1

\* The first picture after an outage goes to the number its timecode calls
\* for, "to avoid discontinuity", without the mutex; its data stays in the
\* slot it was transferred to.
Recover ==
    LET last == IF Missing > 0 /\ Missing <= MaxRecover THEN lastframe + Missing ELSE lastframe
        skipped == IF last # lastframe THEN lastframe + 1 .. last + 1 ELSE {}
    IN  /\ capture = "recover"
        /\ lastframe' = last
        /\ unwritten' = (unwritten \union skipped) \intersect (Window(last) \union {last + 1})
        /\ capture' = "number"
        /\ UNCHANGED <<taking, ring, recover, polling>>

\* The frame data, and last of it the frame number.
Number ==
    /\ capture = "number"
    /\ ring' = [ring EXCEPT ![SlotOf(lastframe + 1)] =
                   [@ EXCEPT !.tc = frame, !.signal_ok = TRUE, !.number = lastframe + 1]]
    /\ capture' = "publish"
    /\ UNCHANGED <<taking, lastframe, recover, polling, unwritten>>

\* Lock m_lastframe, increment, unlock: the frame is ready.
Publish ==
    /\ capture = "publish"
    /\ lastframe' = lastframe + 1
    /\ unwritten' = unwritten \intersect Window(lastframe + 1)
    /\ recover' = FALSE
    /\ capture' = "get"
    /\ UNCHANGED <<taking, ring, polling>>

-----------------------------------------------------------------------------
(* wait_for_good_signal and write_dummy_frames *)

\* Restart the fifo and go back to write_picture.
SignalBack ==
    /\ capture' = "get" /\ recover' = TRUE
    /\ taken' = now
    /\ UNCHANGED <<tickLast, dummies, made, batched>>

NumDummyFrames == IF tickLast = -1 THEN 1 ELSE now - tickLast

BeginDummies ==
    /\ IF NumDummyFrames > 0
       THEN capture' = "mark" /\ dummies' = NumDummyFrames /\ made' = 0
       ELSE capture' = "poll" /\ UNCHANGED <<dummies, made>>
    /\ batched' = (batched \/ NumDummyFrames > 1)
    /\ UNCHANGED <<taken, recover, tickLast>>

\* One turn of the polling loop, up to the first write to the ring.
Poll(videoin) ==
    /\ capture = "poll"
    /\ polled' = now
    /\ good' = IF videoin THEN good + 1 ELSE good
    /\ IF good' = GoodFrames THEN SignalBack ELSE BeginDummies
    /\ UNCHANGED <<now, frame, losses, lastframe, ring, unwritten>>

\* Here the new number goes in before the picture.
DummyMark ==
    /\ capture = "mark"
    /\ ring' = [ring EXCEPT ![SlotOf(lastframe + 1)].number = lastframe + 1]
    /\ capture' = "fill"
    /\ UNCHANGED <<taking, lastframe, recover, polling, unwritten>>

DummyFill ==
    /\ capture = "fill"
    /\ LET tc == IF made = 0 THEN polled ELSE ring[SlotOf(lastframe)].tc + 1
       IN  ring' = [ring EXCEPT ![SlotOf(lastframe + 1)] =
                       [@ EXCEPT !.picture = NoVideo, !.tc = tc, !.signal_ok = FALSE]]
    /\ capture' = "announce"
    /\ UNCHANGED <<taking, lastframe, recover, polling, unwritten>>

DummyPublish ==
    /\ capture = "announce"
    /\ lastframe' = lastframe + 1
    /\ unwritten' = unwritten \intersect Window(lastframe + 1)
    /\ tickLast' = polled - dummies + 1
    /\ made' = made + 1
    /\ capture' = IF made + 1 < dummies THEN "mark" ELSE "poll"
    /\ UNCHANGED <<taking, ring, recover, good, polled, dummies, batched>>

-----------------------------------------------------------------------------
InOutage == capture \in {"poll", "mark", "fill", "announce"}

Tick ==
    /\ now < MaxTick
    /\ InOutage => now - polled < MaxSleep
    /\ now' = now + 1
    /\ UNCHANGED <<taken, frame, losses, lastframe, ring, capture, recover, polling, unwritten>>

SdiMonitor ==
    \/ GetBuffer \/ NoSignal \/ Transfer \/ TransferFails \/ Recover \/ Number \/ Publish
    \/ \E videoin \in BOOLEAN : Poll(videoin)
    \/ DummyMark \/ DummyFill \/ DummyPublish

Next == Tick \/ SdiMonitor

Spec == Init /\ [][Next]_vars

-----------------------------------------------------------------------------
\* Every variable holds what its C type and the code's arithmetic allow; in
\* particular the counters of an outage stay within it.
TypeOK ==
    /\ now \in 1 .. MaxTick /\ taken \in 0 .. now /\ frame \in 0 .. now
    /\ losses \in 0 .. MaxLosses
    /\ lastframe \in Nat \union {-1}
    /\ ring \in [Slots -> [number : Nat, picture : 1 .. MaxTick \union {Blank, NoVideo},
                             tc : Nat, signal_ok : BOOLEAN]]
    /\ capture \in {"get", "transfer", "recover", "number", "publish",
                      "poll", "mark", "fill", "announce"}
    /\ recover \in BOOLEAN /\ batched \in BOOLEAN
    /\ good \in 0 .. GoodFrames /\ polled \in 0 .. now
    /\ tickLast \in -1 .. now
    /\ dummies \in Nat /\ made \in 0 .. dummies
    /\ unwritten \subseteq Window(lastframe) \union {lastframe + 1}

Bears(n) == ring[SlotOf(n)].number = n

\* What a published frame promises to the readers, which hold no lock: until
\* the writer turns to its slot, the slot bears its number and the picture
\* captured for it, or the black one and no signal.  It fails for the frames
\* skipped by a recovery, the recovered frame, whose picture went to another
\* slot, and a frame whose transfer failed: nothing in the ring tells these
\* apart.
PublishedIntact ==
    \A n \in Window(lastframe) \ unwritten :
        LET slot == ring[SlotOf(n)]
        IN  /\ Bears(n)
            /\ slot.picture = IF slot.signal_ok THEN slot.tc ELSE NoVideo

\* The numbering never runs ahead of the timecode: frames in the ring that
\* bear their number are at least as far apart in time as in number, across
\* outages and recoveries too.  While dummy frames come one at a time, that is:
\* after a batch of several, tickLast is the tick of its first and the next
\* batch makes some of them again.
TimecodeKeepsUp ==
    ~batched =>
        \A m, n \in {k \in Window(lastframe) : Bears(k)} :
            m < n => n - m <= ring[SlotOf(n)].tc - ring[SlotOf(m)].tc
=============================================================================
