------------------------ MODULE CaptureChannelProofs ------------------------
(* Theorems about CaptureChannel for any ring, fifo, limits and bounds, with *)
(* their proofs.                                                             *)
EXTENDS CaptureChannel, TLAPS

(* The ring.  Numbers less than a ring apart go to different slots, so the   *)
(* slot of the next frame is that of no frame in the window.                 *)

\* A positive multiple of a length is not less than the length.
LEMMA Multiple ==
    ASSUME NEW N \in Nat, NEW d \in Int, d > 0
    PROVE  N * d >= N
  OBVIOUS

\* SlotOf names a slot.
LEMMA SlotOfType == \A n \in Int : SlotOf(n) \in Slots
  BY RingAssumption DEF SlotOf, Slots

\* Two numbers less than a ring apart have different slots.
LEMMA SlotsApart ==
    ASSUME NEW n \in Int, NEW m \in Int, n < m, m < n + RingLen
    PROVE  SlotOf(n) # SlotOf(m)
  <1> DEFINE d == (m \div RingLen) - (n \div RingLen)
  <1>1. /\ n = RingLen * (n \div RingLen) + (n % RingLen)
        /\ m = RingLen * (m \div RingLen) + (m % RingLen)
    BY RingAssumption
  <1>2. m \div RingLen \in Int /\ n \div RingLen \in Int /\ n % RingLen \in Int
    BY RingAssumption
  <1>3. SUFFICES ASSUME n % RingLen = m % RingLen PROVE FALSE
    BY DEF SlotOf
  <1>4. m - n = RingLen * d
    BY <1>1, <1>2, <1>3, RingAssumption
  <1>5. d \in Int
    BY <1>2
  <1> HIDE DEF d
  <1>6. d > 0
    BY <1>4, <1>5, RingAssumption
  <1>7. RingLen * d >= RingLen
    BY <1>5, <1>6, Multiple, RingAssumption
  <1> QED  BY <1>4, <1>5, <1>7, RingAssumption

NextSlot == SlotOf(lastframe + 1)

SlotRecords == [number : Nat, picture : 1 .. MaxTick \union {Blank, NoVideo},
                tc : Nat, signal_ok : BOOLEAN]

\* The frames of the window are not in the slot of the next one.
LEMMA WriterApart ==
    ASSUME lastframe \in Nat \union {-1}, NEW n \in Window(lastframe)
    PROVE  /\ n \in Nat /\ n <= lastframe
           /\ SlotOf(n) \in Slots /\ NextSlot \in Slots
           /\ SlotOf(n) # NextSlot
  <1>1. n \in Int /\ n < lastframe + 1 /\ lastframe + 1 < n + RingLen /\ n >= 0
    BY RingAssumption DEF Window
  <1>2. SlotOf(n) # SlotOf(lastframe + 1)
    BY <1>1, SlotsApart
  <1> QED  BY <1>1, <1>2, SlotOfType DEF NextSlot

\* When a frame is published the window gains it and no other.
LEMMA WindowMoves ==
    ASSUME NEW last \in Nat \union {-1}
    PROVE  /\ Window(last + 1) \subseteq Window(last) \union {last + 1}
           /\ last + 1 \in Window(last + 1)
           /\ last >= 0 => last \in Window(last)
  BY RingAssumption DEF Window

\* When numbers are skipped it gains those.
LEMMA WindowSkips ==
    ASSUME NEW last \in Nat \union {-1}, NEW k \in Nat, NEW n \in Window(last + k)
    PROVE  n \in Window(last) \/ n \in last + 1 .. last + k
  BY RingAssumption DEF Window

\* Writing a slot.
LEMMA RingUpdate ==
    ASSUME ring \in [Slots -> SlotRecords], NEW s \in Slots, NEW slot \in SlotRecords,
           ring' = [ring EXCEPT ![s] = slot]
    PROVE  /\ ring' \in [Slots -> SlotRecords]
           /\ ring'[s] = slot
           /\ \A u \in Slots \ {s} : ring'[u] = ring[u]
  OBVIOUS
-----------------------------------------------------------------------------
(* The inductive invariant. *)

Writing == {"transfer", "recover", "number", "publish"}
MakingDummies == {"mark", "fill", "announce"}

\* What the variables of the thread are at its steps.
Phases ==
    /\ capture \in Writing => 1 <= frame /\ frame <= taken
    /\ capture = "recover" => lastframe >= 0
    /\ InOutage => good < GoodFrames
    /\ capture = "poll" /\ tickLast = -1 => now > taken
    /\ capture \in MakingDummies =>
          /\ made < dummies /\ dummies <= polled + 1
          /\ ~batched => dummies = 1

\* No slot bears a number that has not been published, except that of the frame
\* in hand, and 0; and the last frame published bears its own.
Numbers ==
    /\ \A s \in Slots :
          \/ ring[s].number = 0 \/ ring[s].number <= lastframe
          \/ capture \in {"publish", "fill", "announce"} /\ s = NextSlot
    /\ lastframe >= 0 /\ capture \notin {"number", "publish"} => Bears(lastframe)

\* The frame in hand, in the slot of the next number.
InHand ==
    LET slot == ring[NextSlot]
    IN  /\ capture \in {"recover", "number", "publish"} /\ lastframe + 1 \notin unwritten
              => slot.picture = frame
        /\ capture = "publish" =>
              slot.number = lastframe + 1 /\ slot.signal_ok = TRUE /\ slot.tc = frame
        /\ capture \in {"fill", "announce"} => slot.number = lastframe + 1
        /\ capture = "announce" =>
              /\ slot.picture = NoVideo /\ slot.signal_ok = FALSE
              /\ ~batched => slot.tc = polled

\* The frame that was the latest, and the one in hand, are as far from those in
\* the ring in time as in number.
Latest == IF capture = "poll" /\ tickLast # -1 THEN tickLast ELSE taken
InStep ==
    ~batched =>
        \A m \in Window(lastframe) : Bears(m) =>
            /\ capture \in {"get", "poll"} => lastframe - m <= Latest - ring[SlotOf(m)].tc
            /\ capture \in Writing => lastframe + 1 - m <= frame - ring[SlotOf(m)].tc
            /\ capture \in MakingDummies => lastframe + 1 - m <= polled - ring[SlotOf(m)].tc

IInv ==
    /\ TypeOK /\ Phases
    /\ Numbers /\ InHand /\ PublishedIntact
    /\ InStep /\ TimecodeKeepsUp

\* A write to the slot of the next frame leaves every frame of the window be.
LEMMA WindowKept ==
    ASSUME TypeOK,
           \A u \in Slots \ {NextSlot} : ring'[u] = ring[u]
    PROVE  \A n \in Window(lastframe) : ring'[SlotOf(n)] = ring[SlotOf(n)]
  <1>1. lastframe \in Nat \union {-1}
    BY DEF TypeOK
  <1>2. TAKE n \in Window(lastframe)
  <1>3. SlotOf(n) \in Slots \ {NextSlot}
    BY <1>1, <1>2, WriterApart
  <1> QED  BY <1>3

\* The window holds published frames, the last of them among these.
LEMMA WindowNumbers ==
    ASSUME TypeOK
    PROVE  /\ lastframe \in Int /\ lastframe >= -1
           /\ \A n \in Window(lastframe) : n \in Nat /\ n <= lastframe /\ SlotOf(n) \in Slots
           /\ lastframe >= 0 => lastframe \in Window(lastframe)
           /\ NextSlot \in Slots
           /\ \A n \in Window(lastframe) : SlotOf(n) # NextSlot
  <1>1. lastframe \in Nat \union {-1}
    BY DEF TypeOK
  <1>2. NextSlot \in Slots
    BY <1>1, SlotOfType DEF NextSlot
  <1> QED  BY <1>1, <1>2, WriterApart, WindowMoves

\* So such a write keeps what is said of the window.
LEMMA WriteKeepsWindow ==
    ASSUME TypeOK, PublishedIntact, TimecodeKeepsUp,
           \A u \in Slots \ {NextSlot} : ring'[u] = ring[u],
           lastframe' = lastframe, unwritten' = unwritten, batched' = batched
    PROVE  PublishedIntact' /\ TimecodeKeepsUp'
  <1>1. \A n \in Window(lastframe) : ring'[SlotOf(n)] = ring[SlotOf(n)]
    BY WindowKept
  <1>2. PublishedIntact'
    BY <1>1 DEF PublishedIntact, Bears
  <1>3. TimecodeKeepsUp'
    BY <1>1 DEF TimecodeKeepsUp, Bears
  <1> QED  BY <1>2, <1>3

\* The parts of TypeOK, by the variables they are about.
TickTypes ==
    /\ now \in 1 .. MaxTick /\ taken \in 0 .. now /\ frame \in 0 .. now
    /\ losses \in 0 .. MaxLosses
ThreadTypes ==
    /\ capture \in {"get", "transfer", "recover", "number", "publish",
                      "poll", "mark", "fill", "announce"}
    /\ recover \in BOOLEAN /\ batched \in BOOLEAN
    /\ good \in 0 .. GoodFrames /\ polled \in 0 .. now
    /\ tickLast \in -1 .. now
    /\ dummies \in Nat /\ made \in 0 .. dummies
RingTypes ==
    /\ lastframe \in Nat \union {-1}
    /\ ring \in [Slots -> SlotRecords]
    /\ unwritten \subseteq Window(lastframe) \union {lastframe + 1}

LEMMA TypeParts == TypeOK <=> TickTypes /\ ThreadTypes /\ RingTypes
  BY DEF TypeOK, TickTypes, ThreadTypes, RingTypes, SlotRecords

LEMMA TypePartsPrime == TypeOK' <=> TickTypes' /\ ThreadTypes' /\ RingTypes'
  BY DEF TypeOK, TickTypes, ThreadTypes, RingTypes, SlotRecords

\* The initial states satisfy the invariant.
LEMMA InitHolds == Init => IInv
  <1> SUFFICES ASSUME Init PROVE IInv
    OBVIOUS
  <1>1. /\ now = 1 /\ taken = 0 /\ frame = 0 /\ losses = 0 /\ lastframe = -1
        /\ capture = "get" /\ recover = FALSE /\ batched = FALSE
        /\ good = 0 /\ polled = 0 /\ tickLast = -1 /\ dummies = 0 /\ made = 0
        /\ unwritten = {}
    BY DEF Init
  <1>2. ring = [s \in Slots |-> EmptySlot]
    BY DEF Init
  <1>3. EmptySlot \in SlotRecords /\ EmptySlot.number = 0
    BY DEF EmptySlot, SlotRecords
  <1>4. ring \in [Slots -> SlotRecords] /\ \A s \in Slots : ring[s].number = 0
    BY <1>2, <1>3
  <1>5. Window(-1) = {}
    BY DEF Window
  <1>6. TypeOK
    <2>1. TickTypes
      BY <1>1, CountAssumption DEF TickTypes
    <2>2. ThreadTypes
      <3>1. recover \in BOOLEAN /\ batched \in BOOLEAN
        BY <1>1, Zenon
      <3>2. good \in 0 .. GoodFrames /\ polled \in 0 .. now /\ tickLast \in -1 .. now
        BY <1>1, CountAssumption
      <3> QED  BY <1>1, <3>1, <3>2 DEF ThreadTypes
    <2>3. RingTypes
      BY <1>1, <1>4, <1>5 DEF RingTypes
    <2> QED  BY <2>1, <2>2, <2>3, TypeParts
  <1>7. Phases /\ Numbers /\ InHand
    BY <1>1, <1>4 DEF Phases, Numbers, InHand, Writing, MakingDummies, InOutage
  <1>8. PublishedIntact /\ InStep /\ TimecodeKeepsUp
    BY <1>1, <1>5 DEF PublishedIntact, InStep, TimecodeKeepsUp
  <1> QED  BY <1>6, <1>7, <1>8 DEF IInv

\* sv_fifo_getbuffer, and the number of the next slot cleared.
LEMMA GetBufferKeeps == IInv /\ GetBuffer => IInv'
  <1> SUFFICES ASSUME IInv, GetBuffer PROVE IInv'
    OBVIOUS
  <1>1. TypeOK /\ Phases /\ Numbers /\ InHand /\ PublishedIntact /\ InStep /\ TimecodeKeepsUp
    BY DEF IInv
  <1>2. TickTypes /\ ThreadTypes /\ RingTypes
    BY <1>1, TypeParts
  <1>3. /\ capture = "get" /\ capture' = "transfer"
        /\ now' = now /\ losses' = losses /\ lastframe' = lastframe /\ recover' = recover
        /\ good' = good /\ polled' = polled /\ tickLast' = tickLast
        /\ dummies' = dummies /\ made' = made /\ batched' = batched /\ unwritten' = unwritten
    BY DEF GetBuffer, polling
  <1>4. frame' \in taken + 1 .. now /\ taken' = frame'
    BY <1>2 DEF GetBuffer, FifoFrames, TickTypes
  <1>5. ring' = [ring EXCEPT ![NextSlot] = [ring[NextSlot] EXCEPT !.number = 0]]
    BY DEF GetBuffer, NextSlot
  <1>6. /\ ring' \in [Slots -> SlotRecords] /\ ring'[NextSlot].number = 0
        /\ \A u \in Slots \ {NextSlot} : ring'[u] = ring[u]
    <2>1. ring[NextSlot] \in SlotRecords
      BY <1>1, <1>2, WindowNumbers DEF RingTypes
    <2>2. /\ [ring[NextSlot] EXCEPT !.number = 0] \in SlotRecords
          /\ [ring[NextSlot] EXCEPT !.number = 0].number = 0
      BY <2>1 DEF SlotRecords
    <2> QED  BY <1>1, <1>2, <1>5, <2>2, WindowNumbers, RingUpdate DEF RingTypes
  <1>7. \A n \in Window(lastframe) : ring'[SlotOf(n)] = ring[SlotOf(n)]
    BY <1>1, <1>6, WindowKept
  <1>8. TypeOK'
    BY <1>2, <1>3, <1>4, <1>6, TypePartsPrime DEF TickTypes, ThreadTypes, RingTypes
  <1>9. Phases'
    BY <1>1, <1>2, <1>3, <1>4 DEF Phases, TickTypes, InOutage, Writing, MakingDummies
  <1>10. Numbers'
    BY <1>1, <1>3, <1>6, <1>7, WindowNumbers DEF Numbers, Bears
  <1>11. InHand'
    BY <1>3 DEF InHand
  <1>12. PublishedIntact' /\ TimecodeKeepsUp'
    BY <1>1, <1>3, <1>6, WriteKeepsWindow
  <1>13. InStep'
    BY <1>1, <1>2, <1>3, <1>4, <1>6, <1>7, WindowNumbers
       DEF InStep, Bears, Latest, Writing, MakingDummies, TickTypes, RingTypes, SlotRecords
  <1> QED  BY <1>8, <1>9, <1>10, <1>11, <1>12, <1>13 DEF IInv

\* No signal: wait_for_good_signal starts.
LEMMA NoSignalKeeps == IInv /\ NoSignal => IInv'
  <1> SUFFICES ASSUME IInv, NoSignal PROVE IInv'
    OBVIOUS
  <1>1. TypeOK /\ Phases /\ Numbers /\ InHand /\ PublishedIntact /\ InStep /\ TimecodeKeepsUp
    BY DEF IInv
  <1>2. TickTypes /\ ThreadTypes /\ RingTypes
    BY <1>1, TypeParts
  <1>3. /\ capture = "get" /\ capture' = "poll" /\ now > taken
        /\ losses < MaxLosses /\ losses' = losses + 1
        /\ good' = 0 /\ tickLast' = -1 /\ polled' = now
    BY DEF NoSignal
  <1>4. UNCHANGED <<now, taken, frame, lastframe, ring, recover, dummies, made, batched, unwritten>>
    BY DEF NoSignal
  <1>5. TypeOK'
    <2>1. TickTypes'
      BY <1>2, <1>3, <1>4, CountAssumption DEF TickTypes
    <2>2. good' \in 0 .. GoodFrames /\ polled' \in 0 .. now' /\ tickLast' \in -1 .. now'
      BY <1>2, <1>3, <1>4, CountAssumption DEF TickTypes
    <2>3. ThreadTypes'
      BY <1>2, <1>3, <1>4, <2>2 DEF ThreadTypes
    <2>4. RingTypes'
      BY <1>2, <1>4 DEF RingTypes
    <2> QED  BY <2>1, <2>3, <2>4, TypePartsPrime
  <1>6. Phases'
    BY <1>1, <1>2, <1>3, <1>4, CountAssumption DEF Phases, TickTypes, ThreadTypes, InOutage, Writing, MakingDummies
  <1>7. Numbers'
    BY <1>1, <1>3, <1>4 DEF Numbers, Bears, NextSlot
  <1>8. InHand'
    BY <1>3 DEF InHand
  <1>9. PublishedIntact' /\ TimecodeKeepsUp'
    BY <1>1, <1>4 DEF PublishedIntact, TimecodeKeepsUp, Bears
  <1>10. InStep'
    BY <1>1, <1>2, <1>3, <1>4 DEF InStep, Bears, Latest, Writing, MakingDummies, TickTypes, ThreadTypes, RingTypes, SlotRecords
  <1> QED  BY <1>5, <1>6, <1>7, <1>8, <1>9, <1>10 DEF IInv

\* The picture goes to the slot of the next frame.
LEMMA TransferKeeps == IInv /\ Transfer => IInv'
  <1> SUFFICES ASSUME IInv, Transfer PROVE IInv'
    OBVIOUS
  <1>1. TypeOK /\ Phases /\ Numbers /\ InHand /\ PublishedIntact /\ InStep /\ TimecodeKeepsUp
    BY DEF IInv
  <1>2. TickTypes /\ ThreadTypes /\ RingTypes
    BY <1>1, TypeParts
  <1>3. capture = "transfer" /\ capture' \in {"recover", "number"}
    BY DEF Transfer, AfterTransfer
  <1>4. capture' = "recover" => lastframe >= 0
    BY <1>2 DEF Transfer, AfterTransfer, RingTypes
  <1>5. /\ now' = now /\ taken' = taken /\ frame' = frame /\ losses' = losses
        /\ lastframe' = lastframe /\ recover' = recover
        /\ good' = good /\ polled' = polled /\ tickLast' = tickLast
        /\ dummies' = dummies /\ made' = made /\ batched' = batched /\ unwritten' = unwritten
    BY DEF Transfer, taking, polling
  <1>6. /\ ring' \in [Slots -> SlotRecords]
        /\ ring'[NextSlot].number = ring[NextSlot].number /\ ring'[NextSlot].picture = frame
        /\ \A u \in Slots \ {NextSlot} : ring'[u] = ring[u]
    <2>1. ring' = [ring EXCEPT ![NextSlot] = [ring[NextSlot] EXCEPT !.picture = frame]]
      BY DEF Transfer, NextSlot
    <2>2. ring[NextSlot] \in SlotRecords
      BY <1>1, <1>2, WindowNumbers DEF RingTypes
    <2>3. frame \in 1 .. MaxTick
      BY <1>1, <1>2, <1>3, CountAssumption DEF Phases, Writing, TickTypes
    <2>4. /\ [ring[NextSlot] EXCEPT !.picture = frame] \in SlotRecords
          /\ [ring[NextSlot] EXCEPT !.picture = frame].number = ring[NextSlot].number
          /\ [ring[NextSlot] EXCEPT !.picture = frame].picture = frame
      BY <2>2, <2>3 DEF SlotRecords
    <2> QED  BY <1>1, <1>2, <2>1, <2>4, WindowNumbers, RingUpdate DEF RingTypes
  <1>7. \A n \in Window(lastframe) : ring'[SlotOf(n)] = ring[SlotOf(n)]
    BY <1>1, <1>6, WindowKept
  <1>8. TypeOK'
    BY <1>2, <1>3, <1>5, <1>6, TypePartsPrime DEF TickTypes, ThreadTypes, RingTypes
  <1>9. Phases'
    BY <1>1, <1>2, <1>3, <1>4, <1>5 DEF Phases, TickTypes, ThreadTypes, InOutage, Writing, MakingDummies
  <1>10. Numbers'
    BY <1>1, <1>3, <1>5, <1>6, <1>7, WindowNumbers DEF Numbers, Bears
  <1>11. InHand'
    BY <1>3, <1>5, <1>6 DEF InHand, NextSlot
  <1>12. PublishedIntact' /\ TimecodeKeepsUp'
    BY <1>1, <1>5, <1>6, WriteKeepsWindow
  <1>13. InStep'
    BY <1>1, <1>3, <1>5, <1>7 DEF InStep, Bears, Writing, MakingDummies
  <1> QED  BY <1>8, <1>9, <1>10, <1>11, <1>12, <1>13 DEF IInv

\* The transfer fails: the frame will be published without its picture.
LEMMA TransferFailsKeeps == IInv /\ TransferFails => IInv'
  <1> SUFFICES ASSUME IInv, TransferFails PROVE IInv'
    OBVIOUS
  <1>1. TypeOK /\ Phases /\ Numbers /\ InHand /\ PublishedIntact /\ InStep /\ TimecodeKeepsUp
    BY DEF IInv
  <1>2. TickTypes /\ ThreadTypes /\ RingTypes
    BY <1>1, TypeParts
  <1>3. capture = "transfer" /\ capture' \in {"recover", "number"}
    BY DEF TransferFails, AfterTransfer
  <1>4. capture' = "recover" => lastframe >= 0
    BY <1>2 DEF TransferFails, AfterTransfer, RingTypes
  <1>5. /\ losses < MaxLosses /\ losses' = losses + 1
        /\ unwritten' = unwritten \union {lastframe + 1} /\ taken' = now
    BY DEF TransferFails
  <1>6. /\ now' = now /\ frame' = frame /\ lastframe' = lastframe /\ ring' = ring
        /\ recover' = recover /\ good' = good /\ polled' = polled /\ tickLast' = tickLast
        /\ dummies' = dummies /\ made' = made /\ batched' = batched
    BY DEF TransferFails, polling
  <1>7. TypeOK'
    <2>1. TickTypes'
      BY <1>2, <1>5, <1>6, CountAssumption DEF TickTypes
    <2>2. ThreadTypes'
      BY <1>2, <1>3, <1>6 DEF ThreadTypes
    <2>3. RingTypes'
      BY <1>2, <1>5, <1>6 DEF RingTypes
    <2> QED  BY <2>1, <2>2, <2>3, TypePartsPrime
  <1>8. Phases'
    BY <1>1, <1>2, <1>3, <1>4, <1>5, <1>6 DEF Phases, TickTypes, ThreadTypes, InOutage, Writing, MakingDummies
  <1>9. Numbers'
    BY <1>1, <1>3, <1>6 DEF Numbers, Bears, NextSlot
  <1>10. InHand'
    BY <1>3, <1>5, <1>6 DEF InHand
  <1>11. PublishedIntact' /\ TimecodeKeepsUp'
    BY <1>1, <1>5, <1>6 DEF PublishedIntact, TimecodeKeepsUp, Bears
  <1>12. InStep'
    BY <1>1, <1>3, <1>6 DEF InStep, Bears, Writing, MakingDummies
  <1> QED  BY <1>7, <1>8, <1>9, <1>10, <1>11, <1>12 DEF IInv

\* The number skips the frames missing.  None of the numbers skipped is in the
\* ring, and the last frame published is, so the timecode keeps up.
LEMMA RecoverKeeps == IInv /\ Recover => IInv'
  <1> SUFFICES ASSUME IInv, Recover PROVE IInv'
    OBVIOUS
  <1>1. TypeOK /\ Phases /\ Numbers /\ InHand /\ PublishedIntact /\ InStep /\ TimecodeKeepsUp
    BY DEF IInv
  <1>2. TickTypes /\ ThreadTypes /\ RingTypes
    BY <1>1, TypeParts
  <1> DEFINE skip == IF Missing > 0 /\ Missing <= MaxRecover THEN Missing ELSE 0
  <1>3. capture = "recover" /\ capture' = "number" /\ lastframe >= 0 /\ lastframe \in Nat
    BY <1>1, <1>2 DEF Recover, Phases, RingTypes
  <1>4. /\ now' = now /\ taken' = taken /\ frame' = frame /\ losses' = losses /\ ring' = ring
        /\ recover' = recover /\ good' = good /\ polled' = polled /\ tickLast' = tickLast
        /\ dummies' = dummies /\ made' = made /\ batched' = batched
    BY DEF Recover, taking, polling
  <1>5. lastframe \in Window(lastframe) /\ SlotOf(lastframe) \in Slots /\ Bears(lastframe)
    BY <1>1, <1>3, WindowNumbers DEF Numbers
  <1>6. ring[SlotOf(lastframe)].tc \in Nat /\ frame \in Nat
    BY <1>2, <1>5 DEF RingTypes, SlotRecords, TickTypes
  <1>7. /\ skip \in Nat
        /\ skip > 0 => skip = frame - ring[SlotOf(lastframe)].tc - 1
    BY <1>6 DEF Missing
  <1>8. lastframe' = lastframe + skip
    BY <1>3, <1>6 DEF Recover, Missing
  <1>9. /\ skip = 0 => unwritten' = unwritten
        /\ skip > 0 => unwritten' = (unwritten \union (lastframe + 1 .. lastframe' + 1))
                                      \intersect (Window(lastframe') \union {lastframe' + 1})
    <2>1. CASE skip = 0
      <3>1. unwritten' = unwritten \intersect (Window(lastframe) \union {lastframe + 1})
        BY <1>3, <1>6, <1>7, <2>1 DEF Recover, Missing
      <3> QED  BY <1>2, <2>1, <3>1 DEF RingTypes
    <2>2. CASE skip > 0
      <3>1. Missing > 0 /\ Missing <= MaxRecover /\ skip = Missing
        BY <1>7, <2>2
      <3>2. lastframe + Missing # lastframe
        BY <1>3, <1>6, <3>1 DEF Missing
      <3> QED  BY <1>8, <2>2, <3>1, <3>2 DEF Recover
    <2> QED  BY <1>7, <2>1, <2>2
  <1> HIDE DEF skip
  <1>10. /\ \A n \in Window(lastframe') : n \in Window(lastframe) \/ n \in lastframe + 1 .. lastframe'
         /\ \A n \in Window(lastframe') : n \in Nat
    <2>1. \A n \in Window(lastframe') : n \in Window(lastframe) \/ n \in lastframe + 1 .. lastframe + skip
      BY <1>3, <1>7, <1>8, WindowSkips
    <2>2. \A n \in Window(lastframe') : n \in Nat
      BY <1>3, <1>7, <1>8, RingAssumption DEF Window
    <2> QED  BY <1>8, <2>1, <2>2
  <1>11. \A n \in Window(lastframe') : Bears(n) => n \in Window(lastframe)
    <2> SUFFICES ASSUME NEW n \in Window(lastframe'), Bears(n), n \in lastframe + 1 .. lastframe'
                 PROVE FALSE
      BY <1>10
    <2>1. n \in Nat /\ n > lastframe /\ n # 0
      BY <1>3, <1>7, <1>8
    <2>2. SlotOf(n) \in Slots
      BY <2>1, SlotOfType
    <2> QED  BY <1>1, <1>2, <1>3, <2>1, <2>2 DEF Numbers, Bears, RingTypes, SlotRecords
  <1>12. TypeOK'
    <2>1. TickTypes'
      BY <1>2, <1>4 DEF TickTypes
    <2>2. ThreadTypes'
      BY <1>2, <1>3, <1>4 DEF ThreadTypes
    <2>3. unwritten' \subseteq Window(lastframe') \union {lastframe' + 1}
      <3>1. CASE skip = 0
        BY <1>2, <1>3, <1>8, <1>9, <3>1 DEF RingTypes
      <3>2. CASE skip > 0
        BY <1>9, <3>2
      <3> QED  BY <1>7, <3>1, <3>2
    <2>4. RingTypes'
      BY <1>2, <1>3, <1>4, <1>7, <1>8, <2>3 DEF RingTypes
    <2> QED  BY <2>1, <2>2, <2>4, TypePartsPrime
  <1>13. Phases'
    BY <1>1, <1>2, <1>3, <1>4 DEF Phases, TickTypes, ThreadTypes, InOutage, Writing, MakingDummies
  <1>14. Numbers'
    BY <1>1, <1>2, <1>3, <1>4, <1>7, <1>8 DEF Numbers, RingTypes, SlotRecords
  <1>15. InHand'
    <2>1. CASE skip = 0
      BY <1>1, <1>3, <1>4, <1>8, <1>9, <2>1 DEF InHand, NextSlot
    <2>2. CASE skip > 0
      <3>1. lastframe' + 1 \in unwritten'
        BY <1>3, <1>7, <1>8, <1>9, <2>2
      <3> QED  BY <1>3, <3>1 DEF InHand
    <2> QED  BY <1>7, <2>1, <2>2
  <1>16. PublishedIntact'
    <2>1. \A n \in Window(lastframe') \ unwritten' : n \in Window(lastframe) \ unwritten
      <3>1. CASE skip = 0
        BY <1>3, <1>8, <1>9, <3>1
      <3>2. CASE skip > 0
        <4>1. \A n \in lastframe + 1 .. lastframe' : n \in lastframe + 1 .. lastframe' + 1
          BY <1>3, <1>7, <1>8
        <4> QED  BY <1>9, <1>10, <3>2, <4>1
      <3> QED  BY <1>7, <3>1, <3>2
    <2> QED  BY <1>1, <1>4, <2>1 DEF PublishedIntact, Bears
  <1>17. TimecodeKeepsUp'
    BY <1>1, <1>4, <1>11 DEF TimecodeKeepsUp, Bears
  <1>18. InStep'
    <2> SUFFICES ASSUME ~batched, NEW m \in Window(lastframe'), Bears(m)
                 PROVE  lastframe' + 1 - m <= frame - ring[SlotOf(m)].tc
      BY <1>3, <1>4 DEF InStep, Bears, Writing, MakingDummies
    <2>1. m \in Window(lastframe) /\ m \in Nat /\ m <= lastframe /\ SlotOf(m) \in Slots
      BY <1>1, <1>11, WindowNumbers
    <2>2. ring[SlotOf(m)].tc \in Nat
      BY <1>2, <2>1 DEF RingTypes, SlotRecords
    <2>3. CASE skip = 0
      BY <1>1, <1>3, <1>8, <2>1, <2>3 DEF InStep, Bears, Writing
    <2>4. CASE skip > 0
      <3>1. lastframe - m <= ring[SlotOf(lastframe)].tc - ring[SlotOf(m)].tc
        <4>1. CASE m = lastframe
          BY <1>3, <1>6, <4>1
        <4>2. CASE m < lastframe
          BY <1>1, <1>5, <2>1, <4>2 DEF TimecodeKeepsUp
        <4> QED  BY <1>3, <2>1, <4>1, <4>2
      <3> QED  BY <1>3, <1>6, <1>7, <1>8, <2>1, <2>2, <2>4, <3>1
    <2> QED  BY <1>7, <2>3, <2>4
  <1> QED  BY <1>12, <1>13, <1>14, <1>15, <1>16, <1>17, <1>18 DEF IInv

\* The frame data and the frame number are written.
LEMMA NumberKeeps == IInv /\ Number => IInv'
  <1> SUFFICES ASSUME IInv, Number PROVE IInv'
    OBVIOUS
  <1>1. TypeOK /\ Phases /\ Numbers /\ InHand /\ PublishedIntact /\ InStep /\ TimecodeKeepsUp
    BY DEF IInv
  <1>2. TickTypes /\ ThreadTypes /\ RingTypes
    BY <1>1, TypeParts
  <1>3. capture = "number" /\ capture' = "publish"
    BY DEF Number
  <1>4. /\ now' = now /\ taken' = taken /\ frame' = frame /\ losses' = losses
        /\ lastframe' = lastframe /\ recover' = recover
        /\ good' = good /\ polled' = polled /\ tickLast' = tickLast
        /\ dummies' = dummies /\ made' = made /\ batched' = batched /\ unwritten' = unwritten
    BY DEF Number, taking, polling
  <1>5. /\ ring' \in [Slots -> SlotRecords]
        /\ ring'[NextSlot].number = lastframe + 1
        /\ ring'[NextSlot].signal_ok = TRUE
        /\ ring'[NextSlot].tc = frame
        /\ ring'[NextSlot].picture = ring[NextSlot].picture
        /\ \A u \in Slots \ {NextSlot} : ring'[u] = ring[u]
    <2>1. ring' = [ring EXCEPT ![NextSlot] = [ring[NextSlot] EXCEPT !.tc = frame, !.signal_ok = TRUE, !.number = lastframe + 1]]
      BY DEF Number, NextSlot
    <2>2. ring[NextSlot] \in SlotRecords
      BY <1>1, <1>2, WindowNumbers DEF RingTypes
    <2>3. frame \in Nat /\ lastframe + 1 \in Nat
      BY <1>2 DEF TickTypes, RingTypes
    <2>4. /\ [ring[NextSlot] EXCEPT !.tc = frame, !.signal_ok = TRUE, !.number = lastframe + 1] \in SlotRecords
          /\ [ring[NextSlot] EXCEPT !.tc = frame, !.signal_ok = TRUE, !.number = lastframe + 1].number = lastframe + 1
          /\ [ring[NextSlot] EXCEPT !.tc = frame, !.signal_ok = TRUE, !.number = lastframe + 1].signal_ok = TRUE
          /\ [ring[NextSlot] EXCEPT !.tc = frame, !.signal_ok = TRUE, !.number = lastframe + 1].tc = frame
          /\ [ring[NextSlot] EXCEPT !.tc = frame, !.signal_ok = TRUE, !.number = lastframe + 1].picture = ring[NextSlot].picture
      BY <2>2, <2>3 DEF SlotRecords
    <2> QED  BY <1>1, <1>2, <2>1, <2>4, WindowNumbers, RingUpdate DEF RingTypes
  <1>6. \A n \in Window(lastframe) : ring'[SlotOf(n)] = ring[SlotOf(n)]
    BY <1>1, <1>5, WindowKept
  <1>7. TypeOK'
    BY <1>2, <1>3, <1>4, <1>5, TypePartsPrime DEF TickTypes, ThreadTypes, RingTypes
  <1>8. Phases'
    BY <1>1, <1>2, <1>3, <1>4 DEF Phases, TickTypes, ThreadTypes, InOutage, Writing, MakingDummies
  <1>9. Numbers'
    <2>1. \A s \in Slots \ {NextSlot} : ring'[s].number = 0 \/ ring'[s].number <= lastframe
      BY <1>1, <1>3, <1>5 DEF Numbers
    <2>2. NextSlot' = NextSlot
      BY <1>4 DEF NextSlot
    <2>3. lastframe >= 0 /\ capture \notin {"number", "publish"} => Bears(lastframe)'
      BY <1>1, <1>4, <1>6, WindowNumbers DEF Numbers, Bears
    <2> QED  BY <1>3, <1>4, <1>5, <2>1, <2>2, <2>3 DEF Numbers
  <1>10. InHand'
    BY <1>1, <1>3, <1>4, <1>5 DEF InHand, NextSlot
  <1>11. PublishedIntact' /\ TimecodeKeepsUp'
    BY <1>1, <1>4, <1>5, WriteKeepsWindow
  <1>12. InStep'
    BY <1>1, <1>3, <1>4, <1>6 DEF InStep, Bears, Writing, MakingDummies
  <1> QED  BY <1>7, <1>8, <1>9, <1>10, <1>11, <1>12 DEF IInv

\* The number of a dummy frame goes in before its picture.
LEMMA DummyMarkKeeps == IInv /\ DummyMark => IInv'
  <1> SUFFICES ASSUME IInv, DummyMark PROVE IInv'
    OBVIOUS
  <1>1. TypeOK /\ Phases /\ Numbers /\ InHand /\ PublishedIntact /\ InStep /\ TimecodeKeepsUp
    BY DEF IInv
  <1>2. TickTypes /\ ThreadTypes /\ RingTypes
    BY <1>1, TypeParts
  <1>3. capture = "mark" /\ capture' = "fill"
    BY DEF DummyMark
  <1>4. /\ now' = now /\ taken' = taken /\ frame' = frame /\ losses' = losses
        /\ lastframe' = lastframe /\ recover' = recover
        /\ good' = good /\ polled' = polled /\ tickLast' = tickLast
        /\ dummies' = dummies /\ made' = made /\ batched' = batched /\ unwritten' = unwritten
    BY DEF DummyMark, taking, polling
  <1>5. /\ ring' \in [Slots -> SlotRecords]
        /\ ring'[NextSlot].number = lastframe + 1
        /\ \A u \in Slots \ {NextSlot} : ring'[u] = ring[u]
    <2>1. ring' = [ring EXCEPT ![NextSlot] = [ring[NextSlot] EXCEPT !.number = lastframe + 1]]
      BY DEF DummyMark, NextSlot
    <2>2. ring[NextSlot] \in SlotRecords
      BY <1>1, <1>2, WindowNumbers DEF RingTypes
    <2>3. lastframe + 1 \in Nat
      BY <1>2 DEF RingTypes
    <2>4. /\ [ring[NextSlot] EXCEPT !.number = lastframe + 1] \in SlotRecords
          /\ [ring[NextSlot] EXCEPT !.number = lastframe + 1].number = lastframe + 1
      BY <2>2, <2>3 DEF SlotRecords
    <2> QED  BY <1>1, <1>2, <2>1, <2>4, WindowNumbers, RingUpdate DEF RingTypes
  <1>6. \A n \in Window(lastframe) : ring'[SlotOf(n)] = ring[SlotOf(n)]
    BY <1>1, <1>5, WindowKept
  <1>7. TypeOK'
    BY <1>2, <1>3, <1>4, <1>5, TypePartsPrime DEF TickTypes, ThreadTypes, RingTypes
  <1>8. Phases'
    BY <1>1, <1>2, <1>3, <1>4 DEF Phases, TickTypes, ThreadTypes, InOutage, Writing, MakingDummies
  <1>9. Numbers'
    <2>1. \A s \in Slots \ {NextSlot} : ring'[s].number = 0 \/ ring'[s].number <= lastframe
      BY <1>1, <1>3, <1>5 DEF Numbers
    <2>2. NextSlot' = NextSlot
      BY <1>4 DEF NextSlot
    <2>3. lastframe >= 0 /\ capture \notin {"number", "publish"} => Bears(lastframe)'
      BY <1>1, <1>4, <1>6, WindowNumbers DEF Numbers, Bears
    <2> QED  BY <1>3, <1>4, <1>5, <2>1, <2>2, <2>3 DEF Numbers
  <1>10. InHand'
    BY <1>1, <1>3, <1>4, <1>5 DEF InHand, NextSlot
  <1>11. PublishedIntact' /\ TimecodeKeepsUp'
    BY <1>1, <1>4, <1>5, WriteKeepsWindow
  <1>12. InStep'
    BY <1>1, <1>3, <1>4, <1>6 DEF InStep, Bears, Writing, MakingDummies
  <1> QED  BY <1>7, <1>8, <1>9, <1>10, <1>11, <1>12 DEF IInv

\* The black picture and the timecode of a dummy frame.
LEMMA DummyFillKeeps == IInv /\ DummyFill => IInv'
  <1> SUFFICES ASSUME IInv, DummyFill PROVE IInv'
    OBVIOUS
  <1>1. TypeOK /\ Phases /\ Numbers /\ InHand /\ PublishedIntact /\ InStep /\ TimecodeKeepsUp
    BY DEF IInv
  <1>2. TickTypes /\ ThreadTypes /\ RingTypes
    BY <1>1, TypeParts
  <1> DEFINE tc == IF made = 0 THEN polled ELSE ring[SlotOf(lastframe)].tc + 1
  <1>3. capture = "fill" /\ capture' = "announce"
    BY DEF DummyFill
  <1>4. /\ now' = now /\ taken' = taken /\ frame' = frame /\ losses' = losses
        /\ lastframe' = lastframe /\ recover' = recover
        /\ good' = good /\ polled' = polled /\ tickLast' = tickLast
        /\ dummies' = dummies /\ made' = made /\ batched' = batched /\ unwritten' = unwritten
    BY DEF DummyFill, taking, polling

  <1>5. tc \in Nat /\ (~batched => tc = polled)
    <2>1. SlotOf(lastframe) \in Slots
      BY <1>2, SlotOfType DEF RingTypes
    <2>2. tc \in Nat
      BY <1>2, <2>1 DEF ThreadTypes, TickTypes, RingTypes, SlotRecords
    <2> QED  BY <1>1, <1>2, <1>3, <2>2 DEF Phases, MakingDummies, ThreadTypes
  <1>6. ring' = [ring EXCEPT ![NextSlot] =
                    [ring[NextSlot] EXCEPT !.picture = NoVideo, !.tc = tc, !.signal_ok = FALSE]]
    BY DEF DummyFill, NextSlot
  <1> HIDE DEF tc
  <1>7. /\ ring' \in [Slots -> SlotRecords]
        /\ ring'[NextSlot].number = ring[NextSlot].number
        /\ ring'[NextSlot].picture = NoVideo
        /\ ring'[NextSlot].signal_ok = FALSE
        /\ ring'[NextSlot].tc = tc
        /\ \A u \in Slots \ {NextSlot} : ring'[u] = ring[u]
    <2> DEFINE slot == [ring[NextSlot] EXCEPT !.picture = NoVideo, !.tc = tc, !.signal_ok = FALSE]
    <2>1. ring[NextSlot] \in SlotRecords
      BY <1>1, <1>2, WindowNumbers DEF RingTypes
    <2>2. /\ slot \in SlotRecords
          /\ slot.number = ring[NextSlot].number /\ slot.picture = NoVideo
          /\ slot.signal_ok = FALSE /\ slot.tc = tc
      BY <1>5, <2>1 DEF SlotRecords
    <2>3. ring' = [ring EXCEPT ![NextSlot] = slot]
      BY <1>6
    <2> HIDE DEF slot
    <2> QED  BY <1>1, <1>2, <2>2, <2>3, WindowNumbers, RingUpdate DEF RingTypes
  <1>8. \A n \in Window(lastframe) : ring'[SlotOf(n)] = ring[SlotOf(n)]
    BY <1>1, <1>7, WindowKept
  <1>9. TypeOK'
    BY <1>2, <1>3, <1>4, <1>7, TypePartsPrime DEF TickTypes, ThreadTypes, RingTypes
  <1>10. Phases'
    BY <1>1, <1>2, <1>3, <1>4 DEF Phases, TickTypes, ThreadTypes, InOutage, Writing, MakingDummies
  <1>11. Numbers'
    <2>1. \A s \in Slots \ {NextSlot} : ring'[s].number = 0 \/ ring'[s].number <= lastframe
      BY <1>1, <1>3, <1>7 DEF Numbers
    <2>2. NextSlot' = NextSlot
      BY <1>4 DEF NextSlot
    <2>3. lastframe >= 0 => Bears(lastframe)'
      BY <1>1, <1>3, <1>4, <1>8, WindowNumbers DEF Numbers, Bears
    <2> QED  BY <1>3, <1>4, <1>7, <2>1, <2>2, <2>3 DEF Numbers
  <1>12. InHand'
    BY <1>1, <1>3, <1>4, <1>5, <1>7 DEF InHand, NextSlot
  <1>13. PublishedIntact' /\ TimecodeKeepsUp'
    BY <1>1, <1>4, <1>7, WriteKeepsWindow
  <1>14. InStep'
    BY <1>1, <1>3, <1>4, <1>8 DEF InStep, Bears, Writing, MakingDummies
  <1> QED  BY <1>9, <1>10, <1>11, <1>12, <1>13, <1>14 DEF IInv

\* The frame is published: the window gains it, with the picture and timecode of
\* the frame in hand.
LEMMA PublishKeeps == IInv /\ Publish => IInv'
  <1> SUFFICES ASSUME IInv, Publish PROVE IInv'
    OBVIOUS
  <1>1. TypeOK /\ Phases /\ Numbers /\ InHand /\ PublishedIntact /\ InStep /\ TimecodeKeepsUp
    BY DEF IInv
  <1>2. TickTypes /\ ThreadTypes /\ RingTypes
    BY <1>1, TypeParts
  <1>3. capture = "publish" /\ capture' = "get" /\ recover' = FALSE /\ lastframe' = lastframe + 1
        /\ unwritten' = unwritten \intersect Window(lastframe')
    BY DEF Publish
  <1>4. /\ now' = now /\ taken' = taken /\ frame' = frame /\ losses' = losses /\ ring' = ring
        /\ good' = good /\ polled' = polled /\ tickLast' = tickLast
        /\ dummies' = dummies /\ made' = made /\ batched' = batched
    BY DEF Publish, taking, polling
  <1>5. /\ lastframe' \in Nat
        /\ \A n \in Window(lastframe') : n \in Window(lastframe) \/ n = lastframe'
        /\ lastframe' \in Window(lastframe')
    BY <1>2, <1>3, WindowMoves DEF RingTypes
  <1>6. /\ NextSlot \in Slots /\ SlotOf(lastframe') = NextSlot
        /\ ring[NextSlot].number = lastframe' /\ ring[NextSlot].signal_ok = TRUE
        /\ ring[NextSlot].tc = frame
        /\ lastframe' \notin unwritten => ring[NextSlot].picture = frame
    BY <1>1, <1>3, WindowNumbers DEF InHand, NextSlot
  <1>7. TypeOK'
    <2>1. recover' \in BOOLEAN
      BY <1>3, Zenon
    <2>2. TickTypes' /\ RingTypes'
      BY <1>2, <1>3, <1>4, <1>5 DEF TickTypes, RingTypes
    <2>3. ThreadTypes'
      BY <1>2, <1>3, <1>4, <2>1 DEF ThreadTypes
    <2> QED  BY <2>2, <2>3, TypePartsPrime
  <1>8. Phases'
    BY <1>1, <1>2, <1>3, <1>4 DEF Phases, TickTypes, ThreadTypes, InOutage, Writing, MakingDummies
  <1>9. Numbers'
    <2>1. \A s \in Slots : ring[s].number = 0 \/ ring[s].number <= lastframe'
      BY <1>1, <1>2, <1>3, <1>5, <1>6 DEF Numbers, RingTypes, SlotRecords
    <2>2. Bears(lastframe)'
      BY <1>4, <1>6 DEF Bears
    <2> QED  BY <1>3, <1>4, <2>1, <2>2 DEF Numbers
  <1>10. InHand'
    BY <1>3 DEF InHand
  <1>11. PublishedIntact'
    <2> SUFFICES ASSUME NEW n \in Window(lastframe') \ unwritten'
                 PROVE  /\ Bears(n)
                        /\ ring[SlotOf(n)].picture =
                             IF ring[SlotOf(n)].signal_ok THEN ring[SlotOf(n)].tc ELSE NoVideo
      BY <1>4 DEF PublishedIntact, Bears
    <2>1. n \notin unwritten
      BY <1>3
    <2>2. CASE n \in Window(lastframe)
      BY <1>1, <2>1, <2>2 DEF PublishedIntact
    <2>3. CASE n = lastframe'
      BY <1>6, <2>1, <2>3 DEF Bears
    <2> QED  BY <1>5, <2>2, <2>3
  <1>12. TimecodeKeepsUp'
    <2> SUFFICES ASSUME ~batched, NEW m \in Window(lastframe'), NEW n \in Window(lastframe'),
                        Bears(m), Bears(n), m < n
                 PROVE  n - m <= ring[SlotOf(n)].tc - ring[SlotOf(m)].tc
      BY <1>4 DEF TimecodeKeepsUp, Bears
    <2>1. m \in Window(lastframe)
      BY <1>1, <1>3, <1>5, WindowNumbers
    <2>2. CASE n \in Window(lastframe)
      BY <1>1, <2>1, <2>2 DEF TimecodeKeepsUp
    <2>3. CASE n = lastframe'
      <3>1. lastframe + 1 - m <= frame - ring[SlotOf(m)].tc
        BY <1>1, <1>3, <2>1 DEF InStep, Writing
      <3>2. m \in Int /\ lastframe \in Int /\ frame \in Int /\ ring[SlotOf(m)].tc \in Nat
        BY <1>1, <1>2, <2>1, WindowNumbers DEF RingTypes, SlotRecords, ThreadTypes, TickTypes
      <3> QED  BY <1>3, <1>6, <2>3, <3>1, <3>2
    <2> QED  BY <1>5, <2>2, <2>3
  <1>13. InStep'
    <2> SUFFICES ASSUME ~batched, NEW m \in Window(lastframe'), Bears(m)
                 PROVE  lastframe' - m <= taken - ring[SlotOf(m)].tc
      BY <1>3, <1>4 DEF InStep, Bears, Writing, MakingDummies, Latest
    <2>1. frame <= taken /\ frame \in Int /\ taken \in Int /\ lastframe \in Int
      BY <1>1, <1>2, <1>3 DEF Phases, Writing, TickTypes, RingTypes
    <2>2. CASE m \in Window(lastframe)
      <3>1. m \in Int /\ ring[SlotOf(m)].tc \in Nat
        BY <1>1, <1>2, <2>2, WindowNumbers DEF RingTypes, SlotRecords
      <3>2. lastframe + 1 - m <= frame - ring[SlotOf(m)].tc
        BY <1>1, <1>3, <2>2 DEF InStep, Writing
      <3> QED  BY <1>3, <2>1, <3>1, <3>2
    <2>3. CASE m = lastframe'
      BY <1>5, <1>6, <2>1, <2>3
    <2> QED  BY <1>5, <2>2, <2>3
  <1> QED  BY <1>7, <1>8, <1>9, <1>10, <1>11, <1>12, <1>13 DEF IInv

\* A dummy frame is published.
LEMMA DummyPublishKeeps == IInv /\ DummyPublish => IInv'
  <1> SUFFICES ASSUME IInv, DummyPublish PROVE IInv'
    OBVIOUS
  <1>1. TypeOK /\ Phases /\ Numbers /\ InHand /\ PublishedIntact /\ InStep /\ TimecodeKeepsUp
    BY DEF IInv
  <1>2. TickTypes /\ ThreadTypes /\ RingTypes
    BY <1>1, TypeParts
  <1>3. /\ capture = "announce" /\ lastframe' = lastframe + 1
        /\ unwritten' = unwritten \intersect Window(lastframe')
        /\ tickLast' = polled - dummies + 1 /\ made' = made + 1
        /\ capture' \in {"mark", "poll"}
        /\ capture' = "mark" => made + 1 < dummies
        /\ capture' = "poll" => ~(made + 1 < dummies)
    BY DEF DummyPublish
  <1>4. /\ now' = now /\ taken' = taken /\ frame' = frame /\ losses' = losses /\ ring' = ring
        /\ recover' = recover /\ good' = good /\ polled' = polled
        /\ dummies' = dummies /\ batched' = batched
    BY DEF DummyPublish, taking
  <1>5. /\ lastframe' \in Nat
        /\ \A n \in Window(lastframe') : n \in Window(lastframe) \/ n = lastframe'
        /\ lastframe' \in Window(lastframe')
    BY <1>2, <1>3, WindowMoves DEF RingTypes
  <1>6. /\ NextSlot \in Slots /\ SlotOf(lastframe') = NextSlot
        /\ ring[NextSlot].number = lastframe' /\ ring[NextSlot].signal_ok = FALSE
        /\ ring[NextSlot].picture = NoVideo
        /\ ~batched => ring[NextSlot].tc = polled
    BY <1>1, <1>3, WindowNumbers DEF InHand, NextSlot
  <1>7. /\ polled \in 0 .. now /\ dummies \in Nat /\ made \in Nat /\ made < dummies
        /\ dummies <= polled + 1 /\ now \in Nat
        /\ ~batched => dummies = 1
    BY <1>1, <1>2, <1>3 DEF Phases, MakingDummies, ThreadTypes, TickTypes
  <1>8. tickLast' \in 0 .. now /\ made' \in 0 .. dummies
    BY <1>3, <1>7
  <1>9. TypeOK'
    <2>1. TickTypes' /\ RingTypes'
      BY <1>2, <1>3, <1>4, <1>5 DEF TickTypes, RingTypes
    <2>2. ThreadTypes'
      BY <1>2, <1>3, <1>4, <1>7, <1>8 DEF ThreadTypes
    <2> QED  BY <2>1, <2>2, TypePartsPrime
  <1>10. Phases'
    BY <1>1, <1>2, <1>3, <1>4, <1>7, <1>8 DEF Phases, TickTypes, ThreadTypes, InOutage, Writing, MakingDummies
  <1>11. Numbers'
    <2>1. \A s \in Slots : ring[s].number = 0 \/ ring[s].number <= lastframe'
      BY <1>1, <1>2, <1>3, <1>5, <1>6 DEF Numbers, RingTypes, SlotRecords
    <2>2. Bears(lastframe)'
      BY <1>4, <1>6 DEF Bears
    <2> QED  BY <1>3, <1>4, <2>1, <2>2 DEF Numbers
  <1>12. InHand'
    BY <1>3 DEF InHand
  <1>13. PublishedIntact'
    <2> SUFFICES ASSUME NEW n \in Window(lastframe') \ unwritten'
                 PROVE  /\ Bears(n)
                        /\ ring[SlotOf(n)].picture =
                             IF ring[SlotOf(n)].signal_ok THEN ring[SlotOf(n)].tc ELSE NoVideo
      BY <1>4 DEF PublishedIntact, Bears
    <2>1. CASE n \in Window(lastframe)
      BY <1>1, <1>3, <2>1 DEF PublishedIntact
    <2>2. CASE n = lastframe'
      BY <1>6, <2>2 DEF Bears
    <2> QED  BY <1>5, <2>1, <2>2
  <1>14. TimecodeKeepsUp'
    <2> SUFFICES ASSUME ~batched, NEW m \in Window(lastframe'), NEW n \in Window(lastframe'),
                        Bears(m), Bears(n), m < n
                 PROVE  n - m <= ring[SlotOf(n)].tc - ring[SlotOf(m)].tc
      BY <1>4 DEF TimecodeKeepsUp, Bears
    <2>1. m \in Window(lastframe)
      BY <1>1, <1>3, <1>5, WindowNumbers
    <2>2. CASE n \in Window(lastframe)
      BY <1>1, <2>1, <2>2 DEF TimecodeKeepsUp
    <2>3. CASE n = lastframe'
      <3>1. lastframe + 1 - m <= polled - ring[SlotOf(m)].tc
        BY <1>1, <1>3, <2>1 DEF InStep, MakingDummies
      <3>2. m \in Int /\ lastframe \in Int /\ polled \in Int /\ ring[SlotOf(m)].tc \in Nat
        BY <1>1, <1>2, <2>1, WindowNumbers DEF RingTypes, SlotRecords, ThreadTypes, TickTypes
      <3> QED  BY <1>3, <1>6, <2>3, <3>1, <3>2
    <2> QED  BY <1>5, <2>2, <2>3
  <1>15. InStep'
    <2> SUFFICES ASSUME ~batched, NEW m \in Window(lastframe'), Bears(m)
                 PROVE  lastframe' - m <= polled - ring[SlotOf(m)].tc
      <3>1. ~batched => capture' = "poll" /\ tickLast' = polled /\ tickLast' # -1
        BY <1>3, <1>7
      <3> QED  BY <1>4, <3>1 DEF InStep, Bears, Writing, MakingDummies, Latest
    <2>1. CASE m \in Window(lastframe)
      <3>1. lastframe + 1 - m <= polled - ring[SlotOf(m)].tc
        BY <1>1, <1>3, <2>1 DEF InStep, MakingDummies
      <3>2. m \in Int /\ lastframe \in Int /\ polled \in Int /\ ring[SlotOf(m)].tc \in Nat
        BY <1>1, <1>2, <2>1, WindowNumbers DEF RingTypes, SlotRecords, ThreadTypes, TickTypes
      <3> QED  BY <1>3, <3>1, <3>2
    <2>2. CASE m = lastframe'
      BY <1>5, <1>6, <1>7, <2>2
    <2> QED  BY <1>5, <2>1, <2>2
  <1> QED  BY <1>9, <1>10, <1>11, <1>12, <1>13, <1>14, <1>15 DEF IInv

\* A turn of the polling loop: the signal is back, or a dummy frame is due, or not.
LEMMA PollKeeps == IInv /\ (\E videoin \in BOOLEAN : Poll(videoin)) => IInv'
  <1> SUFFICES ASSUME IInv, (\E videoin \in BOOLEAN : Poll(videoin)) PROVE IInv'
    OBVIOUS
  <1>1. TypeOK /\ Phases /\ Numbers /\ InHand /\ PublishedIntact /\ InStep /\ TimecodeKeepsUp
    BY DEF IInv
  <1>2. TickTypes /\ ThreadTypes /\ RingTypes
    BY <1>1, TypeParts
  <1> DEFINE num == NumDummyFrames
  <1>3. /\ capture = "poll" /\ polled' = now
        /\ good' = good \/ good' = good + 1
        /\ good' = GoodFrames => SignalBack
        /\ good' # GoodFrames => BeginDummies
    BY DEF Poll
  <1>4. /\ now' = now /\ frame' = frame /\ losses' = losses
        /\ lastframe' = lastframe /\ ring' = ring /\ unwritten' = unwritten
    BY DEF Poll
  <1>5. good \in Nat /\ good < GoodFrames /\ good' \in 0 .. GoodFrames /\ polled' \in 0 .. now
    BY <1>1, <1>2, <1>3, CountAssumption DEF Phases, InOutage, ThreadTypes, TickTypes
  <1>6. Latest <= now /\ Latest \in Int /\ now \in Int
    BY <1>2 DEF Latest, TickTypes, ThreadTypes
  <1>8. Numbers'
    <2>1. \A s \in Slots : ring[s].number = 0 \/ ring[s].number <= lastframe
      BY <1>1, <1>3 DEF Numbers
    <2>2. lastframe >= 0 => Bears(lastframe)
      BY <1>1, <1>3 DEF Numbers
    <2> QED  BY <1>4, <2>1, <2>2 DEF Numbers, Bears
  <1>9. CASE good' = GoodFrames
    <2>1. capture' = "get" /\ recover' = TRUE /\ taken' = now
      BY <1>3, <1>9 DEF SignalBack
    <2>2. tickLast' = tickLast /\ dummies' = dummies /\ made' = made /\ batched' = batched
      BY <1>3, <1>9 DEF SignalBack
    <2>3. recover' \in BOOLEAN
      BY <2>1, Zenon
    <2>4. TypeOK'
      BY <1>2, <1>4, <1>5, <1>3, <2>1, <2>2, <2>3, TypePartsPrime DEF TickTypes, ThreadTypes, RingTypes
    <2>5. Phases' /\ InHand'
      BY <2>1 DEF Phases, InHand, InOutage, Writing, MakingDummies
    <2>6. InStep'
      <3> SUFFICES ASSUME ~batched, NEW m \in Window(lastframe), Bears(m)
                   PROVE  lastframe - m <= now - ring[SlotOf(m)].tc
        BY <1>4, <2>1, <2>2 DEF InStep, Bears, Writing, MakingDummies, Latest
      <3>1. lastframe - m <= Latest - ring[SlotOf(m)].tc
        BY <1>1, <1>3 DEF InStep
      <3>2. m \in Int /\ lastframe \in Int /\ ring[SlotOf(m)].tc \in Nat
        BY <1>1, <1>2, WindowNumbers DEF RingTypes, SlotRecords
      <3> QED  BY <1>6, <3>1, <3>2
    <2>7. PublishedIntact' /\ TimecodeKeepsUp'
      BY <1>1, <1>4, <2>2 DEF PublishedIntact, TimecodeKeepsUp, Bears
    <2> QED  BY <1>8, <2>4, <2>5, <2>6, <2>7 DEF IInv
  <1>10. CASE good' # GoodFrames
    <2>1. num \in Int /\ num <= now + 1
      BY <1>2 DEF NumDummyFrames, TickTypes, ThreadTypes
    <2>2. /\ num > 0 => capture' = "mark" /\ dummies' = num /\ made' = 0
          /\ ~(num > 0) => capture' = "poll" /\ dummies' = dummies /\ made' = made
      BY <1>3, <1>10 DEF BeginDummies
    <2>3. batched' = (batched \/ num > 1)
      BY <1>3, <1>10 DEF BeginDummies
    <2>4. taken' = taken /\ recover' = recover /\ tickLast' = tickLast
      BY <1>3, <1>10 DEF BeginDummies
    <2>5. batched' \in BOOLEAN /\ (~batched' => ~batched /\ ~(num > 1))
      BY <2>3, Zenon
    <2> HIDE DEF num
    <2>6. TypeOK'
      <3>1. TickTypes' /\ RingTypes'
        BY <1>2, <1>4, <2>4 DEF TickTypes, RingTypes
      <3>2. ThreadTypes'
        BY <1>2, <1>4, <1>5, <1>3, <2>1, <2>2, <2>4, <2>5 DEF ThreadTypes
      <3> QED  BY <3>1, <3>2, TypePartsPrime
    <2>7. Phases'
      <3>1. CASE num > 0
        BY <1>2, <1>3, <1>5, <1>10, <2>1, <2>2, <2>5, <3>1, CountAssumption DEF Phases, TickTypes, ThreadTypes, InOutage, Writing, MakingDummies
      <3>2. CASE ~(num > 0)
        <4>1. good' < GoodFrames
          BY <1>5, <1>10, CountAssumption
        <4>2. tickLast # -1
          BY <3>2 DEF num, NumDummyFrames
        <4> QED  BY <2>2, <2>4, <3>2, <4>1, <4>2 DEF Phases, InOutage, Writing, MakingDummies
      <3> QED  BY <3>1, <3>2
    <2>8. InHand'
      BY <2>2 DEF InHand
    <2>9. InStep'
      <3> SUFFICES ASSUME ~batched, NEW m \in Window(lastframe), Bears(m)
                   PROVE  /\ num > 0 => lastframe + 1 - m <= now - ring[SlotOf(m)].tc
                          /\ ~(num > 0) => lastframe - m <= Latest' - ring[SlotOf(m)].tc
        BY <1>3, <1>4, <2>2, <2>5 DEF InStep, Bears, Writing, MakingDummies
      <3>1. lastframe - m <= Latest - ring[SlotOf(m)].tc
        BY <1>1, <1>3 DEF InStep
      <3>2. m \in Int /\ lastframe \in Int /\ ring[SlotOf(m)].tc \in Nat
        BY <1>1, <1>2, WindowNumbers DEF RingTypes, SlotRecords
      <3>3. CASE num > 0
        <4>1. Latest < now
          BY <1>1, <1>2, <1>3, <3>3 DEF num, NumDummyFrames, Latest, Phases, TickTypes, ThreadTypes
        <4> QED  BY <1>6, <3>1, <3>2, <3>3, <4>1
      <3>4. CASE ~(num > 0)
        <4>1. Latest' = Latest
          BY <1>3, <2>2, <2>4, <3>4 DEF Latest
        <4> QED  BY <3>1, <3>4, <4>1
      <3> QED  BY <3>3, <3>4
    <2>10. PublishedIntact' /\ TimecodeKeepsUp'
      BY <1>1, <1>4, <2>5 DEF PublishedIntact, TimecodeKeepsUp, Bears
    <2> QED  BY <1>8, <2>6, <2>7, <2>8, <2>9, <2>10 DEF IInv
  <1> QED  BY <1>9, <1>10

\* Time passes.
LEMMA TickKeeps == IInv /\ Tick => IInv'
  <1> SUFFICES ASSUME IInv, Tick PROVE IInv'
    OBVIOUS
  <1>1. TypeOK /\ Phases /\ Numbers /\ InHand /\ PublishedIntact /\ InStep /\ TimecodeKeepsUp
    BY DEF IInv
  <1>2. TickTypes /\ ThreadTypes /\ RingTypes
    BY <1>1, TypeParts
  <1>3. /\ now < MaxTick /\ now' = now + 1
        /\ UNCHANGED <<taken, frame, losses, lastframe, ring, capture, recover, unwritten>>
        /\ UNCHANGED <<good, polled, tickLast, dummies, made, batched>>
    BY DEF Tick, polling
  <1>4. TypeOK'
    <2>1. now' \in 1 .. MaxTick /\ \A k \in Int : k <= now => k <= now'
      BY <1>2, <1>3, CountAssumption DEF TickTypes
    <2>2. TickTypes'
      BY <1>2, <1>3, <2>1, CountAssumption DEF TickTypes
    <2>3. ThreadTypes' /\ RingTypes'
      BY <1>2, <1>3, <2>1, CountAssumption DEF TickTypes, ThreadTypes, RingTypes
    <2> QED  BY <2>2, <2>3, TypePartsPrime
  <1>5. Phases'
    BY <1>1, <1>2, <1>3 DEF Phases, TickTypes, ThreadTypes, InOutage, Writing, MakingDummies
  <1>6. Numbers' /\ InHand'
    BY <1>1, <1>3 DEF Numbers, InHand, Bears, NextSlot
  <1>7. PublishedIntact' /\ TimecodeKeepsUp'
    BY <1>1, <1>3 DEF PublishedIntact, TimecodeKeepsUp, Bears
  <1>8. InStep'
    BY <1>1, <1>3 DEF InStep, Bears, Latest
  <1> QED  BY <1>4, <1>5, <1>6, <1>7, <1>8 DEF IInv

\* A step that changes nothing keeps it.
LEMMA StutterKeeps == IInv /\ UNCHANGED vars => IInv'
  <1> SUFFICES ASSUME IInv, UNCHANGED vars PROVE IInv'
    OBVIOUS
  <1>1. /\ now' = now /\ taken' = taken /\ frame' = frame /\ losses' = losses
        /\ lastframe' = lastframe /\ ring' = ring /\ capture' = capture /\ recover' = recover
        /\ good' = good /\ polled' = polled /\ tickLast' = tickLast /\ dummies' = dummies
        /\ made' = made /\ batched' = batched /\ unwritten' = unwritten
    BY DEF vars, taking, polling
  <1>2. TypeOK'
    BY <1>1 DEF IInv, TypeOK
  <1>3. Phases' /\ Numbers' /\ InHand'
    BY <1>1 DEF IInv, Phases, Numbers, InHand, InOutage, Bears, NextSlot
  <1>4. PublishedIntact' /\ InStep' /\ TimecodeKeepsUp'
    BY <1>1 DEF IInv, PublishedIntact, InStep, TimecodeKeepsUp, Bears, Latest
  <1> QED  BY <1>2, <1>3, <1>4 DEF IInv

LEMMA NextKeeps == IInv /\ [Next]_vars => IInv'
  BY TickKeeps, GetBufferKeeps, NoSignalKeeps, TransferKeeps, TransferFailsKeeps, RecoverKeeps,
     NumberKeeps, PublishKeeps, PollKeeps, DummyMarkKeeps, DummyFillKeeps, DummyPublishKeeps,
     StutterKeeps DEF Next, SdiMonitor

LEMMA Invariance == Spec => []IInv
  BY InitHolds, NextKeeps, PTL DEF Spec
-----------------------------------------------------------------------------
\* Every variable of the thread stays within its type, and the counters of an
\* outage within it, for any ring, fifo and limits.
THEOREM ChannelTypes == Spec => []TypeOK
  <1>1. IInv => TypeOK
    BY DEF IInv
  <1> QED  BY Invariance, <1>1, PTL

\* Until the writer turns to its slot, a published frame bears its number and
\* holds the picture captured for it, but for the frames the model names as
\* published without their picture.
THEOREM FramesStayIntact == Spec => []PublishedIntact
  <1>1. IInv => PublishedIntact
    BY DEF IInv
  <1> QED  BY Invariance, <1>1, PTL

\* The frame numbers never run ahead of the timecode, across outages and
\* recoveries, while dummy frames come one at a time.
THEOREM NumbersKeepToTimecode == Spec => []TimecodeKeepsUp
  <1>1. IInv => TimecodeKeepsUp
    BY DEF IInv
  <1> QED  BY Invariance, <1>1, PTL
=============================================================================
