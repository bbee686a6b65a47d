----------------------- MODULE BufferedMediaSinkProofs -----------------------
(* Theorems about BufferedMediaSink for every ring size, set of streams and  *)
(* bound, with their proofs.                                                 *)
EXTENDS BufferedMediaSink, SequenceTheorems, TLAPS

(* Arithmetic of the ring, in the form the solvers can use.                  *)

\* Following stays in the ring, and moves to another slot unless there is
\* one slot only.
LEMMA FollowingFacts ==
    ASSUME NEW i \in Slots
    PROVE  /\ Following(i) \in Slots
           /\ Following(i) = IF i = NumFrames - 1 THEN 0 ELSE i + 1
  BY SizeAssumption DEF Following, Slots

\* FreeSlot names a slot.
LEMMA FreeSlotFacts ==
    ASSUME NEW i \in Slots, NEW n \in 0 .. NumFrames
    PROVE  /\ FreeSlot(i, n) \in Slots
           /\ FreeSlot(i, n) = IF i + n < NumFrames THEN i + n ELSE i + n - NumFrames
  BY SizeAssumption DEF FreeSlot, Slots

\* As many slots as the ring has, counted from the same one, are all
\* different.
LEMMA FreeSlotInjective ==
    ASSUME NEW i \in Slots, NEW m \in 0 .. NumFrames - 1, NEW n \in 0 .. NumFrames - 1,
           m # n
    PROVE  FreeSlot(i, m) # FreeSlot(i, n)
  <1>1. /\ FreeSlot(i, m) = IF i + m < NumFrames THEN i + m ELSE i + m - NumFrames
        /\ FreeSlot(i, n) = IF i + n < NumFrames THEN i + n ELSE i + n - NumFrames
    BY FreeSlotFacts, SizeAssumption
  <1> QED  BY <1>1, SizeAssumption DEF Slots

\* Taking the oldest frame moves the ring on by one slot.
LEMMA FreeSlotShift ==
    ASSUME NEW i \in Slots, NEW n \in 0 .. NumFrames - 1
    PROVE  FreeSlot(Following(i), n) = FreeSlot(i, n + 1)
  <1> DEFINE j == Following(i)
  <1>1. /\ j \in Slots
        /\ j = IF i = NumFrames - 1 THEN 0 ELSE i + 1
    BY FollowingFacts
  <1>2. FreeSlot(j, n) = IF j + n < NumFrames THEN j + n ELSE j + n - NumFrames
    <2> HIDE DEF j
    <2> QED  BY <1>1, FreeSlotFacts, SizeAssumption
  <1>3. FreeSlot(i, n + 1) =
          IF i + n + 1 < NumFrames THEN i + n + 1 ELSE i + n + 1 - NumFrames
    <2> DEFINE m == n + 1
    <2>1. m \in 0 .. NumFrames
      BY SizeAssumption
    <2>2. FreeSlot(i, m) = IF i + m < NumFrames THEN i + m ELSE i + m - NumFrames
      <3> HIDE DEF m
      <3> QED  BY <2>1, FreeSlotFacts
    <2> QED  BY <2>2, SizeAssumption DEF Slots
  <1> HIDE DEF j
  <1> QED  BY <1>1, <1>2, <1>3, SizeAssumption DEF Slots, j

\* No slots on is the slot itself.
LEMMA FreeSlotZero == \A i \in Slots : FreeSlot(i, 0) = i
  BY FreeSlotFacts, SizeAssumption DEF Slots

\* A slot less than once round the ring is not the one counted from.
LEMMA FreeSlotNotFirst ==
    \A i \in Slots, k \in 1 .. NumFrames - 1 : FreeSlot(i, k) \in Slots /\ FreeSlot(i, k) # i
  <1> SUFFICES ASSUME NEW i \in Slots, NEW k \in 1 .. NumFrames - 1
               PROVE  FreeSlot(i, k) \in Slots /\ FreeSlot(i, k) # i
    OBVIOUS
  <1>1. k \in 0 .. NumFrames
    BY SizeAssumption
  <1>2. /\ FreeSlot(i, k) \in Slots
        /\ FreeSlot(i, k) = IF i + k < NumFrames THEN i + k ELSE i + k - NumFrames
    BY <1>1, FreeSlotFacts
  <1> QED  BY <1>2, SizeAssumption DEF Slots
-----------------------------------------------------------------------------
(* The inductive invariant.  TypeOK, FrameOwnership and WriterSlotExclusive  *)
(* are not inductive: who may be running depends on how far a close or reset *)
(* has got (StopCoupling), and what the target is shown on the frames in the *)
(* ring being completed ones (FramesWhole).                                  *)

StopCoupling ==
    /\ stopping <=> client \in {"closeStop", "closeJoin", "resetStop", "resetJoin",
                                "closed", "nullTarget"}
    /\ reader = "exited" => stopping \/ client = "resetTarget"

FramesWhole ==
    /\ ~Freed => \A k \in 0 .. framesUsed - 1 :
                    content[frames[FreeSlot(firstFramePosition, k)]].frame # 0
    /\ reader = "show" => content[currentFrameRead].frame # 0
    /\ client \in {"writing", "stamped"} =>
          content[frames[writePosition]].streams = sent
    /\ client = "stamped" => content[frames[writePosition]].frame = completed + 1
    /\ client \notin {"writing", "stamped"} => sent = {}

IInv ==
    /\ TypeOK
    /\ FrameOwnership
    /\ WriterSlotExclusive
    /\ StopCoupling
    /\ FramesWhole

\* The invariant holds of a newly created sink.
LEMMA InitIInv == Init => IInv
  <1> SUFFICES ASSUME Init PROVE IInv
    OBVIOUS
  <1> USE SizeAssumption, NullAssumption DEF Init
  <1>1. TypeOK
    <2>1. /\ frames \in [Slots -> Buffers \union {NULL}]
          /\ swapFrame \in Buffers /\ 0 \in Slots /\ 0 \in 0 .. NumFrames
      BY DEF Slots, Buffers
    <2>2. content \in [Buffers -> [frame : Nat, streams : SUBSET Streams]]
      BY DEF Blank
    <2>3. reader \in ReaderPC /\ client \in ClientPC
      BY DEF ReaderPC, ClientPC
    <2> QED  BY <2>1, <2>2, <2>3 DEF TypeOK
  <1>2. FrameOwnership
    BY DEF FrameOwnership, Freed, ReaderHolds, Slots, Buffers
  <1>3. WriterSlotExclusive /\ StopCoupling /\ FramesWhole
    BY DEF WriterSlotExclusive, ClientOpen, StopCoupling, FramesWhole
  <1> QED  BY <1>1, <1>2, <1>3 DEF IInv

\* Every step of the read thread preserves the invariant.
LEMMA ReadThreadIInv == IInv /\ ReadThread => IInv'
  <1> SUFFICES ASSUME IInv, ReadThread PROVE IInv'
    OBVIOUS
  <1> USE SizeAssumption, NullAssumption
      DEF IInv, ring, player, Slots
  <1>1. CASE ReadThreadCheck
    BY <1>1 DEF ReadThreadCheck, TypeOK, FrameOwnership, Freed, ReaderHolds,
       WriterSlotExclusive, StopCoupling, FramesWhole, ReaderPC
  <1>2. CASE ReadThreadTake
    <2>1. CASE framesUsed > 0
      <3>0. /\ currentFrameRead' = frames[firstFramePosition]
            /\ frames' = [frames EXCEPT ![firstFramePosition] = swapFrame]
            /\ swapFrame' = NULL
            /\ firstFramePosition' = Following(firstFramePosition)
            /\ framesUsed' = framesUsed - 1
            /\ reader = "take" /\ reader' = "show"
            /\ UNCHANGED <<writePosition, frameStarted, stopping, dropFrameWhenFull,
                           content, client, player, shown>>
        BY <1>2, <2>1 DEF ReadThreadTake
      <3>1. TypeOK'
        BY <3>0, <2>1, FollowingFacts DEF TypeOK, ReaderPC, FrameOwnership, Freed
      <3>2. ~Freed /\ ~Freed'
        BY <3>0 DEF FrameOwnership, Freed
      <3>3. FrameOwnership'
        BY <3>0, <3>2 DEF FrameOwnership, ReaderHolds, TypeOK
      <3>4. \A k \in 0 .. framesUsed' :
              FreeSlot(firstFramePosition', k) = FreeSlot(firstFramePosition, k + 1)
        BY <3>0, <2>1, FreeSlotShift DEF TypeOK
      <3>5. \A k \in 0 .. NumFrames - 2 :
              /\ FreeSlot(firstFramePosition, k + 1) \in Slots
              /\ FreeSlot(firstFramePosition, k + 1) # firstFramePosition
        <4> SUFFICES ASSUME NEW k \in 0 .. NumFrames - 2
                     PROVE  /\ FreeSlot(firstFramePosition, k + 1) \in Slots
                            /\ FreeSlot(firstFramePosition, k + 1) # firstFramePosition
          OBVIOUS
        <4>1. k + 1 \in 1 .. NumFrames - 1
          OBVIOUS
        <4> QED  BY <4>1, FreeSlotNotFirst DEF TypeOK
      <3>6. WriterSlotExclusive'
        BY <3>0, <3>2, <3>4, <3>5, <2>1
        DEF WriterSlotExclusive, FrameOwnership, TypeOK, ReaderHolds, ClientOpen
      <3>7. StopCoupling'
        BY <3>0 DEF StopCoupling
      <3>8. FramesWhole'
        <4>1. ASSUME NEW k \in 0 .. framesUsed' - 1
              PROVE  content'[frames'[FreeSlot(firstFramePosition', k)]].frame # 0
          <5>1. k + 1 \in 0 .. framesUsed - 1 /\ k \in 0 .. NumFrames - 2 /\ k \in 0 .. framesUsed'
            BY <3>0 DEF TypeOK
          <5>2. content[frames[FreeSlot(firstFramePosition, k + 1)]].frame # 0
            BY <5>1, <3>2 DEF FramesWhole
          <5>3. frames'[FreeSlot(firstFramePosition, k + 1)]
                  = frames[FreeSlot(firstFramePosition, k + 1)]
            BY <5>1, <3>0, <3>5 DEF TypeOK
          <5> QED  BY <5>1, <5>2, <5>3, <3>0, <3>4
        <4>2. content'[currentFrameRead'].frame # 0
          <5>1. content[frames[FreeSlot(firstFramePosition, 0)]].frame # 0
            BY <3>2, <2>1 DEF FramesWhole, TypeOK
          <5> QED  BY <5>1, <3>0, FreeSlotZero DEF TypeOK
        <4>3. client \in ClientOpen => frames'[writePosition'] = frames[writePosition]
          <5>1. framesUsed - 1 \in 0 .. NumFrames - 2 \/ client \notin ClientOpen
            BY <2>1 DEF WriterSlotExclusive, TypeOK
          <5>2. client \in ClientOpen => FreeSlot(firstFramePosition, framesUsed - 1 + 1)
                                          # firstFramePosition
            BY <5>1, <3>5
          <5>3. framesUsed - 1 + 1 = framesUsed
            BY DEF TypeOK
          <5> QED  BY <5>2, <5>3, <3>0 DEF WriterSlotExclusive, TypeOK
        <4> QED  BY <4>1, <4>2, <4>3, <3>0 DEF FramesWhole, ClientOpen, player
      <3> QED  BY <3>1, <3>3, <3>6, <3>7, <3>8
    <2>2. CASE ~(framesUsed > 0)
      BY <1>2, <2>2 DEF ReadThreadTake, TypeOK, FrameOwnership, Freed, ReaderHolds,
         WriterSlotExclusive, StopCoupling, FramesWhole, ReaderPC
    <2> QED  BY <2>1, <2>2
  <1>3. CASE CompleteSinkFrame
    BY <1>3 DEF CompleteSinkFrame, TypeOK, FrameOwnership, Freed, ReaderHolds,
       WriterSlotExclusive, StopCoupling, FramesWhole, ReaderPC, Frame
  <1>4. CASE ReturnFrame
    BY <1>4 DEF ReturnFrame, SignalFrameRead, TypeOK, FrameOwnership, Freed,
       ReaderHolds, WriterSlotExclusive, StopCoupling, FramesWhole, ReaderPC,
       ClientPC, ClientOpen
  <1>5. CASE WaitFrameWritten
    BY <1>5 DEF WaitFrameWritten, TypeOK, FrameOwnership, Freed, ReaderHolds,
       WriterSlotExclusive, StopCoupling, FramesWhole, ReaderPC
  <1> QED  BY <1>1, <1>2, <1>3, <1>4, <1>5 DEF ReadThread

\* So does every step of bms_accept_stream_frame.
LEMMA ClientAcceptIInv ==
    ASSUME IInv, AcceptStreamFrame \/ AcceptFree \/ AcceptDrop \/ AcceptWait
    PROVE  IInv'
  <1> USE SizeAssumption, NullAssumption DEF IInv, ring, player
  <1>1. CASE AcceptStreamFrame \/ AcceptWait
    BY <1>1 DEF AcceptStreamFrame, AcceptWait, TypeOK, FrameOwnership, Freed,
       ReaderHolds, WriterSlotExclusive, StopCoupling, FramesWhole, ClientPC,
       ClientOpen
  <1>2. CASE AcceptFree
    <2>1. FreeSlot(firstFramePosition, framesUsed) \in Slots
      BY FreeSlotFacts DEF TypeOK
    <2>2. TypeOK' /\ StopCoupling' /\ FramesWhole'
      BY <1>2, <2>1 DEF AcceptFree, TypeOK, StopCoupling, FramesWhole, Freed,
         ClientPC, ClientOpen
    <2>3. FrameOwnership' /\ WriterSlotExclusive'
      BY <1>2, <2>1 DEF AcceptFree, TypeOK, FrameOwnership, ReaderHolds, Freed,
         WriterSlotExclusive, ClientOpen
    <2> QED  BY <2>2, <2>3
  <1>3. CASE AcceptDrop
    <2>0. framesUsed = NumFrames
      BY <1>3 DEF AcceptDrop, TypeOK
    <2>1. /\ firstFramePosition' \in Slots
          /\ framesUsed' = NumFrames - 1
          /\ writePosition' \in Slots
      BY <1>3, <2>0, FollowingFacts, FreeSlotFacts DEF AcceptDrop, TypeOK
    <2>2. TypeOK' /\ StopCoupling'
      BY <1>3, <2>1 DEF AcceptDrop, TypeOK, StopCoupling, ClientPC, ClientOpen
    <2>3. FrameOwnership' /\ WriterSlotExclusive'
      BY <1>3, <2>1 DEF AcceptDrop, TypeOK, FrameOwnership, ReaderHolds, Freed,
         WriterSlotExclusive, ClientOpen
    <2>4. ASSUME NEW k \in 0 .. framesUsed' - 1
          PROVE  content'[frames'[FreeSlot(firstFramePosition', k)]].frame # 0
      <3>1. k + 1 \in 0 .. framesUsed - 1 /\ k \in 0 .. NumFrames - 1
        BY <2>0, <2>1
      <3>2. FreeSlot(firstFramePosition', k) = FreeSlot(firstFramePosition, k + 1)
        BY <1>3, <3>1, FreeSlotShift DEF AcceptDrop, TypeOK
      <3> QED  BY <1>3, <3>1, <3>2 DEF AcceptDrop, FramesWhole, Freed
    <2>5. FramesWhole'
      BY <1>3, <2>4 DEF AcceptDrop, FramesWhole
    <2> QED  BY <2>2, <2>3, <2>5
  <1> QED  BY <1>1, <1>2, <1>3

\* While a frame is composed, the buffers of the queued frames and the one being
\* shown are not the buffer being written.
LEMMA WriterBufferApart ==
    ASSUME IInv, client \in ClientOpen
    PROVE  /\ frames[writePosition] \in Buffers
           /\ frames[writePosition] # currentFrameRead
           /\ \A k \in 0 .. framesUsed - 1 :
                 /\ FreeSlot(firstFramePosition, k) \in Slots
                 /\ frames[FreeSlot(firstFramePosition, k)] \in Buffers
                 /\ frames[FreeSlot(firstFramePosition, k)] # frames[writePosition]
  <1> USE SizeAssumption DEF IInv
  <1>1. ~Freed
    BY DEF Freed, ClientOpen
  <1>2. frames[writePosition] \in Buffers /\ frames[writePosition] # currentFrameRead
    BY <1>1 DEF TypeOK, FrameOwnership, WriterSlotExclusive
  <1>3. ASSUME NEW k \in 0 .. framesUsed - 1
        PROVE  /\ FreeSlot(firstFramePosition, k) \in Slots
               /\ frames[FreeSlot(firstFramePosition, k)] \in Buffers
               /\ frames[FreeSlot(firstFramePosition, k)] # frames[writePosition]
    <2>1. /\ k \in 0 .. NumFrames - 1 /\ framesUsed \in 0 .. NumFrames - 1 /\ k # framesUsed
          /\ k \in 0 .. NumFrames
      BY DEF TypeOK, WriterSlotExclusive
    <2>2. FreeSlot(firstFramePosition, k) \in Slots
      BY <2>1, FreeSlotFacts DEF TypeOK
    <2>3. FreeSlot(firstFramePosition, k) # writePosition
      BY <2>1, FreeSlotInjective DEF TypeOK, WriterSlotExclusive
    <2> QED  BY <1>1, <2>2, <2>3 DEF FrameOwnership, TypeOK
  <1> QED  BY <1>2, <1>3

\* So do filling, completing and cancelling a frame.
LEMMA ClientWriteIInv ==
    ASSUME IInv,
           \/ StartFrame \/ StampFrame \/ CompleteFrame \/ CancelFrame
           \/ \E s \in Streams : ReceiveStreamFrame(s)
    PROVE  IInv'
  <1> USE SizeAssumption, NullAssumption DEF IInv, ring, player
  <1>1. CASE StartFrame
    <2>1. client \in ClientOpen
      BY <1>1 DEF StartFrame, ClientOpen
    <2>2. TypeOK' /\ StopCoupling'
      BY <1>1, <2>1, WriterBufferApart
      DEF StartFrame, TypeOK, StopCoupling, ClientPC, ClientOpen, Blank
    <2>3. FrameOwnership' /\ WriterSlotExclusive'
      BY <1>1 DEF StartFrame, FrameOwnership, ReaderHolds, Freed,
         WriterSlotExclusive, ClientOpen
    <2>4. FramesWhole'
      BY <1>1, <2>1, WriterBufferApart
      DEF StartFrame, TypeOK, FramesWhole, Freed, Blank
    <2> QED  BY <2>2, <2>3, <2>4
  <1>2. CASE StampFrame
    <2>1. client \in ClientOpen
      BY <1>2 DEF StampFrame, ClientOpen
    <2>0. content' \in [Buffers -> [frame : Nat, streams : SUBSET Streams]]
      <3> DEFINE b == frames[writePosition]
      <3>1. b \in Buffers
        BY <2>1, WriterBufferApart
      <3>2. content' = [content EXCEPT ![b] = [content[b] EXCEPT !.frame = completed + 1]]
        BY <1>2 DEF StampFrame
      <3>3. [content[b] EXCEPT !.frame = completed + 1]
              \in [frame : Nat, streams : SUBSET Streams]
        BY <3>1 DEF TypeOK
      <3> QED  BY <3>1, <3>2, <3>3 DEF TypeOK
    <2>2. TypeOK' /\ StopCoupling'
      BY <1>2, <2>0
      DEF StampFrame, TypeOK, StopCoupling, ClientPC, ClientOpen
    <2>3. FrameOwnership' /\ WriterSlotExclusive'
      BY <1>2 DEF StampFrame, FrameOwnership, ReaderHolds, Freed,
         WriterSlotExclusive, ClientOpen
    <2>4. FramesWhole'
      BY <1>2, <2>1, WriterBufferApart DEF StampFrame, TypeOK, FramesWhole, Freed
    <2> QED  BY <2>2, <2>3, <2>4
  <1>3. CASE CompleteFrame
    <2>1. client \in ClientOpen /\ framesUsed' = framesUsed + 1
      BY <1>3 DEF CompleteFrame, ClientOpen
    <2>2. TypeOK' /\ StopCoupling'
      BY <1>3, <2>1
      DEF CompleteFrame, SignalFrameWritten, TypeOK, StopCoupling, ClientPC,
          ClientOpen, ReaderPC, WriterSlotExclusive
    <2>3. FrameOwnership' /\ WriterSlotExclusive'
      BY <1>3 DEF CompleteFrame, SignalFrameWritten, FrameOwnership, ReaderHolds,
         Freed, WriterSlotExclusive, ClientOpen
    <2>4. content[frames[FreeSlot(firstFramePosition, framesUsed)]].frame # 0
      BY <1>3, <2>1 DEF CompleteFrame, FramesWhole, WriterSlotExclusive, TypeOK
    <2>5. ASSUME NEW k \in 0 .. framesUsed' - 1
          PROVE  content'[frames'[FreeSlot(firstFramePosition', k)]].frame # 0
      <3>1. k \in 0 .. framesUsed - 1 \/ k = framesUsed
        BY <2>1 DEF TypeOK
      <3> QED  BY <1>3, <2>4, <3>1 DEF CompleteFrame, FramesWhole, Freed
    <2>6. FramesWhole'
      BY <1>3, <2>5 DEF CompleteFrame, SignalFrameWritten, FramesWhole
    <2> QED  BY <2>2, <2>3, <2>6
  <1>4. CASE CancelFrame
    BY <1>4 DEF CancelFrame, SignalFrameWritten, TypeOK, FrameOwnership, Freed,
       ReaderHolds, WriterSlotExclusive, StopCoupling, FramesWhole, ClientPC,
       ClientOpen, ReaderPC
  <1>5. ASSUME NEW s \in Streams, ReceiveStreamFrame(s)
        PROVE  IInv'
    <2>1. client \in ClientOpen /\ frames[writePosition] \in Buffers
      BY <1>5, WriterBufferApart DEF ReceiveStreamFrame, ClientOpen
    <2>2. TypeOK' /\ StopCoupling'
      BY <1>5, <2>1
      DEF ReceiveStreamFrame, TypeOK, StopCoupling, ClientPC, ClientOpen
    <2>3. FrameOwnership' /\ WriterSlotExclusive'
      BY <1>5 DEF ReceiveStreamFrame, FrameOwnership, ReaderHolds, Freed,
         WriterSlotExclusive, ClientOpen
    <2>4. FramesWhole'
      BY <1>5, <2>1, WriterBufferApart
      DEF ReceiveStreamFrame, TypeOK, FramesWhole, Freed
    <2> QED  BY <2>2, <2>3, <2>4
  <1> QED  BY <1>1, <1>2, <1>3, <1>4, <1>5

\* So do closing and resetting.
LEMMA ClientStopIInv ==
    ASSUME IInv,
           \/ StopToClose \/ StopToReset \/ Broadcast \/ Close \/ ResetFree
           \/ ResetDone \/ ResetFails \/ ResetTargetClosed \/ Wakeup
    PROVE  IInv'
  <1> USE SizeAssumption, NullAssumption DEF IInv, ring, player
  <1>1. CASE StopToClose \/ StopToReset
    <2>1. /\ client = "idle" /\ client' \in {"closeStop", "resetStop"}
          /\ stopping' = TRUE /\ resets' \in Nat
          /\ UNCHANGED <<ring, writePosition, frameStarted, dropFrameWhenFull,
                         content, reader, completed, sent, shown>>
      BY <1>1 DEF StopToClose, StopToReset, Stop, TypeOK
    <2> QED
      BY <2>1 DEF TypeOK, FrameOwnership, Freed, ReaderHolds, WriterSlotExclusive,
         StopCoupling, FramesWhole, ClientPC, ClientOpen
  <1>2. CASE Broadcast
    BY <1>2 DEF Broadcast, SignalFrameWritten, TypeOK, FrameOwnership, Freed,
       ReaderHolds, WriterSlotExclusive, StopCoupling, FramesWhole, ClientPC,
       ClientOpen, ReaderPC
  <1>3. CASE Close \/ ResetFree
    BY <1>3 DEF Close, ResetFree, FreeFrames, TypeOK, FrameOwnership, Freed,
       ReaderHolds, WriterSlotExclusive, StopCoupling, FramesWhole, ClientPC,
       ClientOpen
  <1>4. CASE ResetDone
    <2>1. /\ frames' = [i \in Slots |-> i] /\ swapFrame' = NumFrames
          /\ currentFrameRead' = NULL
          /\ 0 \in Slots /\ 0 \in 0 .. NumFrames
          /\ content' = [b \in Buffers |-> Blank]
      BY <1>4 DEF ResetDone, FrameOwnership, Freed, Slots
    <2>2. frames' \in [Slots -> Buffers \union {NULL}] /\ swapFrame' \in Buffers
      BY <2>1 DEF Slots, Buffers
    <2>3. content' \in [Buffers -> [frame : Nat, streams : SUBSET Streams]]
      BY <2>1 DEF Blank
    <2>4. TypeOK'
      BY <1>4, <2>1, <2>2, <2>3 DEF ResetDone, TypeOK, ReaderPC, ClientPC
    <2>5. FrameOwnership'
      BY <1>4, <2>1 DEF ResetDone, FrameOwnership, Freed, ReaderHolds, Slots, Buffers
    <2>6. WriterSlotExclusive' /\ StopCoupling' /\ FramesWhole'
      BY <1>4 DEF ResetDone, WriterSlotExclusive, StopCoupling, FramesWhole, ClientOpen
    <2> QED  BY <2>4, <2>5, <2>6
  <1>5. CASE ResetFails \/ ResetTargetClosed
    BY <1>5 DEF ResetFails, ResetTargetClosed, TypeOK, FrameOwnership, Freed, ReaderHolds,
       WriterSlotExclusive, StopCoupling, FramesWhole, ClientPC, ClientOpen
  <1>6. CASE Wakeup
    BY <1>6 DEF Wakeup, SpuriousWakeup, TypeOK, FrameOwnership, Freed, ReaderHolds,
       WriterSlotExclusive, StopCoupling, FramesWhole, ClientPC, ClientOpen, ReaderPC
  <1> QED  BY <1>1, <1>2, <1>3, <1>4, <1>5, <1>6

\* So does a step that changes nothing.
LEMMA StutterIInv == IInv /\ UNCHANGED vars => IInv'
  BY DEF IInv, vars, ring, player, TypeOK, FrameOwnership, Freed, ReaderHolds,
     WriterSlotExclusive, StopCoupling, FramesWhole

\* The inductive invariant holds in every behaviour of the sink.
THEOREM Invariance == Spec => []IInv
  <1>1. IInv /\ [Next]_vars => IInv'
    BY ReadThreadIInv, ClientAcceptIInv, ClientWriteIInv, ClientStopIInv, StutterIInv
    DEF Next, ClientCall, ClientChoice
  <1> QED  BY <1>1, InitIInv, PTL DEF Spec

\* Type correctness: for every ring size the fields keep their types and the
\* ring never holds more frames than slots.
THEOREM TypeCorrect == Spec => []TypeOK
  <1>1. IInv => TypeOK
    BY DEF IInv
  <1> QED  BY <1>1, Invariance, PTL

\* Every buffer has exactly one owner until the sink is closed or reset.
THEOREM OwnershipHolds == Spec => []FrameOwnership
  <1>1. IInv => FrameOwnership
    BY DEF IInv
  <1> QED  BY <1>1, Invariance, PTL

\* The slot the player writes is free and no one else's.
THEOREM ExclusiveWrite == Spec => []WriterSlotExclusive
  <1>1. IInv => WriterSlotExclusive
    BY DEF IInv
  <1> QED  BY <1>1, Invariance, PTL
\* The buffer the player writes is the same one from the reset of a frame to its
\* completion, whatever the read thread takes, returns and swaps meanwhile.
THEOREM WriterBufferStability == Spec => WriterBufferStable
  <1> DEFINE Stable == (client \in ClientOpen /\ client' \in ClientOpen)
                         => frames'[writePosition'] = frames[writePosition]
  <1>1. IInv /\ IInv' /\ [Next]_vars => [Stable]_vars
    <2> SUFFICES ASSUME IInv, Next, client \in ClientOpen, client' \in ClientOpen
                 PROVE  frames'[writePosition'] = frames[writePosition]
      OBVIOUS
    <2>1. CASE ReadThreadTake
      <3>1. CASE framesUsed > 0
        <4>1. framesUsed \in 1 .. NumFrames - 1
          BY <3>1, SizeAssumption DEF IInv, TypeOK, WriterSlotExclusive
        <4>2. writePosition # firstFramePosition
          BY <4>1, FreeSlotNotFirst DEF IInv, TypeOK, WriterSlotExclusive
        <4> QED  BY <2>1, <3>1, <4>2 DEF ReadThreadTake, IInv, TypeOK
      <3> QED  BY <2>1, <3>1 DEF ReadThreadTake, ring
    <2>2. CASE ReadThread /\ ~ReadThreadTake
      BY <2>2 DEF ReadThread, ReadThreadCheck, CompleteSinkFrame, ReturnFrame,
         WaitFrameWritten, ring
    <2>3. CASE ClientCall
      BY <2>3 DEF ClientCall, ClientOpen, AcceptFree, AcceptDrop, AcceptWait,
         StartFrame, CompleteFrame, Broadcast, Close, ResetFree, ResetDone,
         ResetFails, ResetTargetClosed, ring
    <2>4. CASE ClientChoice
      BY <2>4 DEF ClientChoice, ClientOpen, AcceptStreamFrame, ReceiveStreamFrame,
         StampFrame, CancelFrame, StopToClose, StopToReset, Stop, ring
    <2>5. CASE Wakeup
      BY <2>5 DEF Wakeup, ring
    <2> QED  BY <2>1, <2>2, <2>3, <2>4, <2>5 DEF Next
  <1> QED  BY <1>1, Invariance, PTL DEF Spec, WriterBufferStable
-----------------------------------------------------------------------------
(* Refinement: the ring with its swap frame implements FrameQueue.           *)

RingQueue ==
    IF NoQueue THEN << >>
    ELSE [i \in 1 .. framesUsed |->
            content[frames[FreeSlot(firstFramePosition, i - 1)]]]

Showing == IF reader = "show" THEN content[currentFrameRead] ELSE NoFrame

\* The abstract queue read off the ring is a sequence of whole frames.
LEMMA RingQueueFacts ==
    ASSUME IInv, ~NoQueue
    PROVE  /\ RingQueue \in Seq(Frame)
           /\ Len(RingQueue) = framesUsed
           /\ \A i \in 1 .. framesUsed :
                 RingQueue[i] = content[frames[FreeSlot(firstFramePosition, i - 1)]]
  <1> USE SizeAssumption
  <1>1. ASSUME NEW i \in 1 .. framesUsed
        PROVE  content[frames[FreeSlot(firstFramePosition, i - 1)]] \in Frame
    <2> DEFINE k == i - 1
    <2>1. k \in 0 .. framesUsed - 1 /\ k \in 0 .. NumFrames
      BY DEF IInv, TypeOK
    <2>2. FreeSlot(firstFramePosition, k) \in Slots
      BY <2>1, FreeSlotFacts DEF IInv, TypeOK
    <2>3. frames[FreeSlot(firstFramePosition, k)] \in Buffers
      BY <2>2 DEF IInv, FrameOwnership, Freed, NoQueue
    <2>4. content[frames[FreeSlot(firstFramePosition, k)]].frame # 0
      BY <2>1 DEF IInv, FramesWhole, Freed, NoQueue
    <2>5. content[frames[FreeSlot(firstFramePosition, k)]]
            \in [frame : Nat, streams : SUBSET Streams]
      BY <2>3 DEF IInv, TypeOK
    <2> HIDE DEF k
    <2>6. content[frames[FreeSlot(firstFramePosition, k)]] \in Frame
      BY <2>4, <2>5 DEF Frame
    <2> QED  BY <2>6 DEF k
  <1>2. RingQueue = [i \in 1 .. framesUsed |->
                       content[frames[FreeSlot(firstFramePosition, i - 1)]]]
    BY DEF RingQueue
  <1>3. framesUsed \in Nat
    BY DEF IInv, TypeOK
  <1> QED  BY <1>1, <1>2, <1>3

\* A new sink is an empty queue.
LEMMA InitRefines == Init => Queue!Init
  <1> SUFFICES ASSUME Init PROVE Queue!Init
    OBVIOUS
  <1>1. RingQueue = << >>
    BY DEF Init, RingQueue
  <1> QED  BY <1>1 DEF Init, Queue!Init, RingQueue
\* A step that leaves the ring, its contents and what is on show alone leaves
\* the abstract queue alone.
LEMMA SameQueue ==
    ASSUME UNCHANGED <<frames, firstFramePosition, framesUsed, content>>,
           NoQueue' <=> NoQueue
    PROVE  RingQueue' = RingQueue
  BY DEF RingQueue

\* What Head, Tail and Append do to a queue given as a function.
LEMMA SeqFacts ==
    ASSUME NEW S, NEW q \in Seq(S), Len(q) > 0
    PROVE  /\ q # << >>
           /\ Head(q) = q[1]
           /\ Tail(q) = [i \in 1 .. Len(q) - 1 |-> q[i + 1]]
  <1>1. q # << >> /\ Head(q) = q[1]
    OBVIOUS
  <1>2. /\ Tail(q) \in Seq(S) /\ Len(Tail(q)) = Len(q) - 1
        /\ \A i \in 1 .. Len(q) - 1 : Tail(q)[i] = q[i + 1]
    OBVIOUS
  <1> DEFINE t == Tail(q)
  <1>3. t \in [1 .. Len(t) -> S]
    <2> HIDE DEF t
    <2>1. ASSUME t \in Seq(S) PROVE t \in [1 .. Len(t) -> S]
      BY <2>1, LenProperties
    <2> QED  BY <2>1, <1>2 DEF t
  <1>4. t = [i \in 1 .. Len(q) - 1 |-> q[i + 1]]
    BY <1>2, <1>3
  <1>5. \A i \in 1 .. Len(q) : q[i] \in S
    BY ElementOfSeq
  <1> QED  BY <1>1, <1>4, <1>5

\* The read thread taking a frame is Take, showing it is Show.
LEMMA ReadThreadRefines ==
    ASSUME IInv, IInv', ReadThread
    PROVE  Queue!Next \/ UNCHANGED Queue!vars
  <1> USE DEF player
  <1>1. CASE ReadThreadTake /\ framesUsed > 0
    <2>1. /\ reader = "take" /\ reader' = "show"
          /\ currentFrameRead' = frames[firstFramePosition]
          /\ framesUsed' = framesUsed - 1
          /\ UNCHANGED <<dropFrameWhenFull, content, client, completed, sent, shown>>
      BY <1>1 DEF ReadThreadTake
    <2>2. ~NoQueue /\ ~NoQueue'
      BY <2>1 DEF NoQueue, IInv, FrameOwnership, Freed
    <2>3. /\ RingQueue \in Seq(Frame) /\ Len(RingQueue) = framesUsed
          /\ \A i \in 1 .. framesUsed :
                RingQueue[i] = content[frames[FreeSlot(firstFramePosition, i - 1)]]
      BY <2>2, RingQueueFacts
    <2>4. Showing' = RingQueue[1]
      <3>1. RingQueue[1] = content[frames[FreeSlot(firstFramePosition, 0)]]
        BY <2>3, <1>1 DEF IInv, TypeOK
      <3> QED  BY <3>1, <2>1, FreeSlotZero DEF Showing, IInv, TypeOK
    <2>5. RingQueue' = [i \in 1 .. framesUsed - 1 |-> RingQueue[i + 1]]
      <3>1. ASSUME NEW i \in 1 .. framesUsed - 1
            PROVE  content'[frames'[FreeSlot(firstFramePosition', i - 1)]] = RingQueue[i + 1]
        <4>1. /\ i - 1 \in 0 .. NumFrames - 1 /\ i \in 1 .. NumFrames - 1
              /\ i + 1 \in 1 .. framesUsed /\ (i - 1) + 1 = i /\ (i + 1) - 1 = i
          BY SizeAssumption DEF IInv, TypeOK
        <4>2. FreeSlot(firstFramePosition', i - 1) = FreeSlot(firstFramePosition, i)
          <5> DEFINE k == i - 1
          <5>1. k \in 0 .. NumFrames - 1 /\ k + 1 = i
            BY <4>1
          <5> HIDE DEF k
          <5>2. FreeSlot(Following(firstFramePosition), k) = FreeSlot(firstFramePosition, k + 1)
            BY <5>1, FreeSlotShift DEF IInv, TypeOK
          <5> QED  BY <5>1, <5>2, <1>1 DEF ReadThreadTake, k
        <4>3. /\ FreeSlot(firstFramePosition, i) \in Slots
              /\ FreeSlot(firstFramePosition, i) # firstFramePosition
          BY <4>1, FreeSlotNotFirst DEF IInv, TypeOK
        <4>4. frames'[FreeSlot(firstFramePosition, i)] = frames[FreeSlot(firstFramePosition, i)]
          BY <4>3, <1>1 DEF ReadThreadTake, IInv, TypeOK
        <4>5. RingQueue[i + 1] = content[frames[FreeSlot(firstFramePosition, i)]]
          BY <4>1, <2>3
        <4> QED  BY <4>2, <4>4, <4>5, <2>1
      <3> QED  BY <3>1, <2>1, <2>2 DEF RingQueue
    <2>6. RingQueue # << >> /\ RingQueue' = Tail(RingQueue) /\ Showing' = Head(RingQueue)
      <3>1. Len(RingQueue) > 0
        BY <2>3, <1>1
      <3>2. /\ RingQueue # << >> /\ Head(RingQueue) = RingQueue[1]
            /\ Tail(RingQueue) = [i \in 1 .. Len(RingQueue) - 1 |-> RingQueue[i + 1]]
        BY <3>1, <2>3, SeqFacts
      <3> QED  BY <3>2, <2>3, <2>4, <2>5
    <2>7. Queue!Take
      BY <2>1, <2>6 DEF Queue!Take, RingQueue, Showing
    <2> QED  BY <2>7 DEF Queue!Next
  <1>2. CASE CompleteSinkFrame
    <2>1. /\ reader = "show" /\ reader' = "return"
          /\ shown' = content[currentFrameRead]
          /\ UNCHANGED <<ring, dropFrameWhenFull, content, client, completed, sent>>
      BY <1>2 DEF CompleteSinkFrame
    <2>2. RingQueue' = RingQueue
      BY <2>1, SameQueue DEF NoQueue, ring
    <2>3. content[currentFrameRead] \in Frame
      BY <2>1 DEF IInv, TypeOK, FramesWhole, FrameOwnership, ReaderHolds, Freed, Frame
    <2>4. Queue!Show
      BY <2>1, <2>2, <2>3, NoFrameAssumption DEF Queue!Show, RingQueue
    <2> QED  BY <2>4 DEF Queue!Next
  <1>3. CASE \/ ReadThreadCheck \/ ReturnFrame \/ WaitFrameWritten
             \/ ReadThreadTake /\ ~(framesUsed > 0)
    <2>1. /\ UNCHANGED <<frames, firstFramePosition, framesUsed, content, completed,
                         dropFrameWhenFull, sent, shown>>
          /\ NoQueue' <=> NoQueue
          /\ reader # "show" /\ reader' # "show"
      BY <1>3 DEF ReadThreadCheck, ReturnFrame, SignalFrameRead, WaitFrameWritten,
         ReadThreadTake, NoQueue, ring
    <2>2. RingQueue' = RingQueue
      BY <2>1, SameQueue
    <2> QED  BY <2>1, <2>2 DEF Queue!vars, RingQueue
  <1> QED  BY <1>1, <1>2, <1>3 DEF ReadThread

\* The player's calls: a stream received, a frame completed, dropped or given up.
LEMMA ClientRefines ==
    ASSUME IInv, IInv', ClientCall \/ ClientChoice \/ Wakeup
    PROVE  Queue!Next \/ UNCHANGED Queue!vars
  <1> USE DEF player
  <1>1. CASE CompleteFrame
    <2>1. /\ client = "stamped" /\ client' = "idle"
          /\ framesUsed' = framesUsed + 1 /\ completed' = completed + 1 /\ sent' = {}
          /\ UNCHANGED <<frames, firstFramePosition, content, dropFrameWhenFull,
                         currentFrameRead, shown>>
          /\ (reader' = "show") = (reader = "show")
      BY <1>1 DEF CompleteFrame, SignalFrameWritten
    <2>2. ~NoQueue /\ ~NoQueue'
      BY <2>1 DEF NoQueue
    <2>3. /\ RingQueue \in Seq(Frame) /\ Len(RingQueue) = framesUsed
          /\ \A i \in 1 .. framesUsed :
                RingQueue[i] = content[frames[FreeSlot(firstFramePosition, i - 1)]]
      BY <2>2, RingQueueFacts
    <2>4. /\ RingQueue' \in Seq(Frame) /\ Len(RingQueue') = framesUsed + 1
          /\ \A i \in 1 .. framesUsed + 1 :
                RingQueue'[i] = content[frames[FreeSlot(firstFramePosition, i - 1)]]
      <3>1. RingQueue' = [i \in 1 .. framesUsed + 1 |->
                            content[frames[FreeSlot(firstFramePosition, i - 1)]]]
        BY <2>1, <2>2 DEF RingQueue
      <3>2. \A i \in 1 .. framesUsed + 1 :
              content[frames[FreeSlot(firstFramePosition, i - 1)]] \in Frame
        <4>1. content[frames[writePosition]] \in Frame
          BY <2>1, WriterBufferApart, SizeAssumption
          DEF IInv, TypeOK, FramesWhole, ClientOpen, Frame
        <4>2. content[frames[FreeSlot(firstFramePosition, framesUsed)]] \in Frame
          BY <4>1, <2>1 DEF IInv, WriterSlotExclusive, ClientOpen
        <4>3. ASSUME NEW i \in 1 .. framesUsed + 1
              PROVE  content[frames[FreeSlot(firstFramePosition, i - 1)]] \in Frame
          <5>1. framesUsed \in Nat
            BY DEF IInv, TypeOK
          <5>2. CASE i \in 1 .. framesUsed
            <6>1. RingQueue[i] \in Frame
              BY <5>2, <5>1, <2>3
            <6> QED  BY <6>1, <5>2, <2>3
          <5>3. CASE i = framesUsed + 1
            <6>1. i - 1 = framesUsed
              BY <5>1, <5>3
            <6> QED  BY <6>1, <4>2
          <5> QED  BY <5>1, <5>2, <5>3
        <4> QED  BY <4>3
      <3>3. framesUsed \in Nat
        BY DEF IInv, TypeOK
      <3> QED  BY <3>1, <3>2, <3>3
    <2>5. content[frames[FreeSlot(firstFramePosition, framesUsed)]]
            = [frame |-> completed + 1, streams |-> sent]
      <3>1. /\ content[frames[writePosition]].frame = completed + 1
            /\ content[frames[writePosition]].streams = sent
            /\ content[frames[writePosition]] \in [frame : Nat, streams : SUBSET Streams]
        BY <2>1, WriterBufferApart DEF IInv, TypeOK, FramesWhole, ClientOpen
      <3> QED  BY <3>1, <2>1 DEF IInv, WriterSlotExclusive, ClientOpen
    <2>6. RingQueue' = Append(RingQueue, [frame |-> completed + 1, streams |-> sent])
      <3> DEFINE new == [frame |-> completed + 1, streams |-> sent]
      <3>1. framesUsed \in Nat
        BY DEF IInv, TypeOK
      <3>2. RingQueue'[framesUsed + 1] = new
        <4>1. (framesUsed + 1) - 1 = framesUsed /\ framesUsed + 1 \in 1 .. framesUsed + 1
          BY <3>1
        <4> QED  BY <4>1, <2>4, <2>5
      <3>3. \A i \in 1 .. framesUsed : RingQueue'[i] = RingQueue[i]
        BY <3>1, <2>3, <2>4
      <3>4. new \in Frame
        BY DEF IInv, TypeOK, Frame
      <3> HIDE DEF new
      <3> QED  BY <3>1, <3>2, <3>3, <3>4, <2>3, <2>4 DEF new
    <2>7. framesUsed < NumFrames
      BY <2>1 DEF IInv, WriterSlotExclusive, ClientOpen
    <2>8. Queue!Complete
      BY <2>1, <2>3, <2>6, <2>7 DEF Queue!Complete, RingQueue
    <2> QED  BY <2>8 DEF Queue!Next
  <1>2. CASE AcceptDrop
    <2>1. /\ client = "accept" /\ client' = "open" /\ dropFrameWhenFull
          /\ framesUsed = NumFrames /\ framesUsed' = framesUsed - 1
          /\ firstFramePosition' = Following(firstFramePosition)
          /\ UNCHANGED <<frames, currentFrameRead, dropFrameWhenFull, content, reader,
                         completed, sent, shown>>
      BY <1>2, SizeAssumption DEF AcceptDrop, IInv, TypeOK
    <2>2. ~NoQueue /\ ~NoQueue'
      BY <2>1 DEF NoQueue
    <2>3. /\ RingQueue \in Seq(Frame) /\ Len(RingQueue) = framesUsed
          /\ \A i \in 1 .. framesUsed :
                RingQueue[i] = content[frames[FreeSlot(firstFramePosition, i - 1)]]
      BY <2>2, RingQueueFacts
    <2>4. RingQueue' = [i \in 1 .. framesUsed - 1 |-> RingQueue[i + 1]]
      <3>1. ASSUME NEW i \in 1 .. framesUsed - 1
            PROVE  content[frames[FreeSlot(firstFramePosition', i - 1)]] = RingQueue[i + 1]
        <4> DEFINE k == i - 1
        <4>1. /\ k \in 0 .. NumFrames - 1 /\ k + 1 = i
              /\ i + 1 \in 1 .. framesUsed /\ (i + 1) - 1 = i
          BY <2>1, SizeAssumption
        <4> HIDE DEF k
        <4>2. FreeSlot(Following(firstFramePosition), k) = FreeSlot(firstFramePosition, k + 1)
          BY <4>1, FreeSlotShift DEF IInv, TypeOK
        <4>3. RingQueue[i + 1] = content[frames[FreeSlot(firstFramePosition, i)]]
          BY <4>1, <2>3
        <4> QED  BY <4>1, <4>2, <4>3, <2>1 DEF k
      <3> QED  BY <3>1, <2>1, <2>2 DEF RingQueue
    <2>5. RingQueue' = Tail(RingQueue)
      <3>1. Len(RingQueue) > 0
        BY <2>1, <2>3, SizeAssumption
      <3>2. Tail(RingQueue) = [i \in 1 .. Len(RingQueue) - 1 |-> RingQueue[i + 1]]
        BY <3>1, <2>3, SeqFacts
      <3> QED  BY <3>2, <2>3, <2>4
    <2>6. Queue!DropOldest
      BY <2>1, <2>3, <2>5 DEF Queue!DropOldest, RingQueue
    <2> QED  BY <2>6 DEF Queue!Next
  <1>3. ASSUME NEW s \in Streams, ReceiveStreamFrame(s)
        PROVE  Queue!Receive(s)
    <2>1. client \in ClientOpen /\ client' = client /\ ~NoQueue
      BY <1>3 DEF ReceiveStreamFrame, ClientOpen, NoQueue
    <2>2. \A b \in Buffers : b # frames[writePosition] => content'[b] = content[b]
      BY <1>3 DEF ReceiveStreamFrame, IInv, TypeOK
    <2>3. ASSUME NEW i \in 1 .. framesUsed
          PROVE  content'[frames[FreeSlot(firstFramePosition, i - 1)]]
                   = content[frames[FreeSlot(firstFramePosition, i - 1)]]
      <3>1. i - 1 \in 0 .. framesUsed - 1
        BY DEF IInv, TypeOK
      <3> QED  BY <3>1, <2>1, <2>2, WriterBufferApart
    <2>4. RingQueue' = RingQueue
      BY <1>3, <2>1, <2>3 DEF ReceiveStreamFrame, RingQueue, NoQueue, ring
    <2>5. Showing' = Showing
      BY <1>3, <2>1, <2>2, WriterBufferApart
      DEF ReceiveStreamFrame, Showing, IInv, FrameOwnership, Freed, NoQueue,
          ReaderHolds, ring, ClientOpen
    <2> QED
      BY <1>3, <2>4, <2>5 DEF Queue!Receive, ReceiveStreamFrame, RingQueue, Showing
  <1>4. CASE StartFrame \/ StampFrame
    <2>1. /\ client \in ClientOpen /\ client' \in ClientOpen /\ ~NoQueue /\ ~NoQueue'
          /\ UNCHANGED <<ring, dropFrameWhenFull, reader, completed, sent, shown>>
      BY <1>4 DEF StartFrame, StampFrame, ClientOpen, NoQueue
    <2>2. \A b \in Buffers : b # frames[writePosition] => content'[b] = content[b]
      BY <1>4 DEF StartFrame, StampFrame, IInv, TypeOK
    <2>3. ASSUME NEW i \in 1 .. framesUsed
          PROVE  content'[frames[FreeSlot(firstFramePosition, i - 1)]]
                   = content[frames[FreeSlot(firstFramePosition, i - 1)]]
      <3>1. i - 1 \in 0 .. framesUsed - 1
        BY DEF IInv, TypeOK
      <3> QED  BY <3>1, <2>1, <2>2, WriterBufferApart
    <2>4. RingQueue' = RingQueue
      BY <2>1, <2>3 DEF RingQueue, ring
    <2>5. Showing' = Showing
      BY <2>1, <2>2, WriterBufferApart
      DEF Showing, IInv, FrameOwnership, Freed, ReaderHolds, ring, ClientOpen
    <2> QED  BY <2>1, <2>4, <2>5 DEF Queue!vars, RingQueue, Showing
  <1>5. CASE CancelFrame
    <2>1. /\ ~NoQueue /\ ~NoQueue' /\ sent' = {}
          /\ UNCHANGED <<ring, dropFrameWhenFull, content, completed, shown>>
          /\ (reader' = "show") = (reader = "show")
      BY <1>5 DEF CancelFrame, SignalFrameWritten, NoQueue
    <2>2. RingQueue' = RingQueue
      BY <2>1, SameQueue DEF ring
    <2>3. Queue!Abandon
      BY <2>1, <2>2 DEF Queue!Abandon, RingQueue, ring
    <2> QED  BY <2>3 DEF Queue!Next
  <1>6. CASE Close \/ ResetFree
    <2>1. /\ NoQueue' /\ sent = {} /\ reader = "exited"
          /\ UNCHANGED <<dropFrameWhenFull, reader, completed, sent, shown>>
      BY <1>6 DEF Close, ResetFree, NoQueue, IInv, FramesWhole
    <2>2. Queue!Flush
      BY <2>1 DEF Queue!Flush, NoQueue
    <2> QED  BY <2>2 DEF Queue!Next
  <1>7. CASE ResetDone
    <2>1. /\ NoQueue /\ framesUsed' = 0 /\ reader = "exited" /\ reader' = "top"
          /\ UNCHANGED <<dropFrameWhenFull, completed, sent, shown>>
      BY <1>7 DEF ResetDone, NoQueue, IInv, FrameOwnership, Freed
    <2>2. RingQueue = << >> /\ RingQueue' = << >>
      BY <2>1 DEF RingQueue
    <2> QED  BY <2>1, <2>2 DEF Queue!vars, RingQueue
  <1>8. CASE \/ AcceptStreamFrame \/ AcceptFree \/ AcceptWait
             \/ StopToClose \/ StopToReset \/ Broadcast
             \/ ResetFails \/ ResetTargetClosed \/ Wakeup
    <2>1. /\ UNCHANGED <<ring, dropFrameWhenFull, content, completed, sent, shown>>
          /\ (reader' = "show") = (reader = "show")
          /\ NoQueue' <=> NoQueue
      BY <1>8 DEF AcceptStreamFrame, AcceptFree, AcceptWait, StopToClose, StopToReset,
         Stop, Broadcast, SignalFrameWritten, ResetFails, ResetTargetClosed,
         Wakeup, SpuriousWakeup, NoQueue
    <2>2. RingQueue' = RingQueue
      BY <2>1, SameQueue DEF ring
    <2> QED  BY <2>1, <2>2 DEF Queue!vars, RingQueue, ring
  <1> QED
    BY <1>1, <1>2, <1>3, <1>4, <1>5, <1>6, <1>7, <1>8
    DEF ClientCall, ClientChoice, Queue!Next

\* The buffered sink implements the bounded frame queue, for every ring size.
THEOREM Refinement == Spec => ImplementsFrameQueue
  <1>1. IInv /\ IInv' /\ [Next]_vars => [Queue!Next]_(Queue!vars)
    <2>1. ASSUME UNCHANGED vars PROVE UNCHANGED Queue!vars
      <3>1. RingQueue' = RingQueue
        BY <2>1, SameQueue DEF vars, ring, NoQueue
      <3> QED  BY <2>1, <3>1 DEF vars, ring, player, Queue!vars, RingQueue
    <2> QED  BY <2>1, ReadThreadRefines, ClientRefines DEF Next
  <1> QED  BY <1>1, InitRefines, Invariance, PTL DEF Spec, Queue!Spec, ImplementsFrameQueue
==============================================================================
