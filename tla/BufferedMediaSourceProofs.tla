---------------------- MODULE BufferedMediaSourceProofs ----------------------
(* Theorems about BufferedMediaSource for any ring, source, faults and       *)
(* bounds, with their proofs.                                                *)
EXTENDS BufferedMediaSource, TLAPS

\* SlotOf names a slot.
LEMMA SlotOfType == \A p \in Int : SlotOf(p) \in Slots
  BY SizeAssumption DEF SlotOf, Slots

\* The first frame can be read, or the read times out: without that the source
\* may be left inside the first frame, see TargetInStep.
NoFirst == "first" \notin Faults
-----------------------------------------------------------------------------
(* The inductive invariant. *)

\* The parts of TypeOK, by the variables they are about.
SlotTypes ==
    /\ isReady \in [Slots -> BOOLEAN]
    /\ position \in [Slots -> Position]
    /\ data \in [Slots -> Data]
FieldTypes ==
    /\ clientWaiting \in BOOLEAN /\ waiting \in BOOLEAN /\ stopped \in BOOLEAN
    /\ clientPosition \in Nat /\ lastPosition \in Position /\ eofPosition \in Position
ReaderTypes ==
    /\ reader \in {"top", "choose", "waitClient", "chosen", "seek", "init", "read",
                  "recover", "publish", "exited"}
    /\ rPosition \in Nat
    /\ haveReadFrame \in BOOLEAN /\ readEOF \in BOOLEAN /\ haveSeeked \in BOOLEAN
ClientTypes ==
    /\ client \in {"idle", "loop", "wait", "restore", "restoreEOF", "send",
                  "stopping", "join", "closed"}
    /\ call \in {"none", "read", "seek"} /\ target \in Nat
    /\ origClientPosition \in Nat /\ waitCount \in 0 .. 2
    /\ sent \in Seq(Data) /\ Len(sent) <= NumStreams
SourceTypes == at \in Nat /\ skew \in BOOLEAN /\ faults \in 0 .. MaxFaults
ObservedTypes ==
    /\ result \in {"none", "ok", "failed", "failed at eof", "timed out", "refused"}
    /\ before \in Nat /\ faultInCall \in BOOLEAN /\ overtaken \in BOOLEAN
Types == SlotTypes /\ FieldTypes /\ ReaderTypes /\ ClientTypes /\ SourceTypes
      /\ ObservedTypes

\* A frame is being read, or sought: where the target source is at each step of
\* the read thread, and what the thread knows of the outcome.
Fetching == {"chosen", "seek", "init", "read"}
SourceAt ==
    /\ at <= SourceLength /\ lastPosition < SourceLength
    /\ EofExact
    /\ reader \notin {"init", "read", "recover", "publish"} => at = lastPosition + 1
    /\ reader \in {"init", "read"} => at = rPosition
    /\ reader = "recover" => at = IF haveSeeked THEN rPosition ELSE lastPosition + 1
    /\ reader = "publish" => at = IF haveReadFrame THEN rPosition + 1 ELSE lastPosition + 1
    /\ reader = "seek" => rPosition # lastPosition + 1
    /\ reader \in Fetching => ~haveReadFrame /\ ~readEOF
    /\ reader \in {"chosen", "seek"} => ~haveSeeked
    /\ reader \in {"init", "read", "recover"} /\ haveSeeked => rPosition # lastPosition + 1
    /\ reader \in {"init", "read"} /\ ~haveSeeked => rPosition = lastPosition + 1
    /\ reader \in {"recover", "publish"} /\ readEOF => rPosition = SourceLength
    /\ reader = "recover" => ~haveReadFrame
    /\ reader = "publish" /\ haveReadFrame => rPosition < SourceLength /\ ~readEOF

\* Only an attempt that failed leaves the source inside a frame, and the recovery
\* that follows can get it out, as there is a frame before it to seek to.
Aligned ==
    NoFirst /\ skew => reader = "recover" /\ (haveSeeked \/ lastPosition >= 0)

\* What the slots hold; that of the frame being read is out of the ring.
SlotsHold ==
    /\ \A i \in Slots : isReady[i] => SlotOf(position[i]) = i
    /\ NoFirst => RingHoldsFrames
    /\ reader = "read" => ~isReady[SlotOf(rPosition)]
    /\ reader = "publish" /\ haveReadFrame =>
          /\ ~isReady[SlotOf(rPosition)]
          /\ NoFirst => data[SlotOf(rPosition)] = rPosition

\* While the client sends a frame it is in the ring, and what has been sent is it.
Sending ==
    /\ client # "send" => sent = <<>> /\ ~overtaken
    /\ client = "send" /\ ~overtaken =>
          /\ FrameReady(clientPosition)
          /\ reader \in {"chosen", "seek", "init"} =>
                SlotOf(rPosition) # SlotOf(clientPosition)
          /\ NoFirst => \A k \in 1 .. Len(sent) : sent[k] = clientPosition

\* Once woken the client finds its frame, or the end of the source, or a read
\* thread that will fetch the frame next or is doing so.
Served(p) == FrameReady(p) \/ IsEOF(p)
Undisturbed(p) ==
    reader \in {"chosen", "seek", "init"} /\ FrameReady(p) => SlotOf(rPosition) # SlotOf(p)
Fetched(p) ==
    /\ rPosition = p
    /\ \/ reader \in Fetching
       \/ reader = "recover" /\ readEOF
       \/ reader = "publish" /\ (haveReadFrame \/ readEOF)
Excused == faultInCall \/ Wanted > SourceLength
Woken == (client = "loop" /\ waitCount > 0) \/ (client = "wait" /\ waitCount = 2)
Waits ==
    /\ client \in {"loop", "wait", "restore"} => call \in {"read", "seek"}
    /\ client \in {"loop", "wait"} /\ call = "read" => clientPosition = before
    /\ client = "wait" \/ (client = "loop" /\ waitCount > 0) => clientPosition = Wanted
    /\ client = "wait" => waitCount > 0
    /\ client = "restore" => Excused
    /\ Woken =>
          \/ Excused
          \/ /\ Undisturbed(clientPosition)
             /\ ~ReaderBusy \/ Served(clientPosition) \/ Fetched(clientPosition)
             /\ client = "loop" /\ waitCount = 2 => Served(clientPosition)

IInv == Types /\ SourceAt /\ Aligned /\ SlotsHold /\ Sending /\ Waits /\ FailsOnlyOnFault
-----------------------------------------------------------------------------
(* Steps of the read thread. *)

\* The tests of stopped, and what the frame chosen calls for.
LEMMA ReadThreadCheckKeeps ==
    ASSUME IInv, ReadThreadCheck
    PROVE  IInv'
  <1>1. /\ SlotTypes /\ FieldTypes /\ ReaderTypes /\ ClientTypes /\ SourceTypes
        /\ ObservedTypes
        /\ SourceAt /\ Aligned /\ SlotsHold /\ Sending /\ Waits /\ FailsOnlyOnFault
    BY DEF IInv, Types
  <1>2. /\ isReady' = isReady /\ position' = position /\ data' = data
        /\ clientWaiting' = clientWaiting /\ clientPosition' = clientPosition
        /\ waiting' = waiting /\ lastPosition' = lastPosition /\ eofPosition' = eofPosition
        /\ stopped' = stopped /\ rPosition' = rPosition /\ haveReadFrame' = haveReadFrame
        /\ readEOF' = readEOF /\ haveSeeked' = haveSeeked /\ client' = client
              /\ call' = call
        /\ target' = target /\ origClientPosition' = origClientPosition
        /\ waitCount' = waitCount /\ sent' = sent /\ at' = at /\ skew' = skew
        /\ faults' = faults /\ result' = result /\ before' = before
        /\ faultInCall' = faultInCall /\ overtaken' = overtaken
    BY DEF ReadThreadCheck, slots, shared, readerLocals, clientLocals, source, observed
  <1>3. /\ reader \in {"top", "chosen"}
        /\ reader = "top" => reader' \in {"exited", "choose"}
        /\ reader = "chosen" =>
              \/ reader' = "exited"
              \/ reader' = "publish" /\ IsEOF(rPosition)
              \/ reader' = "seek" /\ rPosition # lastPosition + 1
              \/ reader' = "init" /\ rPosition = lastPosition + 1
    BY DEF ReadThreadCheck
  <1>4. SlotTypes'
    BY <1>1, <1>2 DEF SlotTypes
  <1>5. FieldTypes'
    BY <1>1, <1>2 DEF FieldTypes
  <1>6. ClientTypes'
    BY <1>1, <1>2 DEF ClientTypes
  <1>7. SourceTypes'
    BY <1>1, <1>2 DEF SourceTypes
  <1>8. ObservedTypes'
    BY <1>1, <1>2 DEF ObservedTypes
  <1>9. FailsOnlyOnFault'
    BY <1>1, <1>2 DEF FailsOnlyOnFault, Wanted
  <1>10. ReaderTypes'
    BY <1>1, <1>2, <1>3 DEF ReaderTypes
  <1>11. SourceAt'
    BY <1>1, <1>2, <1>3 DEF SourceAt, EofExact, Fetching
  <1>12. Aligned'
    BY <1>1, <1>2, <1>3 DEF Aligned
  <1>13. SlotsHold'
    BY <1>1, <1>2, <1>3 DEF SlotsHold, RingHoldsFrames, SourceAt, Fetching
  <1>14. Sending'
    BY <1>1, <1>2, <1>3 DEF Sending, FrameReady
  <1>15. Waits'
    BY <1>1, <1>2, <1>3
    DEF Waits, Woken, Excused, Wanted, Undisturbed, ReaderBusy, Served, Fetched,
        FrameReady, IsEOF, Fetching
  <1> QED  BY <1>4, <1>5, <1>6, <1>7, <1>8, <1>9, <1>10, <1>11, <1>12, <1>13, <1>14,
      <1>15
  DEF IInv, Types

\* The ring is full and the client has its frame: it is told so.
LEMMA WaitForClientKeeps ==
    ASSUME IInv, WaitForClient
    PROVE  IInv'
  <1>1. /\ SlotTypes /\ FieldTypes /\ ReaderTypes /\ ClientTypes /\ SourceTypes
        /\ ObservedTypes
        /\ SourceAt /\ Aligned /\ SlotsHold /\ Sending /\ Waits /\ FailsOnlyOnFault
    BY DEF IInv, Types
  <1>2. /\ isReady' = isReady /\ position' = position /\ data' = data
        /\ clientWaiting' = clientWaiting /\ clientPosition' = clientPosition
        /\ lastPosition' = lastPosition /\ eofPosition' = eofPosition /\ stopped' = stopped
        /\ rPosition' = rPosition /\ haveReadFrame' = haveReadFrame /\ readEOF' = readEOF
        /\ haveSeeked' = haveSeeked /\ call' = call /\ target' = target
        /\ origClientPosition' = origClientPosition /\ waitCount' = waitCount
              /\ sent' = sent
        /\ at' = at /\ skew' = skew /\ faults' = faults /\ result' = result
              /\ before' = before
        /\ faultInCall' = faultInCall /\ overtaken' = overtaken
    BY DEF WaitForClient, slots, shared, readerLocals, clientLocals, source, observed
  <1>3. reader = "choose" /\ reader' = "waitClient" /\ waiting' = TRUE
        /\ FrameReady(clientPosition)
    BY DEF WaitForClient
  <1>4. client' = (IF clientWaiting /\ client = "wait" THEN "loop" ELSE client)
    BY DEF WaitForClient, SignalClient
  <1>5. client' = client \/ (client = "wait" /\ client' = "loop")
    BY <1>4
  <1>6. waiting' \in BOOLEAN
    BY <1>3, Zenon
  <1>7. SlotTypes'
    BY <1>1, <1>2 DEF SlotTypes
  <1>8. SourceTypes'
    BY <1>1, <1>2 DEF SourceTypes
  <1>9. ObservedTypes'
    BY <1>1, <1>2 DEF ObservedTypes
  <1>10. FieldTypes'
    BY <1>1, <1>2, <1>3, <1>4, <1>6 DEF FieldTypes
  <1>11. ReaderTypes'
    BY <1>1, <1>2, <1>3 DEF ReaderTypes
  <1>12. ClientTypes'
    BY <1>1, <1>2, <1>4, <1>5 DEF ClientTypes
  <1>13. SourceAt'
    BY <1>1, <1>2, <1>3 DEF SourceAt, EofExact, Fetching
  <1>14. Aligned'
    BY <1>1, <1>2, <1>3 DEF Aligned
  <1>15. SlotsHold'
    BY <1>1, <1>2, <1>3 DEF SlotsHold, RingHoldsFrames
  <1>16. Sending'
    BY <1>1, <1>2, <1>3, <1>4, <1>5 DEF Sending, FrameReady
  <1>17. Waits'
    BY <1>1, <1>2, <1>3, <1>4, <1>5
    DEF Waits, Woken, Excused, Wanted, Undisturbed, ReaderBusy, Served, Fetched,
        FrameReady, IsEOF, Fetching
  <1>18. FailsOnlyOnFault'
    BY <1>1, <1>2, <1>4, <1>5 DEF FailsOnlyOnFault, Wanted
  <1> QED  BY <1>7, <1>8, <1>9, <1>10, <1>11, <1>12, <1>13, <1>14, <1>15, <1>16, <1>17,
      <1>18
  DEF IInv, Types

\* The frame chosen is that of the client, unless it is in the ring; then the next one
\* is, which has another slot.
LEMMA ChooseFrameKeeps ==
    ASSUME IInv, ChooseFrame
    PROVE  IInv'
  <1>1. /\ SlotTypes /\ FieldTypes /\ ReaderTypes /\ ClientTypes /\ SourceTypes
        /\ ObservedTypes
        /\ SourceAt /\ Aligned /\ SlotsHold /\ Sending /\ Waits /\ FailsOnlyOnFault
    BY DEF IInv, Types
  <1>2. /\ isReady' = isReady /\ position' = position /\ data' = data
        /\ clientWaiting' = clientWaiting /\ clientPosition' = clientPosition
        /\ lastPosition' = lastPosition /\ eofPosition' = eofPosition /\ stopped' = stopped
        /\ client' = client /\ call' = call /\ target' = target
        /\ origClientPosition' = origClientPosition /\ waitCount' = waitCount
              /\ sent' = sent
        /\ at' = at /\ skew' = skew /\ faults' = faults /\ result' = result
              /\ before' = before
        /\ faultInCall' = faultInCall /\ overtaken' = overtaken
    BY DEF ChooseFrame, slots, shared, clientLocals, source, observed
  <1>3. /\ reader = "choose" /\ reader' = "chosen"
        /\ FrameReady(clientPosition) =>
              /\ rPosition' = lastPosition + 1
              /\ SlotOf(rPosition') # SlotOf(clientPosition)
        /\ ~FrameReady(clientPosition) => rPosition' = clientPosition
    BY DEF ChooseFrame, RingFull
  <1>4. waiting' = FALSE /\ haveReadFrame' = FALSE /\ readEOF' = FALSE
        /\ haveSeeked' = FALSE
    BY DEF ChooseFrame
  <1>5. waiting' \in BOOLEAN /\ haveReadFrame' \in BOOLEAN /\ readEOF' \in BOOLEAN
        /\ haveSeeked' \in BOOLEAN
    BY <1>4, Zenon
  <1>6. rPosition' \in Nat
    BY <1>1, <1>3 DEF FieldTypes, Position
  <1>7. SlotTypes'
    BY <1>1, <1>2 DEF SlotTypes
  <1>8. ClientTypes'
    BY <1>1, <1>2 DEF ClientTypes
  <1>9. SourceTypes'
    BY <1>1, <1>2 DEF SourceTypes
  <1>10. ObservedTypes'
    BY <1>1, <1>2 DEF ObservedTypes
  <1>11. FailsOnlyOnFault'
    BY <1>1, <1>2 DEF FailsOnlyOnFault, Wanted
  <1>12. FieldTypes'
    BY <1>1, <1>2, <1>3, <1>4, <1>5 DEF FieldTypes
  <1>13. ReaderTypes'
    BY <1>1, <1>2, <1>3, <1>4, <1>5, <1>6 DEF ReaderTypes
  <1>14. SourceAt'
    BY <1>1, <1>2, <1>3, <1>4, <1>6 DEF SourceAt, EofExact, Fetching
  <1>15. Aligned'
    BY <1>1, <1>2, <1>3, <1>4 DEF Aligned
  <1>16. SlotsHold'
    BY <1>1, <1>2, <1>3, <1>4, <1>6 DEF SlotsHold, RingHoldsFrames
  <1>17. Sending'
    BY <1>1, <1>2, <1>3, <1>6 DEF Sending, FrameReady
  <1>18. Waits'
    BY <1>1, <1>2, <1>3, <1>4, <1>6
    DEF Waits, Woken, Excused, Wanted, Undisturbed, ReaderBusy, Served, Fetched,
        FrameReady, IsEOF, Fetching
  <1> QED  BY <1>7, <1>8, <1>9, <1>10, <1>11, <1>12, <1>13, <1>14, <1>15, <1>16, <1>17,
      <1>18
  DEF IInv, Types

\* The seek arrives at the frame, or leaves the source as it was.
LEMMA SeekTargetKeeps ==
    ASSUME IInv, SeekTarget
    PROVE  IInv'
  <1>1. /\ SlotTypes /\ FieldTypes /\ ReaderTypes /\ ClientTypes /\ SourceTypes
        /\ ObservedTypes
        /\ SourceAt /\ Aligned /\ SlotsHold /\ Sending /\ Waits /\ FailsOnlyOnFault
    BY DEF IInv, Types
  <1>2. /\ isReady' = isReady /\ position' = position /\ data' = data
        /\ clientWaiting' = clientWaiting /\ clientPosition' = clientPosition
        /\ waiting' = waiting /\ lastPosition' = lastPosition /\ eofPosition' = eofPosition
        /\ stopped' = stopped /\ rPosition' = rPosition /\ haveReadFrame' = haveReadFrame
        /\ readEOF' = readEOF /\ client' = client /\ call' = call /\ target' = target
        /\ origClientPosition' = origClientPosition /\ waitCount' = waitCount
              /\ sent' = sent
        /\ result' = result /\ before' = before /\ overtaken' = overtaken
    BY DEF SeekTarget, slots, shared, readerLocals, clientLocals, observed
  <1>3. /\ reader = "seek" /\ at \in Nat /\ rPosition \in Nat /\ at # rPosition
        /\ SourceLength \in Nat
    BY <1>1, LengthAssumption DEF SeekTarget, SourceAt, SourceTypes, ReaderTypes
  <1> DEFINE s == SeekOutcome(rPosition, at, skew)
  <1> HIDE DEF s
  <1>4. /\ rPosition <= SourceLength => s = [ok |-> TRUE, at |-> rPosition, skew |-> FALSE]
        /\ rPosition > SourceLength => s = [ok |-> FALSE, at |-> at, skew |-> skew]
    <2>1. ASSUME rPosition \in 0 .. SourceLength
          PROVE  s = [ok |-> TRUE, at |-> rPosition, skew |-> FALSE]
      BY <1>3, <2>1 DEF s, SeekOutcome
    <2>2. ASSUME rPosition \notin 0 .. SourceLength
          PROVE  s = [ok |-> FALSE, at |-> at, skew |-> skew]
      BY <1>3, <2>2 DEF s, SeekOutcome
    <2> QED  BY <1>3, <2>1, <2>2
  <1>5. \/ /\ at' = s.at /\ skew' = s.skew /\ haveSeeked' = s.ok
           /\ reader' = (IF s.ok THEN "init" ELSE "recover")
           /\ faults' = faults /\ faultInCall' = faultInCall
        \/ /\ at' = at /\ skew' = skew /\ haveSeeked' = haveSeeked /\ reader' = "recover"
           /\ faults < MaxFaults /\ faults' = faults + 1 /\ faultInCall' = TRUE
    BY DEF SeekTarget, CanFail, Fault, NoFault, s
  <1>6. \/ /\ rPosition <= SourceLength
           /\ at' = rPosition /\ skew' = FALSE /\ haveSeeked' = TRUE /\ reader' = "init"
           /\ faults' = faults /\ faultInCall' = faultInCall
        \/ /\ rPosition > SourceLength
           /\ at' = at /\ skew' = skew /\ haveSeeked' = FALSE /\ reader' = "recover"
           /\ faults' = faults /\ faultInCall' = faultInCall
        \/ /\ at' = at /\ skew' = skew /\ haveSeeked' = haveSeeked /\ reader' = "recover"
           /\ faults < MaxFaults /\ faults' = faults + 1 /\ faultInCall' = TRUE
    BY <1>3, <1>4, <1>5
  <1>7. skew' \in BOOLEAN /\ haveSeeked' \in BOOLEAN /\ faultInCall' \in BOOLEAN
    BY <1>1, <1>6, Zenon DEF SourceTypes, ReaderTypes, ObservedTypes
  <1>8. faults' \in 0 .. MaxFaults
    BY <1>1, <1>6, FaultAssumption DEF SourceTypes
  <1>9. SlotTypes'
    BY <1>1, <1>2 DEF SlotTypes
  <1>10. FieldTypes'
    BY <1>1, <1>2 DEF FieldTypes
  <1>11. ClientTypes'
    BY <1>1, <1>2 DEF ClientTypes
  <1>12. ReaderTypes'
    BY <1>1, <1>2, <1>3, <1>6, <1>7 DEF ReaderTypes
  <1>13. SourceTypes'
    BY <1>1, <1>2, <1>3, <1>6, <1>7, <1>8 DEF SourceTypes
  <1>14. ObservedTypes'
    BY <1>1, <1>2, <1>6, <1>7 DEF ObservedTypes
  <1>15. SourceAt'
    BY <1>1, <1>2, <1>3, <1>6 DEF SourceAt, EofExact, Fetching
  <1>16. Aligned'
    BY <1>1, <1>2, <1>3, <1>6 DEF Aligned
  <1>17. SlotsHold'
    BY <1>1, <1>2, <1>3, <1>6 DEF SlotsHold, RingHoldsFrames
  <1>18. Sending'
    BY <1>1, <1>2, <1>3, <1>6 DEF Sending, FrameReady
  <1>19. Waits'
    BY <1>1, <1>2, <1>3, <1>6
    DEF Waits, Woken, Excused, Wanted, Undisturbed, ReaderBusy, Served, Fetched,
        FrameReady, IsEOF, Fetching
  <1>20. FailsOnlyOnFault'
    BY <1>1, <1>2, <1>6 DEF FailsOnlyOnFault, Wanted
  <1> QED  BY <1>9, <1>10, <1>11, <1>12, <1>13, <1>14, <1>15, <1>16, <1>17, <1>18,
      <1>19, <1>20
  DEF IInv, Types

\* The slot is taken out of the ring; it is not the client's.
LEMMA InitialiseSlotKeeps ==
    ASSUME IInv, InitialiseSlot
    PROVE  IInv'
  <1>1. /\ SlotTypes /\ FieldTypes /\ ReaderTypes /\ ClientTypes /\ SourceTypes
        /\ ObservedTypes
        /\ SourceAt /\ Aligned /\ SlotsHold /\ Sending /\ Waits /\ FailsOnlyOnFault
    BY DEF IInv, Types
  <1>2. /\ clientWaiting' = clientWaiting /\ clientPosition' = clientPosition
        /\ waiting' = waiting /\ lastPosition' = lastPosition /\ eofPosition' = eofPosition
        /\ stopped' = stopped /\ rPosition' = rPosition /\ haveReadFrame' = haveReadFrame
        /\ readEOF' = readEOF /\ haveSeeked' = haveSeeked /\ client' = client
              /\ call' = call
        /\ target' = target /\ origClientPosition' = origClientPosition
        /\ waitCount' = waitCount /\ sent' = sent /\ at' = at /\ skew' = skew
        /\ faults' = faults /\ result' = result /\ before' = before
        /\ faultInCall' = faultInCall /\ overtaken' = overtaken
    BY DEF InitialiseSlot, shared, readerLocals, clientLocals, source, observed
  <1>3. /\ reader = "init" /\ reader' = "read"
        /\ isReady' = [isReady EXCEPT ![SlotOf(rPosition)] = FALSE]
        /\ position' = [position EXCEPT ![SlotOf(rPosition)] = -1]
        /\ data' = [data EXCEPT ![SlotOf(rPosition)] = Nothing]
    BY DEF InitialiseSlot
  <1>4. /\ rPosition \in Nat /\ clientPosition \in Nat /\ SlotOf(rPosition) \in Slots
        /\ SlotOf(clientPosition) \in Slots
    BY <1>1, SlotOfType DEF ReaderTypes, FieldTypes
  <1>5. /\ isReady'[SlotOf(rPosition)] = FALSE /\ position'[SlotOf(rPosition)] = -1
        /\ \A i \in Slots \ {SlotOf(rPosition)} :
              isReady'[i] = isReady[i] /\ position'[i] = position[i] /\ data'[i] = data[i]
    BY <1>1, <1>3, <1>4 DEF SlotTypes
  <1>6. isReady' \in [Slots -> BOOLEAN] /\ position' \in [Slots -> Position]
        /\ data' \in [Slots -> Data]
    BY <1>1, <1>3, <1>4 DEF SlotTypes, Position, Data
  <1>7. FieldTypes'
    BY <1>1, <1>2 DEF FieldTypes
  <1>8. ClientTypes'
    BY <1>1, <1>2 DEF ClientTypes
  <1>9. SourceTypes'
    BY <1>1, <1>2 DEF SourceTypes
  <1>10. ObservedTypes'
    BY <1>1, <1>2 DEF ObservedTypes
  <1>11. FailsOnlyOnFault'
    BY <1>1, <1>2 DEF FailsOnlyOnFault, Wanted
  <1>12. SlotTypes'
    BY <1>1, <1>2, <1>3, <1>5, <1>6 DEF SlotTypes
  <1>13. ReaderTypes'
    BY <1>1, <1>2, <1>3, <1>4, <1>5 DEF ReaderTypes
  <1>14. SourceAt'
    BY <1>1, <1>2, <1>3, <1>4, <1>5 DEF SourceAt, EofExact, Fetching
  <1>15. Aligned'
    BY <1>1, <1>2, <1>3 DEF Aligned
  <1>16. SlotsHold'
    BY <1>1, <1>2, <1>3, <1>4, <1>5, <1>6 DEF SlotsHold, RingHoldsFrames
  <1>17. Sending'
    BY <1>1, <1>2, <1>3, <1>4, <1>5, <1>6 DEF Sending, FrameReady
  <1>18. Waits'
    BY <1>1, <1>2, <1>3, <1>4, <1>5, <1>6
    DEF Waits, Woken, Excused, Wanted, Undisturbed, ReaderBusy, Served, Fetched,
        FrameReady, IsEOF, Fetching
  <1> QED  BY <1>7, <1>8, <1>9, <1>10, <1>11, <1>12, <1>13, <1>14, <1>15, <1>16, <1>17,
      <1>18
  DEF IInv, Types

\* The frame is read: unless the source was inside a frame, it is the one chosen.
LEMMA ReadFrameOKKeeps ==
    ASSUME IInv, ReadFrameOK
    PROVE  IInv'
  <1>1. /\ SlotTypes /\ FieldTypes /\ ReaderTypes /\ ClientTypes /\ SourceTypes
        /\ ObservedTypes
        /\ SourceAt /\ Aligned /\ SlotsHold /\ Sending /\ Waits /\ FailsOnlyOnFault
    BY DEF IInv, Types
  <1>2. /\ isReady' = isReady /\ position' = position /\ clientWaiting' = clientWaiting
        /\ clientPosition' = clientPosition /\ waiting' = waiting
        /\ lastPosition' = lastPosition /\ eofPosition' = eofPosition /\ stopped' = stopped
        /\ rPosition' = rPosition /\ readEOF' = readEOF /\ haveSeeked' = haveSeeked
        /\ client' = client /\ call' = call /\ target' = target
        /\ origClientPosition' = origClientPosition /\ waitCount' = waitCount
              /\ sent' = sent
        /\ skew' = skew /\ faults' = faults /\ result' = result /\ before' = before
        /\ faultInCall' = faultInCall /\ overtaken' = overtaken
    BY DEF ReadFrameOK, slots, shared, readerLocals, clientLocals, source, observed
  <1>3. /\ reader = "read" /\ reader' = "publish" /\ at < SourceLength
        /\ at' = at + 1 /\ haveReadFrame' = TRUE
        /\ data' = [data EXCEPT ![SlotOf(rPosition)] = IF skew THEN Skewed ELSE at]
    BY DEF ReadFrameOK
  <1>4. rPosition \in Nat /\ SlotOf(rPosition) \in Slots /\ at = rPosition
    BY <1>1, <1>3, SlotOfType DEF ReaderTypes, SourceAt
  <1>5. /\ data' \in [Slots -> Data]
        /\ ~skew => data'[SlotOf(rPosition)] = rPosition
        /\ \A i \in Slots \ {SlotOf(rPosition)} : data'[i] = data[i]
    BY <1>1, <1>3, <1>4 DEF SlotTypes, Data, SourceTypes
  <1>6. haveReadFrame' \in BOOLEAN
    BY <1>3, Zenon
  <1>7. NoFirst => ~skew
    BY <1>1, <1>3 DEF Aligned
  <1>8. SourceLength \in Nat /\ at \in Nat /\ lastPosition \in Int
    BY <1>1, LengthAssumption DEF SourceTypes, FieldTypes, Position
  <1>9. FieldTypes'
    BY <1>1, <1>2 DEF FieldTypes
  <1>10. ClientTypes'
    BY <1>1, <1>2 DEF ClientTypes
  <1>11. ObservedTypes'
    BY <1>1, <1>2 DEF ObservedTypes
  <1>12. FailsOnlyOnFault'
    BY <1>1, <1>2 DEF FailsOnlyOnFault, Wanted
  <1>13. SlotTypes'
    BY <1>1, <1>2, <1>3, <1>5 DEF SlotTypes
  <1>14. ReaderTypes'
    BY <1>1, <1>2, <1>3, <1>4, <1>5, <1>6 DEF ReaderTypes
  <1>15. SourceTypes'
    BY <1>1, <1>2, <1>3, <1>4, <1>5, <1>7, <1>8 DEF SourceTypes
  <1>16. SourceAt'
    BY <1>1, <1>2, <1>3, <1>4, <1>5, <1>8 DEF SourceAt, EofExact, Fetching
  <1>17. Aligned'
    BY <1>1, <1>2, <1>3, <1>5, <1>7, <1>8 DEF Aligned
  <1>18. SlotsHold'
    BY <1>1, <1>2, <1>3, <1>4, <1>5, <1>7 DEF SlotsHold, RingHoldsFrames
  <1>19. Sending'
    BY <1>1, <1>2, <1>3, <1>4, <1>5, <1>7 DEF Sending, FrameReady
  <1>20. Waits'
    BY <1>1, <1>2, <1>3, <1>4, <1>5, <1>7
    DEF Waits, Woken, Excused, Wanted, Undisturbed, ReaderBusy, Served, Fetched,
        FrameReady, IsEOF, Fetching
  <1> QED  BY <1>9, <1>10, <1>11, <1>12, <1>13, <1>14, <1>15, <1>16, <1>17, <1>18,
      <1>19, <1>20
  DEF IInv, Types

\* The read fails: at the end of the source, inside the frame, or without having moved.
LEMMA ReadFrameFailsKeeps ==
    ASSUME IInv, ReadFrameFails
    PROVE  IInv'
  <1>1. /\ SlotTypes /\ FieldTypes /\ ReaderTypes /\ ClientTypes /\ SourceTypes
        /\ ObservedTypes
        /\ SourceAt /\ Aligned /\ SlotsHold /\ Sending /\ Waits /\ FailsOnlyOnFault
    BY DEF IInv, Types
  <1>2. /\ isReady' = isReady /\ position' = position /\ data' = data
        /\ clientWaiting' = clientWaiting /\ clientPosition' = clientPosition
        /\ waiting' = waiting /\ lastPosition' = lastPosition /\ eofPosition' = eofPosition
        /\ stopped' = stopped /\ rPosition' = rPosition /\ haveReadFrame' = haveReadFrame
        /\ haveSeeked' = haveSeeked /\ client' = client /\ call' = call /\ target' = target
        /\ origClientPosition' = origClientPosition /\ waitCount' = waitCount
              /\ sent' = sent
        /\ result' = result /\ before' = before /\ overtaken' = overtaken
    BY DEF ReadFrameFails, slots, shared, readerLocals, clientLocals, observed
  <1>3. reader = "read" /\ reader' = "recover" /\ at = rPosition /\ at \in Nat
        /\ SourceLength \in Nat
    BY <1>1, LengthAssumption DEF ReadFrameFails, SourceAt, SourceTypes
  <1>4. \/ /\ at >= SourceLength /\ readEOF' = TRUE /\ at' = at /\ skew' = skew
           /\ faults' = faults /\ faultInCall' = faultInCall
        \/ /\ at = 0 => ~NoFirst
           /\ at < SourceLength /\ readEOF' = readEOF /\ at' = at /\ skew' = TRUE
           /\ faults < MaxFaults /\ faults' = faults + 1 /\ faultInCall' = TRUE
        \/ /\ readEOF' = readEOF /\ at' = at /\ skew' = skew
           /\ faults < MaxFaults /\ faults' = faults + 1 /\ faultInCall' = TRUE
    BY <1>3 DEF ReadFrameFails, CanFail, Fault, NoFault, NoFirst
  <1>5. skew' \in BOOLEAN /\ readEOF' \in BOOLEAN /\ faultInCall' \in BOOLEAN
    BY <1>1, <1>4, Zenon DEF SourceTypes, ReaderTypes, ObservedTypes
  <1>6. faults' \in 0 .. MaxFaults
    BY <1>1, <1>4, FaultAssumption DEF SourceTypes
  <1>7. lastPosition \in Int /\ lastPosition >= -1
    BY <1>1 DEF FieldTypes, Position
  <1>8. at = 0 \/ haveSeeked \/ lastPosition >= 0
    BY <1>1, <1>3, <1>7 DEF SourceAt
  <1>9. SlotTypes'
    BY <1>1, <1>2 DEF SlotTypes
  <1>10. FieldTypes'
    BY <1>1, <1>2 DEF FieldTypes
  <1>11. ClientTypes'
    BY <1>1, <1>2 DEF ClientTypes
  <1>12. ReaderTypes'
    BY <1>1, <1>2, <1>3, <1>4, <1>5, <1>8 DEF ReaderTypes
  <1>13. SourceTypes'
    BY <1>1, <1>2, <1>3, <1>4, <1>5, <1>6, <1>8 DEF SourceTypes
  <1>14. ObservedTypes'
    BY <1>1, <1>2, <1>4, <1>5 DEF ObservedTypes
  <1>15. SourceAt'
    BY <1>1, <1>2, <1>3, <1>4, <1>7, <1>8 DEF SourceAt, EofExact, Fetching
  <1>16. Aligned'
    BY <1>1, <1>2, <1>3, <1>4, <1>7, <1>8 DEF Aligned
  <1>17. SlotsHold'
    BY <1>1, <1>2, <1>3, <1>4 DEF SlotsHold, RingHoldsFrames
  <1>18. Sending'
    BY <1>1, <1>2, <1>3, <1>4 DEF Sending, FrameReady
  <1>19. Waits'
    BY <1>1, <1>2, <1>3, <1>4
    DEF Waits, Woken, Excused, Wanted, Undisturbed, ReaderBusy, Served, Fetched,
        FrameReady, IsEOF, Fetching
  <1>20. FailsOnlyOnFault'
    BY <1>1, <1>2, <1>4 DEF FailsOnlyOnFault, Wanted
  <1> QED  BY <1>9, <1>10, <1>11, <1>12, <1>13, <1>14, <1>15, <1>16, <1>17, <1>18,
      <1>19, <1>20
  DEF IInv, Types

\* The source goes to the frame after the last one read, and to its start.
LEMMA RecoverPositionKeeps ==
    ASSUME IInv, RecoverPosition
    PROVE  IInv'
  <1>1. /\ SlotTypes /\ FieldTypes /\ ReaderTypes /\ ClientTypes /\ SourceTypes
        /\ ObservedTypes
        /\ SourceAt /\ Aligned /\ SlotsHold /\ Sending /\ Waits /\ FailsOnlyOnFault
    BY DEF IInv, Types
  <1>2. /\ isReady' = isReady /\ position' = position /\ data' = data
        /\ clientWaiting' = clientWaiting /\ clientPosition' = clientPosition
        /\ waiting' = waiting /\ lastPosition' = lastPosition /\ eofPosition' = eofPosition
        /\ stopped' = stopped /\ rPosition' = rPosition /\ haveReadFrame' = haveReadFrame
        /\ readEOF' = readEOF /\ haveSeeked' = haveSeeked /\ client' = client
              /\ call' = call
        /\ target' = target /\ origClientPosition' = origClientPosition
        /\ waitCount' = waitCount /\ sent' = sent /\ faults' = faults /\ result' = result
        /\ before' = before /\ faultInCall' = faultInCall /\ overtaken' = overtaken
    BY DEF RecoverPosition, slots, shared, readerLocals, clientLocals, source, observed
  <1>3. reader = "recover" /\ reader' = "publish" /\ SourceLength \in Nat
    BY LengthAssumption DEF RecoverPosition
  <1>4. /\ lastPosition \in Int /\ lastPosition >= -1 /\ lastPosition < SourceLength
        /\ at \in Nat /\ rPosition \in Nat
    BY <1>1 DEF FieldTypes, Position, SourceAt, SourceTypes, ReaderTypes
  <1> DEFINE back == IF haveSeeked THEN [ok |-> TRUE, at |-> at, skew |-> skew]
                     ELSE SeekOutcome(lastPosition, at, skew)
             again == IF back.ok THEN SeekOutcome(lastPosition + 1, back.at, back.skew)
                      ELSE back
  <1> HIDE DEF back, again
  <1>5. at' = again.at /\ skew' = again.skew
    BY DEF RecoverPosition, back, again
  <1>6. /\ haveSeeked => back.ok = TRUE /\ back.at # lastPosition + 1
        /\ ~haveSeeked /\ lastPosition = -1 => back.ok = FALSE /\ back.at = at
              /\ back.skew = skew
        /\ ~haveSeeked /\ lastPosition >= 0 => back.ok = TRUE /\ back.at # lastPosition + 1
    <2>1. ASSUME haveSeeked
          PROVE  back.ok = TRUE /\ back.at # lastPosition + 1
      <3>1. back = [ok |-> TRUE, at |-> at, skew |-> skew]
        BY <2>1 DEF back
      <3>2. at # lastPosition + 1
        BY <1>1, <1>3, <2>1 DEF SourceAt
      <3> QED  BY <3>1, <3>2
    <2>2. ASSUME ~haveSeeked, lastPosition = -1
          PROVE  back.ok = FALSE /\ back.at = at /\ back.skew = skew
      <3>1. back = [ok |-> FALSE, at |-> at, skew |-> skew]
        BY <1>4, <2>2 DEF back, SeekOutcome
      <3> QED  BY <3>1
    <2>3. ASSUME ~haveSeeked, lastPosition >= 0
          PROVE  back.ok = TRUE /\ back.at # lastPosition + 1
      <3>1. lastPosition \in 0 .. SourceLength /\ lastPosition # at
        BY <1>1, <1>3, <1>4, <2>3 DEF SourceAt
      <3>2. back = [ok |-> TRUE, at |-> lastPosition, skew |-> FALSE]
        BY <2>3, <3>1 DEF back, SeekOutcome
      <3> QED  BY <1>4, <3>2
    <2> QED  BY <1>4, <2>1, <2>2, <2>3
  <1>7. /\ back.ok = TRUE /\ back.at # lastPosition + 1 =>
              again = [ok |-> TRUE, at |-> lastPosition + 1, skew |-> FALSE]
        /\ back.ok = FALSE => again = back
    <2>1. lastPosition + 1 \in 0 .. SourceLength
      BY <1>3, <1>4
    <2>2. ASSUME back.ok = TRUE, back.at # lastPosition + 1
          PROVE  again = [ok |-> TRUE, at |-> lastPosition + 1, skew |-> FALSE]
      BY <2>1, <2>2 DEF again, SeekOutcome
    <2>3. ASSUME back.ok = FALSE
          PROVE  again = back
      BY <2>3 DEF again
    <2> QED  BY <2>2, <2>3
  <1>8. \/ at' = lastPosition + 1 /\ skew' = FALSE
        \/ ~haveSeeked /\ lastPosition = -1 /\ at' = at /\ skew' = skew
    BY <1>4, <1>5, <1>6, <1>7
  <1>9. at' = lastPosition + 1
    BY <1>1, <1>3, <1>8 DEF SourceAt
  <1>10. skew' \in BOOLEAN
    BY <1>1, <1>8, Zenon DEF SourceTypes
  <1>11. SlotTypes'
    BY <1>1, <1>2 DEF SlotTypes
  <1>12. FieldTypes'
    BY <1>1, <1>2 DEF FieldTypes
  <1>13. ClientTypes'
    BY <1>1, <1>2 DEF ClientTypes
  <1>14. ObservedTypes'
    BY <1>1, <1>2 DEF ObservedTypes
  <1>15. FailsOnlyOnFault'
    BY <1>1, <1>2 DEF FailsOnlyOnFault, Wanted
  <1>16. ReaderTypes'
    BY <1>1, <1>2, <1>3, <1>4, <1>8 DEF ReaderTypes
  <1>17. SourceTypes'
    BY <1>1, <1>2, <1>3, <1>4, <1>8, <1>9, <1>10 DEF SourceTypes
  <1>18. SourceAt'
    BY <1>1, <1>2, <1>3, <1>4, <1>8, <1>9 DEF SourceAt, EofExact, Fetching
  <1>19. Aligned'
    <2> SUFFICES ASSUME NoFirst, skew' = TRUE
                 PROVE  FALSE
      BY <1>3, <1>10 DEF Aligned
    <2>1. skew = TRUE /\ ~haveSeeked /\ lastPosition = -1
      BY <1>8
    <2> QED  BY <1>1, <2>1 DEF Aligned
  <1>20. SlotsHold'
    BY <1>1, <1>2, <1>3, <1>4 DEF SlotsHold, RingHoldsFrames, SourceAt
  <1>21. Sending'
    BY <1>1, <1>2, <1>3, <1>4 DEF Sending, FrameReady
  <1>22. Waits'
    BY <1>1, <1>2, <1>3, <1>4
    DEF Waits, Woken, Excused, Wanted, Undisturbed, ReaderBusy, Served, Fetched,
        FrameReady, IsEOF, Fetching
  <1> QED  BY <1>11, <1>12, <1>13, <1>14, <1>15, <1>16, <1>17, <1>18, <1>19, <1>20,
      <1>21, <1>22
  DEF IInv, Types

\* The outcome: the frame is ready, or the end is known, or neither; the client is told.
LEMMA PublishKeeps ==
    ASSUME IInv, Publish
    PROVE  IInv'
  <1>1. /\ SlotTypes /\ FieldTypes /\ ReaderTypes /\ ClientTypes /\ SourceTypes
        /\ ObservedTypes
        /\ SourceAt /\ Aligned /\ SlotsHold /\ Sending /\ Waits /\ FailsOnlyOnFault
    BY DEF IInv, Types
  <1>2. /\ data' = data /\ clientWaiting' = clientWaiting
        /\ clientPosition' = clientPosition
        /\ waiting' = waiting /\ stopped' = stopped /\ rPosition' = rPosition
        /\ haveReadFrame' = haveReadFrame /\ readEOF' = readEOF /\ haveSeeked' = haveSeeked
        /\ call' = call /\ target' = target /\ origClientPosition' = origClientPosition
        /\ waitCount' = waitCount /\ sent' = sent /\ at' = at /\ skew' = skew
        /\ faults' = faults /\ result' = result /\ before' = before
        /\ faultInCall' = faultInCall /\ overtaken' = overtaken
    BY DEF Publish, slots, shared, readerLocals, clientLocals, source, observed
  <1>3. /\ reader = "publish" /\ reader' = "top"
        /\ eofPosition' = IF readEOF THEN rPosition ELSE eofPosition
    BY DEF Publish
  <1>4. client' = (IF clientWaiting /\ client = "wait" THEN "loop" ELSE client)
    BY DEF Publish, SignalClient
  <1>5. /\ rPosition \in Nat /\ SlotOf(rPosition) \in Slots /\ clientPosition \in Nat
        /\ SlotOf(clientPosition) \in Slots
        /\ SourceLength \in Nat
    BY <1>1, SlotOfType, LengthAssumption DEF ReaderTypes, FieldTypes
  <1>6. haveReadFrame =>
          /\ isReady' \in [Slots -> BOOLEAN] /\ position' \in [Slots -> Position]
          /\ isReady'[SlotOf(rPosition)] = TRUE /\ position'[SlotOf(rPosition)] = rPosition
          /\ \A i \in Slots \ {SlotOf(rPosition)} :
                isReady'[i] = isReady[i] /\ position'[i] = position[i]
          /\ lastPosition' = rPosition
    BY <1>1, <1>5 DEF Publish, SlotTypes, Position
  <1>7. ~haveReadFrame => isReady' = isReady /\ position' = position
        /\ lastPosition' = lastPosition
    BY DEF Publish
  <1>8. haveReadFrame => isReady[SlotOf(rPosition)] = FALSE
    BY <1>1, <1>3, <1>5 DEF SlotsHold, SlotTypes
  <1>9. FrameReady(clientPosition) => FrameReady(clientPosition)'
    <2>1. CASE haveReadFrame
      BY <1>2, <1>5, <1>6, <1>8, <2>1 DEF FrameReady
    <2>2. CASE ~haveReadFrame
      BY <1>2, <1>7, <2>2 DEF FrameReady
    <2> QED  BY <2>1, <2>2
  <1>10. IsEOF(clientPosition) => IsEOF(clientPosition)'
    BY <1>1, <1>2, <1>3, <1>5 DEF IsEOF, SourceAt, EofExact
  <1>11. Served(clientPosition) => Served(clientPosition)'
    BY <1>9, <1>10 DEF Served
  <1>12. Fetched(clientPosition) => Served(clientPosition)'
    <2>1. CASE haveReadFrame
      BY <1>2, <1>3, <1>6, <2>1 DEF Fetched, Fetching, Served, FrameReady
    <2>2. CASE ~haveReadFrame
      BY <1>2, <1>3, <1>5, <2>2 DEF Fetched, Fetching, Served, IsEOF
    <2> QED  BY <2>1, <2>2
  <1>13. SourceTypes'
    BY <1>1, <1>2 DEF SourceTypes
  <1>14. ObservedTypes'
    BY <1>1, <1>2 DEF ObservedTypes
  <1>15. SlotTypes'
    BY <1>1, <1>2, <1>6, <1>7, <1>9, <1>11, <1>12 DEF SlotTypes
  <1>16. FieldTypes'
    <2>1. CASE haveReadFrame
      BY <1>1, <1>2, <1>3, <1>5, <1>6, <2>1 DEF FieldTypes, Position
    <2>2. CASE ~haveReadFrame
      BY <1>1, <1>2, <1>3, <1>5, <1>7, <2>2 DEF FieldTypes, Position
    <2> QED  BY <2>1, <2>2
  <1>17. ReaderTypes'
    BY <1>1, <1>2, <1>3, <1>5, <1>6, <1>7 DEF ReaderTypes
  <1>18. ClientTypes'
    BY <1>1, <1>2, <1>4 DEF ClientTypes
  <1>19. SourceAt'
    BY <1>1, <1>2, <1>3, <1>5, <1>6, <1>7 DEF SourceAt, EofExact, Fetching
  <1>20. Aligned'
    BY <1>1, <1>2, <1>3, <1>6, <1>7 DEF Aligned
  <1>21. SlotsHold'
    BY <1>1, <1>2, <1>3, <1>5, <1>6, <1>7, <1>9, <1>11, <1>12
    DEF SlotsHold, RingHoldsFrames
  <1>22. Sending'
    BY <1>1, <1>2, <1>3, <1>4, <1>9 DEF Sending
  <1>23. Waits'
    BY <1>1, <1>2, <1>3, <1>4, <1>11, <1>12
    DEF Waits, Woken, Excused, Wanted, Undisturbed, ReaderBusy
  <1>24. FailsOnlyOnFault'
    BY <1>1, <1>2, <1>4 DEF FailsOnlyOnFault, Wanted
  <1> QED  BY <1>13, <1>14, <1>15, <1>16, <1>17, <1>18, <1>19, <1>20, <1>21, <1>22,
      <1>23, <1>24
  DEF IInv, Types

-----------------------------------------------------------------------------
(* Steps of the client. *)

\* A call begins, with its count of wakeups at zero.
LEMMA BeginKeeps ==
    ASSUME IInv, NEW c \in {"read", "seek"}, Begin(c), target' \in Nat
    PROVE  IInv'
  <1>1. /\ SlotTypes /\ FieldTypes /\ ReaderTypes /\ ClientTypes /\ SourceTypes
        /\ ObservedTypes
        /\ SourceAt /\ Aligned /\ SlotsHold /\ Sending /\ Waits /\ FailsOnlyOnFault
    BY DEF IInv, Types
  <1>2. /\ isReady' = isReady /\ position' = position /\ data' = data
        /\ clientWaiting' = clientWaiting /\ clientPosition' = clientPosition
        /\ waiting' = waiting /\ lastPosition' = lastPosition /\ eofPosition' = eofPosition
        /\ stopped' = stopped /\ reader' = reader /\ rPosition' = rPosition
        /\ haveReadFrame' = haveReadFrame /\ readEOF' = readEOF /\ haveSeeked' = haveSeeked
        /\ sent' = sent /\ at' = at /\ skew' = skew /\ faults' = faults /\ result' = result
        /\ overtaken' = overtaken
    BY DEF Begin, slots, shared, readerLocals, clientLocals, source, observed
  <1>3. /\ client = "idle" /\ client' = "loop" /\ call' = c /\ waitCount' = 0
        /\ origClientPosition' = 0
        /\ before' = clientPosition /\ faultInCall' = FALSE
    BY DEF Begin
  <1>4. faultInCall' \in BOOLEAN
    BY <1>3, Zenon
  <1>5. SlotTypes'
    BY <1>1, <1>2 DEF SlotTypes
  <1>6. FieldTypes'
    BY <1>1, <1>2 DEF FieldTypes
  <1>7. ReaderTypes'
    BY <1>1, <1>2 DEF ReaderTypes
  <1>8. SourceTypes'
    BY <1>1, <1>2 DEF SourceTypes
  <1>9. SourceAt'
    BY <1>1, <1>2 DEF SourceAt, EofExact, Fetching
  <1>10. Aligned'
    BY <1>1, <1>2 DEF Aligned
  <1>11. SlotsHold'
    BY <1>1, <1>2 DEF SlotsHold, RingHoldsFrames
  <1>12. ClientTypes'
    BY <1>1, <1>2, <1>3 DEF ClientTypes
  <1>13. ObservedTypes'
    BY <1>1, <1>2, <1>3, <1>4 DEF ObservedTypes, FieldTypes
  <1>14. Sending'
    BY <1>1, <1>2, <1>3 DEF Sending, FrameReady
  <1>15. Waits'
    BY <1>1, <1>2, <1>3
    DEF Waits, Woken, Excused, Wanted, Undisturbed, ReaderBusy, Served, Fetched,
        FrameReady, IsEOF, Fetching
  <1>16. FailsOnlyOnFault'
    BY <1>1, <1>2, <1>3 DEF FailsOnlyOnFault, Wanted
  <1> QED  BY <1>5, <1>6, <1>7, <1>8, <1>9, <1>10, <1>11, <1>12, <1>13, <1>14, <1>15,
      <1>16
  DEF IInv, Types

\* One time round the wait loop: the client looks at the frame wanted, and the
\* way out says what it saw.
LEMMA LoopFacts ==
    ASSUME IInv, NEW way, Loop(way)
    PROVE  /\ client = "loop" /\ call \in {"read", "seek"} /\ clientPosition' = Wanted
           /\ clientPosition' \in Nat /\ origClientPosition' \in Nat
           /\ clientWaiting' \in BOOLEAN
           /\ waitCount > 0 => clientPosition' = clientPosition
           /\ waitCount' = IF way = "wait" THEN waitCount + 1 ELSE waitCount
           /\ way = "eof" => IsEOF(clientPosition')
           /\ way = "ready" => FrameReady(clientPosition')
           /\ way \in {"giveUp", "wait"} => ~Served(clientPosition')
           /\ way = "giveUp" => waitCount >= 2
           /\ way = "wait" => waitCount < 2
  <1>1. /\ FieldTypes /\ ClientTypes /\ Waits
        /\ client = "loop"
        /\ clientWaiting' = (way = "wait")
        /\ waitCount' = IF way = "wait" THEN waitCount + 1 ELSE waitCount
    BY DEF IInv, Types, Loop
  <1>2. /\ clientPosition' = IF call = "seek" THEN target ELSE clientPosition
        /\ origClientPosition' \in {clientPosition, origClientPosition}
    BY DEF Loop, EnterLoop
  <1>3. clientWaiting' \in BOOLEAN
    BY <1>1, Zenon
  <1>4. /\ call \in {"read", "seek"} /\ clientPosition' = Wanted
        /\ waitCount > 0 => clientPosition' = clientPosition
    BY <1>1, <1>2 DEF Waits, Wanted
  <1>5. clientPosition' \in Nat /\ origClientPosition' \in Nat /\ waitCount \in 0 .. 2
    BY <1>1, <1>2 DEF FieldTypes, ClientTypes
  <1>6. way = CASE IsEOF(clientPosition')      -> "eof"
              []  ~IsEOF(clientPosition') /\ FrameReady(clientPosition') -> "ready"
              []  OTHER -> IF GiveUp THEN "giveUp" ELSE "wait"
    BY DEF Loop
  <1>7. CASE IsEOF(clientPosition')
    BY <1>1, <1>3, <1>4, <1>5, <1>6, <1>7
  <1>8. CASE ~IsEOF(clientPosition') /\ FrameReady(clientPosition')
    BY <1>1, <1>3, <1>4, <1>5, <1>6, <1>8
  <1>9. CASE ~IsEOF(clientPosition') /\ ~FrameReady(clientPosition')
    <2>1. way = IF GiveUp THEN "giveUp" ELSE "wait"
      BY <1>6, <1>9
    <2> QED  BY <1>1, <1>3, <1>4, <1>5, <1>9, <2>1 DEF GiveUp, Served
  <1> QED  BY <1>7, <1>8, <1>9

\* The position wanted is at or past the end.
LEMMA LoopEOFKeeps ==
    ASSUME IInv, LoopEOF
    PROVE  IInv'
  <1>1. /\ SlotTypes /\ FieldTypes /\ ReaderTypes /\ ClientTypes /\ SourceTypes
        /\ ObservedTypes
        /\ SourceAt /\ Aligned /\ SlotsHold /\ Sending /\ Waits /\ FailsOnlyOnFault
    BY DEF IInv, Types
  <1>2. /\ isReady' = isReady /\ position' = position /\ data' = data /\ waiting' = waiting
        /\ lastPosition' = lastPosition /\ eofPosition' = eofPosition /\ stopped' = stopped
        /\ reader' = reader /\ rPosition' = rPosition /\ haveReadFrame' = haveReadFrame
        /\ readEOF' = readEOF /\ haveSeeked' = haveSeeked /\ call' = call
              /\ target' = target
        /\ sent' = sent /\ at' = at /\ skew' = skew /\ faults' = faults /\ before' = before
        /\ faultInCall' = faultInCall /\ overtaken' = overtaken
    BY DEF LoopEOF, Loop, slots, shared, readerLocals, clientLocals, source, observed
  <1>3. /\ client = "loop" /\ call \in {"read", "seek"} /\ clientPosition' = Wanted
        /\ clientPosition' \in Nat /\ origClientPosition' \in Nat
              /\ clientWaiting' \in BOOLEAN
        /\ waitCount > 0 => clientPosition' = clientPosition
    BY LoopFacts DEF LoopEOF
  <1>4. waitCount' = waitCount
    BY DEF LoopEOF, Loop
  <1>5. \/ client' = "idle" /\ result' = "failed at eof"
        \/ client' = "restoreEOF" /\ result' = result
    BY DEF LoopEOF, Answer
  <1>6. SlotTypes'
    BY <1>1, <1>2 DEF SlotTypes
  <1>7. ReaderTypes'
    BY <1>1, <1>2 DEF ReaderTypes
  <1>8. SourceTypes'
    BY <1>1, <1>2 DEF SourceTypes
  <1>9. SourceAt'
    BY <1>1, <1>2 DEF SourceAt, EofExact, Fetching
  <1>10. Aligned'
    BY <1>1, <1>2 DEF Aligned
  <1>11. SlotsHold'
    BY <1>1, <1>2 DEF SlotsHold, RingHoldsFrames
  <1>12. FieldTypes'
    BY <1>1, <1>2, <1>3 DEF FieldTypes
  <1>13. ClientTypes'
    BY <1>1, <1>2, <1>3, <1>4, <1>5 DEF ClientTypes
  <1>14. ObservedTypes'
    BY <1>1, <1>2, <1>5 DEF ObservedTypes
  <1>15. Sending'
    BY <1>1, <1>2, <1>3, <1>5 DEF Sending, FrameReady
  <1>16. Waits'
    BY <1>1, <1>2, <1>3, <1>4, <1>5
    DEF Waits, Woken, Excused, Wanted, Undisturbed, ReaderBusy, Served, Fetched,
        FrameReady, IsEOF, Fetching
  <1>17. FailsOnlyOnFault'
    BY <1>1, <1>2, <1>3, <1>5 DEF FailsOnlyOnFault, Wanted
  <1> QED  BY <1>6, <1>7, <1>8, <1>9, <1>10, <1>11, <1>12, <1>13, <1>14, <1>15, <1>16,
      <1>17
  DEF IInv, Types

\* The frame is in the ring; its slot may have been chosen for another.
LEMMA LoopReadyKeeps ==
    ASSUME IInv, LoopReady
    PROVE  IInv'
  <1>1. /\ SlotTypes /\ FieldTypes /\ ReaderTypes /\ ClientTypes /\ SourceTypes
        /\ ObservedTypes
        /\ SourceAt /\ Aligned /\ SlotsHold /\ Sending /\ Waits /\ FailsOnlyOnFault
    BY DEF IInv, Types
  <1>2. /\ isReady' = isReady /\ position' = position /\ data' = data /\ waiting' = waiting
        /\ lastPosition' = lastPosition /\ eofPosition' = eofPosition /\ stopped' = stopped
        /\ reader' = reader /\ rPosition' = rPosition /\ haveReadFrame' = haveReadFrame
        /\ readEOF' = readEOF /\ haveSeeked' = haveSeeked /\ call' = call
              /\ target' = target
        /\ sent' = sent /\ at' = at /\ skew' = skew /\ faults' = faults /\ before' = before
        /\ faultInCall' = faultInCall
    BY DEF LoopReady, Loop, slots, shared, readerLocals, clientLocals, source, observed
  <1>3. /\ client = "loop" /\ call \in {"read", "seek"} /\ clientPosition' = Wanted
        /\ clientPosition' \in Nat /\ origClientPosition' \in Nat
              /\ clientWaiting' \in BOOLEAN
        /\ waitCount > 0 => clientPosition' = clientPosition
    BY LoopFacts DEF LoopReady
  <1>4. waitCount' = waitCount /\ FrameReady(clientPosition')
    BY LoopFacts DEF LoopReady
  <1>5. overtaken' = (/\ call = "read"
                      /\ reader \in {"chosen", "seek", "init"}
                      /\ SlotOf(rPosition) = SlotOf(clientPosition'))
    BY DEF LoopReady
  <1>6. \/ call = "read" /\ client' = "send" /\ result' = result
        \/ call # "read" /\ client' = "idle" /\ result' = "ok"
    BY DEF LoopReady, Answer
  <1>7. overtaken' \in BOOLEAN
    BY <1>5, Zenon
  <1>8. SlotTypes'
    BY <1>1, <1>2 DEF SlotTypes
  <1>9. ReaderTypes'
    BY <1>1, <1>2 DEF ReaderTypes
  <1>10. SourceTypes'
    BY <1>1, <1>2 DEF SourceTypes
  <1>11. SourceAt'
    BY <1>1, <1>2 DEF SourceAt, EofExact, Fetching
  <1>12. Aligned'
    BY <1>1, <1>2 DEF Aligned
  <1>13. SlotsHold'
    BY <1>1, <1>2 DEF SlotsHold, RingHoldsFrames
  <1>14. FieldTypes'
    BY <1>1, <1>2, <1>3, <1>4, <1>5 DEF FieldTypes
  <1>15. ClientTypes'
    BY <1>1, <1>2, <1>3, <1>4, <1>5, <1>6 DEF ClientTypes
  <1>16. ObservedTypes'
    BY <1>1, <1>2, <1>5, <1>6, <1>7 DEF ObservedTypes
  <1>17. Sending'
    BY <1>1, <1>2, <1>3, <1>4, <1>5, <1>6 DEF Sending, FrameReady
  <1>18. Waits'
    BY <1>1, <1>2, <1>3, <1>4, <1>5, <1>6
    DEF Waits, Woken, Excused, Wanted, Undisturbed, ReaderBusy, Served, Fetched,
        FrameReady, IsEOF, Fetching
  <1>19. FailsOnlyOnFault'
    BY <1>1, <1>2, <1>3, <1>5, <1>6 DEF FailsOnlyOnFault, Wanted
  <1> QED  BY <1>8, <1>9, <1>10, <1>11, <1>12, <1>13, <1>14, <1>15, <1>16, <1>17,
      <1>18, <1>19
  DEF IInv, Types

\* Two wakeups, and the frame is not there: something failed, or the source ends before.
LEMMA LoopGiveUpKeeps ==
    ASSUME IInv, LoopGiveUp
    PROVE  IInv'
  <1>1. /\ SlotTypes /\ FieldTypes /\ ReaderTypes /\ ClientTypes /\ SourceTypes
        /\ ObservedTypes
        /\ SourceAt /\ Aligned /\ SlotsHold /\ Sending /\ Waits /\ FailsOnlyOnFault
    BY DEF IInv, Types
  <1>2. /\ isReady' = isReady /\ position' = position /\ data' = data /\ waiting' = waiting
        /\ lastPosition' = lastPosition /\ eofPosition' = eofPosition /\ stopped' = stopped
        /\ reader' = reader /\ rPosition' = rPosition /\ haveReadFrame' = haveReadFrame
        /\ readEOF' = readEOF /\ haveSeeked' = haveSeeked /\ call' = call
              /\ target' = target
        /\ sent' = sent /\ at' = at /\ skew' = skew /\ faults' = faults /\ before' = before
        /\ faultInCall' = faultInCall /\ overtaken' = overtaken
    BY DEF LoopGiveUp, Loop, slots, shared, readerLocals, clientLocals, source, observed
  <1>3. /\ client = "loop" /\ call \in {"read", "seek"} /\ clientPosition' = Wanted
        /\ clientPosition' \in Nat /\ origClientPosition' \in Nat
              /\ clientWaiting' \in BOOLEAN
        /\ waitCount > 0 => clientPosition' = clientPosition
    BY LoopFacts DEF LoopGiveUp
  <1>4. waitCount' = waitCount /\ waitCount = 2 /\ ~Served(clientPosition')
    BY <1>1, LoopFacts DEF LoopGiveUp, ClientTypes
  <1>5. \/ client' = "idle" /\ result' = "failed"
        \/ client' = "restore" /\ result' = result
    BY DEF LoopGiveUp, Answer
  <1>6. Excused
    BY <1>1, <1>3, <1>4 DEF Waits, Woken
  <1>7. SlotTypes'
    BY <1>1, <1>2 DEF SlotTypes
  <1>8. ReaderTypes'
    BY <1>1, <1>2 DEF ReaderTypes
  <1>9. SourceTypes'
    BY <1>1, <1>2 DEF SourceTypes
  <1>10. SourceAt'
    BY <1>1, <1>2 DEF SourceAt, EofExact, Fetching
  <1>11. Aligned'
    BY <1>1, <1>2 DEF Aligned
  <1>12. SlotsHold'
    BY <1>1, <1>2 DEF SlotsHold, RingHoldsFrames
  <1>13. FieldTypes'
    BY <1>1, <1>2, <1>3, <1>4 DEF FieldTypes
  <1>14. ClientTypes'
    BY <1>1, <1>2, <1>3, <1>4, <1>5 DEF ClientTypes
  <1>15. ObservedTypes'
    BY <1>1, <1>2, <1>5 DEF ObservedTypes
  <1>16. Sending'
    BY <1>1, <1>2, <1>3, <1>4, <1>5, <1>6 DEF Sending, FrameReady
  <1>17. Waits'
    BY <1>1, <1>2, <1>3, <1>4, <1>5, <1>6 DEF Waits, Woken, Excused, Wanted
  <1>18. FailsOnlyOnFault'
    BY <1>2, <1>6 DEF FailsOnlyOnFault, Excused, Wanted
  <1> QED  BY <1>7, <1>8, <1>9, <1>10, <1>11, <1>12, <1>13, <1>14, <1>15, <1>16, <1>17,
      <1>18
  DEF IInv, Types

\* The client waits, for the first or the second time.
LEMMA LoopWaitKeeps ==
    ASSUME IInv, LoopWait
    PROVE  IInv'
  <1>1. /\ SlotTypes /\ FieldTypes /\ ReaderTypes /\ ClientTypes /\ SourceTypes
        /\ ObservedTypes
        /\ SourceAt /\ Aligned /\ SlotsHold /\ Sending /\ Waits /\ FailsOnlyOnFault
    BY DEF IInv, Types
  <1>2. /\ isReady' = isReady /\ position' = position /\ data' = data /\ waiting' = waiting
        /\ lastPosition' = lastPosition /\ eofPosition' = eofPosition /\ stopped' = stopped
        /\ rPosition' = rPosition /\ haveReadFrame' = haveReadFrame /\ readEOF' = readEOF
        /\ haveSeeked' = haveSeeked /\ call' = call /\ target' = target /\ sent' = sent
        /\ at' = at /\ skew' = skew /\ faults' = faults /\ result' = result
              /\ before' = before
        /\ faultInCall' = faultInCall /\ overtaken' = overtaken
    BY DEF LoopWait, Loop, slots, shared, readerLocals, clientLocals, source, observed
  <1>3. /\ client = "loop" /\ call \in {"read", "seek"} /\ clientPosition' = Wanted
        /\ clientPosition' \in Nat /\ origClientPosition' \in Nat
              /\ clientWaiting' \in BOOLEAN
        /\ waitCount > 0 => clientPosition' = clientPosition
    BY LoopFacts DEF LoopWait
  <1>4. waitCount' = waitCount + 1 /\ waitCount \in 0 .. 1
    BY <1>1, LoopFacts DEF LoopWait, ClientTypes
  <1>5. client' = "wait"
    BY DEF LoopWait
  <1>6. reader' = reader \/ (reader = "waitClient" /\ reader' = "top")
    BY DEF LoopWait, SignalReader
  <1>7. SlotTypes'
    BY <1>1, <1>2 DEF SlotTypes
  <1>8. SourceTypes'
    BY <1>1, <1>2 DEF SourceTypes
  <1>9. ObservedTypes'
    BY <1>1, <1>2 DEF ObservedTypes
  <1>10. FieldTypes'
    BY <1>1, <1>2, <1>3 DEF FieldTypes
  <1>11. ReaderTypes'
    BY <1>1, <1>2, <1>6 DEF ReaderTypes
  <1>12. ClientTypes'
    BY <1>1, <1>2, <1>3, <1>4, <1>5 DEF ClientTypes
  <1>13. SourceAt'
    BY <1>1, <1>2, <1>6 DEF SourceAt, EofExact, Fetching
  <1>14. Aligned'
    BY <1>1, <1>2, <1>6 DEF Aligned
  <1>15. SlotsHold'
    BY <1>1, <1>2, <1>6 DEF SlotsHold, RingHoldsFrames
  <1>16. Sending'
    BY <1>1, <1>2, <1>3, <1>5, <1>6 DEF Sending, FrameReady
  <1>17. Waits'
    BY <1>1, <1>2, <1>3, <1>4, <1>5, <1>6
    DEF Waits, Woken, Excused, Wanted, Undisturbed, ReaderBusy, Served, Fetched,
        FrameReady, IsEOF, Fetching
  <1>18. FailsOnlyOnFault'
    BY <1>1, <1>2, <1>3, <1>5 DEF FailsOnlyOnFault, Wanted
  <1> QED  BY <1>7, <1>8, <1>9, <1>10, <1>11, <1>12, <1>13, <1>14, <1>15, <1>16, <1>17,
      <1>18
  DEF IInv, Types

\* The timed wait expires.
LEMMA TimedOutKeeps ==
    ASSUME IInv, TimedOut
    PROVE  IInv'
  <1>1. /\ SlotTypes /\ FieldTypes /\ ReaderTypes /\ ClientTypes /\ SourceTypes
        /\ ObservedTypes
        /\ SourceAt /\ Aligned /\ SlotsHold /\ Sending /\ Waits /\ FailsOnlyOnFault
    BY DEF IInv, Types
  <1>2. /\ isReady' = isReady /\ position' = position /\ data' = data
        /\ clientWaiting' = clientWaiting /\ clientPosition' = clientPosition
        /\ waiting' = waiting /\ lastPosition' = lastPosition /\ eofPosition' = eofPosition
        /\ stopped' = stopped /\ reader' = reader /\ rPosition' = rPosition
        /\ haveReadFrame' = haveReadFrame /\ readEOF' = readEOF /\ haveSeeked' = haveSeeked
        /\ call' = call /\ target' = target /\ origClientPosition' = origClientPosition
        /\ waitCount' = waitCount /\ sent' = sent /\ at' = at /\ skew' = skew
        /\ before' = before /\ overtaken' = overtaken
    BY DEF TimedOut, slots, shared, readerLocals, clientLocals, source, observed
  <1>3. faultInCall' = TRUE /\ faults' = faults + 1 /\ faults < MaxFaults
    BY DEF TimedOut, CanFail, Fault
  <1>4. faults' \in 0 .. MaxFaults /\ faultInCall' \in BOOLEAN
    BY <1>1, <1>3, FaultAssumption DEF SourceTypes
  <1>5. client = "wait" /\ client' = "idle" /\ result' = "timed out"
    BY DEF TimedOut, Answer
  <1>6. SlotTypes'
    BY <1>1, <1>2 DEF SlotTypes
  <1>7. FieldTypes'
    BY <1>1, <1>2 DEF FieldTypes
  <1>8. ReaderTypes'
    BY <1>1, <1>2 DEF ReaderTypes
  <1>9. SourceAt'
    BY <1>1, <1>2 DEF SourceAt, EofExact, Fetching
  <1>10. Aligned'
    BY <1>1, <1>2 DEF Aligned
  <1>11. SlotsHold'
    BY <1>1, <1>2 DEF SlotsHold, RingHoldsFrames
  <1>12. ClientTypes'
    BY <1>1, <1>2, <1>5 DEF ClientTypes
  <1>13. SourceTypes'
    BY <1>1, <1>2, <1>3, <1>4 DEF SourceTypes
  <1>14. ObservedTypes'
    BY <1>1, <1>2, <1>3, <1>4, <1>5 DEF ObservedTypes
  <1>15. Sending'
    BY <1>1, <1>2, <1>5 DEF Sending, FrameReady
  <1>16. Waits'
    BY <1>1, <1>2, <1>3, <1>5
    DEF Waits, Woken, Excused, Wanted, Undisturbed, ReaderBusy, Served, Fetched,
        FrameReady, IsEOF, Fetching
  <1>17. FailsOnlyOnFault'
    BY <1>1, <1>2, <1>3, <1>5 DEF FailsOnlyOnFault, Wanted
  <1> QED  BY <1>6, <1>7, <1>8, <1>9, <1>10, <1>11, <1>12, <1>13, <1>14, <1>15, <1>16,
      <1>17
  DEF IInv, Types

\* A wait of either thread returns unsignalled.
LEMMA SpuriousWakeupKeeps ==
    ASSUME IInv, SpuriousWakeup
    PROVE  IInv'
  <1>1. /\ SlotTypes /\ FieldTypes /\ ReaderTypes /\ ClientTypes /\ SourceTypes
        /\ ObservedTypes
        /\ SourceAt /\ Aligned /\ SlotsHold /\ Sending /\ Waits /\ FailsOnlyOnFault
    BY DEF IInv, Types
  <1>2. /\ isReady' = isReady /\ position' = position /\ data' = data
        /\ clientWaiting' = clientWaiting /\ clientPosition' = clientPosition
        /\ waiting' = waiting /\ lastPosition' = lastPosition /\ eofPosition' = eofPosition
        /\ stopped' = stopped /\ rPosition' = rPosition /\ haveReadFrame' = haveReadFrame
        /\ readEOF' = readEOF /\ haveSeeked' = haveSeeked /\ call' = call
              /\ target' = target
        /\ origClientPosition' = origClientPosition /\ waitCount' = waitCount
              /\ sent' = sent
        /\ at' = at /\ skew' = skew /\ result' = result /\ before' = before
        /\ overtaken' = overtaken
    BY DEF SpuriousWakeup, slots, shared, readerLocals, clientLocals, source, observed
  <1>3. faultInCall' = TRUE /\ faults' = faults + 1 /\ faults < MaxFaults
    BY DEF SpuriousWakeup, CanFail, Fault
  <1>4. faults' \in 0 .. MaxFaults /\ faultInCall' \in BOOLEAN
    BY <1>1, <1>3, FaultAssumption DEF SourceTypes
  <1>5. \/ client = "wait" /\ client' = "loop" /\ reader' = reader
        \/ reader = "waitClient" /\ reader' = "top" /\ client' = client
    BY DEF SpuriousWakeup
  <1>6. SlotTypes'
    BY <1>1, <1>2 DEF SlotTypes
  <1>7. FieldTypes'
    BY <1>1, <1>2 DEF FieldTypes
  <1>8. ReaderTypes'
    BY <1>1, <1>2, <1>5 DEF ReaderTypes
  <1>9. ClientTypes'
    BY <1>1, <1>2, <1>5 DEF ClientTypes
  <1>10. SourceTypes'
    BY <1>1, <1>2, <1>3, <1>4 DEF SourceTypes
  <1>11. ObservedTypes'
    BY <1>1, <1>2, <1>3, <1>4 DEF ObservedTypes
  <1>12. SourceAt'
    BY <1>1, <1>2, <1>5 DEF SourceAt, EofExact, Fetching
  <1>13. Aligned'
    BY <1>1, <1>2, <1>5 DEF Aligned
  <1>14. SlotsHold'
    BY <1>1, <1>2, <1>5 DEF SlotsHold, RingHoldsFrames
  <1>15. Sending'
    BY <1>1, <1>2, <1>5 DEF Sending, FrameReady
  <1>16. Waits'
    BY <1>1, <1>2, <1>3, <1>5
    DEF Waits, Woken, Excused, Wanted, Undisturbed, ReaderBusy, Served, Fetched,
        FrameReady, IsEOF, Fetching
  <1>17. FailsOnlyOnFault'
    BY <1>1, <1>2, <1>3, <1>5 DEF FailsOnlyOnFault, Wanted
  <1> QED  BY <1>6, <1>7, <1>8, <1>9, <1>10, <1>11, <1>12, <1>13, <1>14, <1>15, <1>16,
      <1>17
  DEF IInv, Types

\* A seek that failed puts the position back.
LEMMA RestoreKeeps ==
    ASSUME IInv, Restore
    PROVE  IInv'
  <1>1. /\ SlotTypes /\ FieldTypes /\ ReaderTypes /\ ClientTypes /\ SourceTypes
        /\ ObservedTypes
        /\ SourceAt /\ Aligned /\ SlotsHold /\ Sending /\ Waits /\ FailsOnlyOnFault
    BY DEF IInv, Types
  <1>2. /\ isReady' = isReady /\ position' = position /\ data' = data
        /\ clientWaiting' = clientWaiting /\ waiting' = waiting
              /\ lastPosition' = lastPosition
        /\ eofPosition' = eofPosition /\ stopped' = stopped /\ reader' = reader
        /\ rPosition' = rPosition /\ haveReadFrame' = haveReadFrame /\ readEOF' = readEOF
        /\ haveSeeked' = haveSeeked /\ call' = call /\ target' = target
        /\ origClientPosition' = origClientPosition /\ waitCount' = waitCount
              /\ sent' = sent
        /\ at' = at /\ skew' = skew /\ faults' = faults /\ before' = before
        /\ faultInCall' = faultInCall /\ overtaken' = overtaken
    BY DEF Restore, slots, shared, readerLocals, clientLocals, source, observed
  <1>3. \/ client = "restoreEOF" /\ client' = "idle" /\ result' = "failed at eof"
        \/ client = "restore" /\ client' = "idle" /\ result' = "failed"
    BY DEF Restore, Answer
  <1>4. clientPosition' \in Nat
    BY <1>1 DEF Restore, FieldTypes, ClientTypes
  <1>5. SlotTypes'
    BY <1>1, <1>2 DEF SlotTypes
  <1>6. ReaderTypes'
    BY <1>1, <1>2 DEF ReaderTypes
  <1>7. SourceTypes'
    BY <1>1, <1>2 DEF SourceTypes
  <1>8. SourceAt'
    BY <1>1, <1>2 DEF SourceAt, EofExact, Fetching
  <1>9. Aligned'
    BY <1>1, <1>2 DEF Aligned
  <1>10. SlotsHold'
    BY <1>1, <1>2 DEF SlotsHold, RingHoldsFrames
  <1>11. FieldTypes'
    BY <1>1, <1>2, <1>4 DEF FieldTypes
  <1>12. ClientTypes'
    BY <1>1, <1>2, <1>3 DEF ClientTypes
  <1>13. ObservedTypes'
    BY <1>1, <1>2, <1>3 DEF ObservedTypes
  <1>14. Sending'
    BY <1>1, <1>2, <1>3, <1>4 DEF Sending, FrameReady
  <1>15. Waits'
    BY <1>1, <1>2, <1>3, <1>4
    DEF Waits, Woken, Excused, Wanted, Undisturbed, ReaderBusy, Served, Fetched,
        FrameReady, IsEOF, Fetching
  <1>16. FailsOnlyOnFault'
    BY <1>1, <1>2, <1>3 DEF FailsOnlyOnFault, Wanted, Waits, Excused
  <1> QED  BY <1>5, <1>6, <1>7, <1>8, <1>9, <1>10, <1>11, <1>12, <1>13, <1>14, <1>15,
      <1>16
  DEF IInv, Types

\* A stream is sent from the slot.
LEMMA SendStreamKeeps ==
    ASSUME IInv, SendStream
    PROVE  IInv'
  <1>1. /\ SlotTypes /\ FieldTypes /\ ReaderTypes /\ ClientTypes /\ SourceTypes
        /\ ObservedTypes
        /\ SourceAt /\ Aligned /\ SlotsHold /\ Sending /\ Waits /\ FailsOnlyOnFault
    BY DEF IInv, Types
  <1>2. /\ isReady' = isReady /\ position' = position /\ data' = data
        /\ clientWaiting' = clientWaiting /\ clientPosition' = clientPosition
        /\ waiting' = waiting /\ lastPosition' = lastPosition /\ eofPosition' = eofPosition
        /\ stopped' = stopped /\ reader' = reader /\ rPosition' = rPosition
        /\ haveReadFrame' = haveReadFrame /\ readEOF' = readEOF /\ haveSeeked' = haveSeeked
        /\ client' = client /\ call' = call /\ target' = target
        /\ origClientPosition' = origClientPosition /\ waitCount' = waitCount /\ at' = at
        /\ skew' = skew /\ faults' = faults /\ result' = result /\ before' = before
        /\ faultInCall' = faultInCall /\ overtaken' = overtaken
    BY DEF SendStream, slots, shared, readerLocals, clientLocals, source, observed
  <1>3. /\ client = "send" /\ Len(sent) < NumStreams /\ NumStreams \in Nat
        /\ sent' = Append(sent, data[SlotOf(clientPosition)])
    BY SizeAssumption DEF SendStream
  <1>4. /\ clientPosition \in Nat /\ SlotOf(clientPosition) \in Slots
        /\ data[SlotOf(clientPosition)] \in Data /\ sent \in Seq(Data)
    BY <1>1, SlotOfType DEF FieldTypes, SlotTypes, ClientTypes
  <1>5. /\ sent' \in Seq(Data) /\ Len(sent') = Len(sent) + 1
        /\ \A k \in 1 .. Len(sent) : sent'[k] = sent[k]
        /\ sent'[Len(sent) + 1] = data[SlotOf(clientPosition)]
    BY <1>3, <1>4
  <1>6. ~overtaken => /\ isReady[SlotOf(clientPosition)]
                      /\ position[SlotOf(clientPosition)] = clientPosition
    BY <1>1, <1>3 DEF Sending, FrameReady
  <1>7. NoFirst /\ ~overtaken => data[SlotOf(clientPosition)] = clientPosition
    BY <1>1, <1>4, <1>6 DEF SlotsHold, RingHoldsFrames
  <1>8. SlotTypes'
    BY <1>1, <1>2 DEF SlotTypes
  <1>9. FieldTypes'
    BY <1>1, <1>2 DEF FieldTypes
  <1>10. ReaderTypes'
    BY <1>1, <1>2 DEF ReaderTypes
  <1>11. SourceTypes'
    BY <1>1, <1>2 DEF SourceTypes
  <1>12. ObservedTypes'
    BY <1>1, <1>2 DEF ObservedTypes
  <1>13. SourceAt'
    BY <1>1, <1>2 DEF SourceAt, EofExact, Fetching
  <1>14. Aligned'
    BY <1>1, <1>2 DEF Aligned
  <1>15. SlotsHold'
    BY <1>1, <1>2 DEF SlotsHold, RingHoldsFrames
  <1>16. Waits'
    BY <1>1, <1>2
    DEF Waits, Woken, Excused, Wanted, Undisturbed, ReaderBusy, Served, Fetched,
        FrameReady, IsEOF, Fetching
  <1>17. FailsOnlyOnFault'
    BY <1>1, <1>2 DEF FailsOnlyOnFault, Wanted
  <1>18. ClientTypes'
    BY <1>1, <1>2, <1>3, <1>4, <1>5 DEF ClientTypes
  <1>19. Sending'
    <2>1. ASSUME NoFirst, ~overtaken, NEW k \in 1 .. Len(sent')
          PROVE  sent'[k] = clientPosition
      <3>1. CASE k \in 1 .. Len(sent)
        BY <1>1, <1>3, <1>5, <2>1, <3>1 DEF Sending
      <3>2. CASE k = Len(sent) + 1
        BY <1>5, <1>7, <2>1, <3>2
      <3> QED  BY <1>4, <1>5, <2>1, <3>1, <3>2
    <2> QED  BY <1>1, <1>2, <1>3, <2>1 DEF Sending, FrameReady
  <1> QED  BY <1>8, <1>9, <1>10, <1>11, <1>12, <1>13, <1>14, <1>15, <1>16, <1>17,
      <1>18, <1>19
  DEF IInv, Types

\* The listener refuses a stream.
LEMMA SendFailsKeeps ==
    ASSUME IInv, SendFails
    PROVE  IInv'
  <1>1. /\ SlotTypes /\ FieldTypes /\ ReaderTypes /\ ClientTypes /\ SourceTypes
        /\ ObservedTypes
        /\ SourceAt /\ Aligned /\ SlotsHold /\ Sending /\ Waits /\ FailsOnlyOnFault
    BY DEF IInv, Types
  <1>2. /\ isReady' = isReady /\ position' = position /\ data' = data
        /\ clientWaiting' = clientWaiting /\ clientPosition' = clientPosition
        /\ waiting' = waiting /\ lastPosition' = lastPosition /\ eofPosition' = eofPosition
        /\ stopped' = stopped /\ reader' = reader /\ rPosition' = rPosition
        /\ haveReadFrame' = haveReadFrame /\ readEOF' = readEOF /\ haveSeeked' = haveSeeked
        /\ call' = call /\ target' = target /\ origClientPosition' = origClientPosition
        /\ waitCount' = waitCount /\ at' = at /\ skew' = skew /\ faults' = faults
        /\ before' = before /\ faultInCall' = faultInCall
    BY DEF SendFails, slots, shared, readerLocals, clientLocals, source, observed
  <1>3. client = "send" /\ client' = "idle" /\ sent' = <<>> /\ overtaken' = FALSE
        /\ result' = "refused"
    BY DEF SendFails, Answer
  <1>4. overtaken' \in BOOLEAN
    BY <1>3, Zenon
  <1>5. SlotTypes'
    BY <1>1, <1>2 DEF SlotTypes
  <1>6. FieldTypes'
    BY <1>1, <1>2 DEF FieldTypes
  <1>7. ReaderTypes'
    BY <1>1, <1>2 DEF ReaderTypes
  <1>8. SourceTypes'
    BY <1>1, <1>2 DEF SourceTypes
  <1>9. SourceAt'
    BY <1>1, <1>2 DEF SourceAt, EofExact, Fetching
  <1>10. Aligned'
    BY <1>1, <1>2 DEF Aligned
  <1>11. SlotsHold'
    BY <1>1, <1>2 DEF SlotsHold, RingHoldsFrames
  <1>12. ClientTypes'
    BY <1>1, <1>2, <1>3, SizeAssumption DEF ClientTypes
  <1>13. ObservedTypes'
    BY <1>1, <1>2, <1>3, <1>4 DEF ObservedTypes
  <1>14. Sending'
    BY <1>1, <1>2, <1>3 DEF Sending, FrameReady
  <1>15. Waits'
    BY <1>1, <1>2, <1>3
    DEF Waits, Woken, Excused, Wanted, Undisturbed, ReaderBusy, Served, Fetched,
        FrameReady, IsEOF, Fetching
  <1>16. FailsOnlyOnFault'
    BY <1>1, <1>2, <1>3 DEF FailsOnlyOnFault, Wanted
  <1> QED  BY <1>5, <1>6, <1>7, <1>8, <1>9, <1>10, <1>11, <1>12, <1>13, <1>14, <1>15,
      <1>16
  DEF IInv, Types

\* The frame has been sent; the ring is no longer full.
LEMMA AdvanceClientKeeps ==
    ASSUME IInv, AdvanceClient
    PROVE  IInv'
  <1>1. /\ SlotTypes /\ FieldTypes /\ ReaderTypes /\ ClientTypes /\ SourceTypes
        /\ ObservedTypes
        /\ SourceAt /\ Aligned /\ SlotsHold /\ Sending /\ Waits /\ FailsOnlyOnFault
    BY DEF IInv, Types
  <1>2. /\ isReady' = isReady /\ position' = position /\ data' = data
        /\ clientWaiting' = clientWaiting /\ waiting' = waiting
              /\ lastPosition' = lastPosition
        /\ eofPosition' = eofPosition /\ stopped' = stopped /\ rPosition' = rPosition
        /\ haveReadFrame' = haveReadFrame /\ readEOF' = readEOF /\ haveSeeked' = haveSeeked
        /\ call' = call /\ target' = target /\ origClientPosition' = origClientPosition
        /\ waitCount' = waitCount /\ at' = at /\ skew' = skew /\ faults' = faults
        /\ before' = before /\ faultInCall' = faultInCall
    BY DEF AdvanceClient, slots, shared, readerLocals, clientLocals, source, observed
  <1>3. /\ client = "send" /\ client' = "idle" /\ sent' = <<>> /\ overtaken' = FALSE
        /\ result' = "ok"
        /\ clientPosition' = clientPosition + 1
    BY DEF AdvanceClient, Answer
  <1>4. overtaken' \in BOOLEAN
    BY <1>3, Zenon
  <1>5. reader' = reader \/ (reader = "waitClient" /\ reader' = "top")
    BY DEF AdvanceClient, SignalReader
  <1>6. SlotTypes'
    BY <1>1, <1>2 DEF SlotTypes
  <1>7. SourceTypes'
    BY <1>1, <1>2 DEF SourceTypes
  <1>8. FieldTypes'
    BY <1>1, <1>2, <1>3 DEF FieldTypes
  <1>9. ReaderTypes'
    BY <1>1, <1>2, <1>5 DEF ReaderTypes
  <1>10. ClientTypes'
    BY <1>1, <1>2, <1>3, SizeAssumption DEF ClientTypes
  <1>11. ObservedTypes'
    BY <1>1, <1>2, <1>3, <1>4 DEF ObservedTypes
  <1>12. SourceAt'
    BY <1>1, <1>2, <1>5 DEF SourceAt, EofExact, Fetching
  <1>13. Aligned'
    BY <1>1, <1>2, <1>5 DEF Aligned
  <1>14. SlotsHold'
    BY <1>1, <1>2, <1>5 DEF SlotsHold, RingHoldsFrames
  <1>15. Sending'
    BY <1>1, <1>2, <1>3, <1>5 DEF Sending, FrameReady
  <1>16. Waits'
    BY <1>1, <1>2, <1>3, <1>5
    DEF Waits, Woken, Excused, Wanted, Undisturbed, ReaderBusy, Served, Fetched,
        FrameReady, IsEOF, Fetching
  <1>17. FailsOnlyOnFault'
    BY <1>1, <1>2, <1>3 DEF FailsOnlyOnFault, Wanted
  <1> QED  BY <1>6, <1>7, <1>8, <1>9, <1>10, <1>11, <1>12, <1>13, <1>14, <1>15, <1>16,
      <1>17
  DEF IInv, Types

\* The source is closed: the read thread is told, ...
LEMMA StopKeeps ==
    ASSUME IInv, Stop
    PROVE  IInv'
  <1>1. /\ SlotTypes /\ FieldTypes /\ ReaderTypes /\ ClientTypes /\ SourceTypes
        /\ ObservedTypes
        /\ SourceAt /\ Aligned /\ SlotsHold /\ Sending /\ Waits /\ FailsOnlyOnFault
    BY DEF IInv, Types
  <1>2. /\ isReady' = isReady /\ position' = position /\ data' = data
        /\ clientWaiting' = clientWaiting /\ clientPosition' = clientPosition
        /\ waiting' = waiting /\ lastPosition' = lastPosition /\ eofPosition' = eofPosition
        /\ reader' = reader /\ rPosition' = rPosition /\ haveReadFrame' = haveReadFrame
        /\ readEOF' = readEOF /\ haveSeeked' = haveSeeked /\ call' = call
              /\ target' = target
        /\ origClientPosition' = origClientPosition /\ waitCount' = waitCount
              /\ sent' = sent
        /\ at' = at /\ skew' = skew /\ faults' = faults /\ result' = result
              /\ before' = before
        /\ faultInCall' = faultInCall /\ overtaken' = overtaken
    BY DEF Stop, slots, shared, readerLocals, clientLocals, source, observed
  <1>3. client = "idle" /\ client' = "stopping" /\ stopped' = TRUE
    BY DEF Stop
  <1>4. stopped' \in BOOLEAN
    BY <1>3, Zenon
  <1>5. SlotTypes'
    BY <1>1, <1>2 DEF SlotTypes
  <1>6. ReaderTypes'
    BY <1>1, <1>2 DEF ReaderTypes
  <1>7. SourceTypes'
    BY <1>1, <1>2 DEF SourceTypes
  <1>8. ObservedTypes'
    BY <1>1, <1>2 DEF ObservedTypes
  <1>9. SourceAt'
    BY <1>1, <1>2 DEF SourceAt, EofExact, Fetching
  <1>10. Aligned'
    BY <1>1, <1>2 DEF Aligned
  <1>11. SlotsHold'
    BY <1>1, <1>2 DEF SlotsHold, RingHoldsFrames
  <1>12. FieldTypes'
    BY <1>1, <1>2, <1>3, <1>4 DEF FieldTypes
  <1>13. ClientTypes'
    BY <1>1, <1>2, <1>3 DEF ClientTypes
  <1>14. Sending'
    BY <1>1, <1>2, <1>3 DEF Sending, FrameReady
  <1>15. Waits'
    BY <1>1, <1>2, <1>3
    DEF Waits, Woken, Excused, Wanted, Undisturbed, ReaderBusy, Served, Fetched,
        FrameReady, IsEOF, Fetching
  <1>16. FailsOnlyOnFault'
    BY <1>1, <1>2, <1>3 DEF FailsOnlyOnFault, Wanted
  <1> QED  BY <1>5, <1>6, <1>7, <1>8, <1>9, <1>10, <1>11, <1>12, <1>13, <1>14, <1>15,
      <1>16
  DEF IInv, Types

\* ... woken, ...
LEMMA BroadcastKeeps ==
    ASSUME IInv, Broadcast
    PROVE  IInv'
  <1>1. /\ SlotTypes /\ FieldTypes /\ ReaderTypes /\ ClientTypes /\ SourceTypes
        /\ ObservedTypes
        /\ SourceAt /\ Aligned /\ SlotsHold /\ Sending /\ Waits /\ FailsOnlyOnFault
    BY DEF IInv, Types
  <1>2. /\ isReady' = isReady /\ position' = position /\ data' = data
        /\ clientWaiting' = clientWaiting /\ clientPosition' = clientPosition
        /\ waiting' = waiting /\ lastPosition' = lastPosition /\ eofPosition' = eofPosition
        /\ stopped' = stopped /\ rPosition' = rPosition /\ haveReadFrame' = haveReadFrame
        /\ readEOF' = readEOF /\ haveSeeked' = haveSeeked /\ call' = call
              /\ target' = target
        /\ origClientPosition' = origClientPosition /\ waitCount' = waitCount
              /\ sent' = sent
        /\ at' = at /\ skew' = skew /\ faults' = faults /\ result' = result
              /\ before' = before
        /\ faultInCall' = faultInCall /\ overtaken' = overtaken
    BY DEF Broadcast, slots, shared, readerLocals, clientLocals, source, observed
  <1>3. client = "stopping" /\ client' = "join"
    BY DEF Broadcast
  <1>4. reader' = reader \/ (reader = "waitClient" /\ reader' = "top")
    BY DEF Broadcast, SignalReader
  <1>5. SlotTypes'
    BY <1>1, <1>2 DEF SlotTypes
  <1>6. FieldTypes'
    BY <1>1, <1>2 DEF FieldTypes
  <1>7. SourceTypes'
    BY <1>1, <1>2 DEF SourceTypes
  <1>8. ObservedTypes'
    BY <1>1, <1>2 DEF ObservedTypes
  <1>9. ReaderTypes'
    BY <1>1, <1>2, <1>4 DEF ReaderTypes
  <1>10. ClientTypes'
    BY <1>1, <1>2, <1>3 DEF ClientTypes
  <1>11. SourceAt'
    BY <1>1, <1>2, <1>4 DEF SourceAt, EofExact, Fetching
  <1>12. Aligned'
    BY <1>1, <1>2, <1>4 DEF Aligned
  <1>13. SlotsHold'
    BY <1>1, <1>2, <1>4 DEF SlotsHold, RingHoldsFrames
  <1>14. Sending'
    BY <1>1, <1>2, <1>3, <1>4 DEF Sending, FrameReady
  <1>15. Waits'
    BY <1>1, <1>2, <1>3, <1>4
    DEF Waits, Woken, Excused, Wanted, Undisturbed, ReaderBusy, Served, Fetched,
        FrameReady, IsEOF, Fetching
  <1>16. FailsOnlyOnFault'
    BY <1>1, <1>2, <1>3 DEF FailsOnlyOnFault, Wanted
  <1> QED  BY <1>5, <1>6, <1>7, <1>8, <1>9, <1>10, <1>11, <1>12, <1>13, <1>14, <1>15,
      <1>16
  DEF IInv, Types

\* ... and joined.
LEMMA JoinKeeps ==
    ASSUME IInv, Join
    PROVE  IInv'
  <1>1. /\ SlotTypes /\ FieldTypes /\ ReaderTypes /\ ClientTypes /\ SourceTypes
        /\ ObservedTypes
        /\ SourceAt /\ Aligned /\ SlotsHold /\ Sending /\ Waits /\ FailsOnlyOnFault
    BY DEF IInv, Types
  <1>2. /\ isReady' = isReady /\ position' = position /\ data' = data
        /\ clientWaiting' = clientWaiting /\ clientPosition' = clientPosition
        /\ waiting' = waiting /\ lastPosition' = lastPosition /\ eofPosition' = eofPosition
        /\ stopped' = stopped /\ reader' = reader /\ rPosition' = rPosition
        /\ haveReadFrame' = haveReadFrame /\ readEOF' = readEOF /\ haveSeeked' = haveSeeked
        /\ call' = call /\ target' = target /\ origClientPosition' = origClientPosition
        /\ waitCount' = waitCount /\ sent' = sent /\ at' = at /\ skew' = skew
        /\ faults' = faults /\ result' = result /\ before' = before
        /\ faultInCall' = faultInCall /\ overtaken' = overtaken
    BY DEF Join, slots, shared, readerLocals, clientLocals, source, observed
  <1>3. client = "join" /\ client' = "closed"
    BY DEF Join
  <1>4. SlotTypes'
    BY <1>1, <1>2 DEF SlotTypes
  <1>5. FieldTypes'
    BY <1>1, <1>2 DEF FieldTypes
  <1>6. ReaderTypes'
    BY <1>1, <1>2 DEF ReaderTypes
  <1>7. SourceTypes'
    BY <1>1, <1>2 DEF SourceTypes
  <1>8. ObservedTypes'
    BY <1>1, <1>2 DEF ObservedTypes
  <1>9. SourceAt'
    BY <1>1, <1>2 DEF SourceAt, EofExact, Fetching
  <1>10. Aligned'
    BY <1>1, <1>2 DEF Aligned
  <1>11. SlotsHold'
    BY <1>1, <1>2 DEF SlotsHold, RingHoldsFrames
  <1>12. ClientTypes'
    BY <1>1, <1>2, <1>3 DEF ClientTypes
  <1>13. Sending'
    BY <1>1, <1>2, <1>3 DEF Sending, FrameReady
  <1>14. Waits'
    BY <1>1, <1>2, <1>3
    DEF Waits, Woken, Excused, Wanted, Undisturbed, ReaderBusy, Served, Fetched,
        FrameReady, IsEOF, Fetching
  <1>15. FailsOnlyOnFault'
    BY <1>1, <1>2, <1>3 DEF FailsOnlyOnFault, Wanted
  <1> QED  BY <1>4, <1>5, <1>6, <1>7, <1>8, <1>9, <1>10, <1>11, <1>12, <1>13, <1>14,
      <1>15
  DEF IInv, Types

\* Nothing changes in a step of the program that surrounds the source.
LEMMA StutterKeeps ==
    ASSUME IInv, UNCHANGED vars
    PROVE  IInv'
  <1>1. /\ SlotTypes /\ FieldTypes /\ ReaderTypes /\ ClientTypes /\ SourceTypes
        /\ ObservedTypes
        /\ SourceAt /\ Aligned /\ SlotsHold /\ Sending /\ Waits /\ FailsOnlyOnFault
    BY DEF IInv, Types
  <1>2. /\ isReady' = isReady /\ position' = position /\ data' = data
        /\ clientWaiting' = clientWaiting /\ clientPosition' = clientPosition
        /\ waiting' = waiting /\ lastPosition' = lastPosition
        /\ eofPosition' = eofPosition /\ stopped' = stopped /\ reader' = reader
        /\ rPosition' = rPosition /\ haveReadFrame' = haveReadFrame
        /\ readEOF' = readEOF /\ haveSeeked' = haveSeeked /\ client' = client
        /\ call' = call /\ target' = target
        /\ origClientPosition' = origClientPosition /\ waitCount' = waitCount
        /\ sent' = sent /\ at' = at /\ skew' = skew /\ faults' = faults
        /\ result' = result /\ before' = before /\ faultInCall' = faultInCall
        /\ overtaken' = overtaken
    BY DEF vars, slots, shared, readerLocals, clientLocals, source, observed
  <1>3. SlotTypes'
    BY <1>1, <1>2 DEF SlotTypes
  <1>4. FieldTypes'
    BY <1>1, <1>2 DEF FieldTypes
  <1>5. ReaderTypes'
    BY <1>1, <1>2 DEF ReaderTypes
  <1>6. ClientTypes'
    BY <1>1, <1>2 DEF ClientTypes
  <1>7. SourceTypes'
    BY <1>1, <1>2 DEF SourceTypes
  <1>8. ObservedTypes'
    BY <1>1, <1>2 DEF ObservedTypes
  <1>9. SourceAt'
    BY <1>1, <1>2 DEF SourceAt, EofExact, Fetching
  <1>10. Aligned'
    BY <1>1, <1>2 DEF Aligned
  <1>11. SlotsHold'
    BY <1>1, <1>2 DEF SlotsHold, RingHoldsFrames
  <1>12. Sending'
    BY <1>1, <1>2 DEF Sending, FrameReady
  <1>13. Waits'
    BY <1>1, <1>2
    DEF Waits, Woken, Excused, Wanted, Undisturbed, ReaderBusy, Served, Fetched,
           FrameReady, IsEOF, Fetching
  <1>14. FailsOnlyOnFault'
    BY <1>1, <1>2 DEF FailsOnlyOnFault, Wanted
  <1> QED
    BY <1>3, <1>4, <1>5, <1>6, <1>7, <1>8, <1>9, <1>10, <1>11, <1>12, <1>13, <1>14
    DEF IInv, Types
-----------------------------------------------------------------------------
(* Invariance. *)

\* bmsrc_create establishes the invariant: no slot is ready, nothing is read.
LEMMA InitInvariant == Init => IInv
  <1> SUFFICES ASSUME Init
               PROVE  IInv
    OBVIOUS
  <1>1. SlotTypes
    BY DEF Init, SlotTypes, Position, Data
  <1>2. sent \in Seq(Data) /\ Len(sent) <= NumStreams
    BY SizeAssumption DEF Init
  <1>3. ClientTypes
    BY <1>2 DEF Init, ClientTypes
  <1>4. SourceTypes
    <2>1. at \in Nat /\ faults \in 0 .. MaxFaults
      BY FaultAssumption DEF Init
    <2>2. skew \in BOOLEAN
      BY Zenon DEF Init
    <2> QED  BY <2>1, <2>2 DEF SourceTypes
  <1>5. ObservedTypes
    BY DEF Init, ObservedTypes
  <1>6. FieldTypes /\ ReaderTypes
    BY DEF Init, FieldTypes, ReaderTypes, Position
  <1>7. SourceAt
    BY LengthAssumption DEF Init, SourceAt, EofExact, Fetching
  <1>8. Aligned /\ FailsOnlyOnFault
    BY DEF Init, Aligned, FailsOnlyOnFault
  <1>9. SlotsHold
    BY DEF Init, SlotsHold, RingHoldsFrames
  <1>10. Sending /\ Waits
    BY DEF Init, Sending, Waits, Woken
  <1> QED  BY <1>1, <1>3, <1>4, <1>5, <1>6, <1>7, <1>8, <1>9, <1>10 DEF IInv, Types

\* Every step of either thread keeps it.
LEMMA NextKeeps == IInv /\ [Next]_vars => IInv'
  <1> SUFFICES ASSUME IInv, [Next]_vars
               PROVE  IInv'
    OBVIOUS
  <1>1. CASE ReadThread
    BY <1>1, ReadThreadCheckKeeps, WaitForClientKeeps, ChooseFrameKeeps,
       SeekTargetKeeps,
       InitialiseSlotKeeps, ReadFrameOKKeeps, ReadFrameFailsKeeps, RecoverPositionKeeps,
       PublishKeeps DEF ReadThread
  <1>2. CASE ClientCall
    BY <1>2, LoopEOFKeeps, LoopReadyKeeps, LoopGiveUpKeeps, LoopWaitKeeps, RestoreKeeps,
       SendStreamKeeps, SendFailsKeeps, AdvanceClientKeeps, BroadcastKeeps, JoinKeeps
    DEF ClientCall
  <1>3. CASE CallReadFrame
    <2>1. Begin("read") /\ target' \in Nat
      BY <1>3 DEF CallReadFrame, IInv, Types, ClientTypes
    <2> QED  BY <2>1, BeginKeeps
  <1>4. ASSUME NEW p \in SeekPositions, CallSeek(p)
        PROVE  IInv'
    <2>1. Begin("seek") /\ target' \in Nat
      BY <1>4, LengthAssumption DEF CallSeek
    <2> QED  BY <2>1, BeginKeeps
  <1>5. CASE Stop \/ TimedOut \/ SpuriousWakeup
    BY <1>5, StopKeeps, TimedOutKeeps, SpuriousWakeupKeeps
  <1>6. CASE UNCHANGED vars
    BY <1>6, StutterKeeps
  <1> QED  BY <1>1, <1>2, <1>3, <1>4, <1>5, <1>6 DEF Next, ClientChoice

LEMMA Invariance == Spec => []IInv
  BY InitInvariant, NextKeeps, PTL DEF Spec

\* The variables stay within what the fields of the struct and the locals of the
\* two threads hold.
THEOREM SourceTypesHold == Spec => []TypeOK
  <1>1. IInv => TypeOK
    BY DEF IInv, Types, SlotTypes, FieldTypes, ReaderTypes, ClientTypes, SourceTypes,
           ObservedTypes, TypeOK
  <1> QED  BY <1>1, Invariance, PTL

\* The end of the source is never recorded anywhere but where it is, however
\* read_thread's reads, seeks and failures follow each other.
THEOREM EndIsExact == Spec => []EofExact
  <1>1. IInv => EofExact
    BY DEF IInv, SourceAt
  <1> QED  BY <1>1, Invariance, PTL

\* bmsrc_read_frame and bmsrc_seek do not give up after their two wakeups on a
\* frame the source has, unless something failed during the call: the first
\* wakeup may have been for another frame, the second cannot.
THEOREM TwoWakeupsSuffice == Spec => []FailsOnlyOnFault
  <1>1. IInv => FailsOnlyOnFault
    BY DEF IInv
  <1> QED  BY <1>1, Invariance, PTL

\* Between two frames the target source stands at the start of the frame after
\* the last one read, whatever failed before, so long as its first frame can be
\* read.
THEOREM SourceInStep ==
    ASSUME NoFirst
    PROVE  Spec => []TargetInStep
  <1>1. IInv => TargetInStep
    BY DEF IInv, NoFirst, SourceAt, Aligned, TargetInStep, ReaderBusy
  <1> QED  BY <1>1, Invariance, PTL

\* Then a slot marked ready belongs to the frame it is labelled with and holds
\* that frame's data.
THEOREM SlotsHoldFrames ==
    ASSUME NoFirst
    PROVE  Spec => []RingHoldsFrames
  <1>1. IInv => RingHoldsFrames
    BY NoFirst DEF IInv, SlotsHold
  <1> QED  BY <1>1, Invariance, PTL

\* Then a frame goes to the listener whole, unless the read thread had chosen
\* its slot before bmsrc_read_frame found the frame there.
THEOREM FramesDeliveredRight ==
    ASSUME NoFirst
    PROVE  Spec => []DeliveredRight
  <1>1. IInv => DeliveredRight
    BY DEF IInv, Types, ClientTypes, NoFirst, Sending, DeliveredRight
  <1> QED  BY <1>1, Invariance, PTL

-----------------------------------------------------------------------------
(* Playing without seeks.  The frames the client has still to read are in    *)
(* the ring, each in a slot of its own, and the read thread goes on behind   *)
(* the last of them: it never chooses the slot of the client's frame.        *)

NoSeeks == SeekPositions = {}

Playing ==
    /\ call # "seek" /\ client \notin {"restore", "restoreEOF"} /\ ~overtaken
    /\ clientPosition <= lastPosition + 1
    /\ client = "send" => clientPosition <= lastPosition
    /\ lastPosition - clientPosition < Size
    /\ \A p \in clientPosition .. lastPosition : FrameReady(p)
    /\ \A i \in Slots : isReady[i] => position[i] <= lastPosition
    /\ ReaderBusy => rPosition = lastPosition + 1 /\ rPosition - clientPosition < Size

\* A positive multiple of a length is not less than the length.
LEMMA Multiple ==
    ASSUME NEW N \in Nat, NEW d \in Int, d > 0
    PROVE  N * d >= N
  OBVIOUS

\* Positions that share a slot are apart by a multiple of the ring's size.
LEMMA SharedSlot ==
    ASSUME NEW p \in Int, NEW q \in Int, SlotOf(p) = SlotOf(q)
    PROVE  \E d \in Int : q - p = Size * d
  <1>1. /\ p = Size * (p \div Size) + (p % Size)
        /\ q = Size * (q \div Size) + (q % Size)
        /\ p \div Size \in Int /\ q \div Size \in Int /\ p % Size \in Int
    BY SizeAssumption
  <1>2. q - p = Size * ((q \div Size) - (p \div Size))
    BY <1>1, SizeAssumption DEF SlotOf
  <1> QED  BY <1>1, <1>2

\* Positions less than a ring apart have different slots.
LEMMA SlotsApart ==
    ASSUME NEW p \in Int, NEW q \in Int, p < q, q - p < Size
    PROVE  SlotOf(p) # SlotOf(q)
  <1> SUFFICES ASSUME SlotOf(p) = SlotOf(q)
               PROVE  FALSE
    OBVIOUS
  <1>1. PICK d \in Int : q - p = Size * d
    BY SharedSlot
  <1>2. d > 0
    BY <1>1, SizeAssumption
  <1>3. Size * d >= Size
    BY <1>2, Multiple, SizeAssumption
  <1> QED  BY <1>1, <1>3, SizeAssumption

\* Positions a ring apart share a slot.
LEMMA SlotShared ==
    ASSUME NEW p \in Int
    PROVE  SlotOf(p + Size) = SlotOf(p)
  <1>1. PICK a \in Int, b \in Int, r \in 0 .. Size - 1, s \in 0 .. Size - 1 :
            /\ p = Size * a + r /\ p + Size = Size * b + s
            /\ r = SlotOf(p) /\ s = SlotOf(p + Size)
    <2>1. p = Size * (p \div Size) + SlotOf(p) /\ p \div Size \in Int
      BY SizeAssumption DEF SlotOf
    <2>2. /\ p + Size = Size * ((p + Size) \div Size) + SlotOf(p + Size)
          /\ (p + Size) \div Size \in Int
      BY SizeAssumption DEF SlotOf
    <2>3. SlotOf(p) \in 0 .. Size - 1 /\ SlotOf(p + Size) \in 0 .. Size - 1
      BY SlotOfType, SizeAssumption DEF Slots
    <2> QED  BY <2>1, <2>2, <2>3
  <1> DEFINE d == b - a - 1
  <1>2. Size * d = r - s
    <2>1. Size * d = Size * b - Size * a - Size
      BY SizeAssumption
    <2>2. p = Size * a + r /\ p + Size = Size * b + s
      BY <1>1
    <2> QED  BY <2>1, <2>2, SizeAssumption
  <1>3. d \in Int /\ -d \in Int /\ Size * (-d) = s - r
    BY <1>2, SizeAssumption
  <1> HIDE DEF d
  <1>4. d > 0 => Size * d >= Size
    BY <1>3, Multiple, SizeAssumption
  <1>5. -d > 0 => Size * (-d) >= Size
    BY <1>3, Multiple, SizeAssumption
  <1>6. d = 0
    BY <1>2, <1>3, <1>4, <1>5, SizeAssumption
  <1>7. r = s
    BY <1>2, <1>6, SizeAssumption
  <1> QED  BY <1>1, <1>7

\* A step that moves neither the frames nor the positions, and takes neither
\* thread into the work of a frame, keeps them so.
LEMMA OthersKeepPlaying ==
    ASSUME Playing,
           UNCHANGED <<isReady, position, lastPosition, clientPosition, rPosition>>,
           call' # "seek", client' \notin {"restore", "restoreEOF"},
           client' = "send" => client = "send",
           ReaderBusy' => ReaderBusy,
           ~overtaken'
    PROVE  Playing'
  BY DEF Playing, FrameReady, SlotOf

\* The next frame is the one after the last: the client's own when all before
\* it have been read, and less than a ring on when the ring is not full.
LEMMA ChooseFramePlaying ==
    ASSUME IInv, Playing, ChooseFrame
    PROVE  Playing'
  <1>1. clientPosition \in Nat /\ lastPosition \in Position /\ clientPosition' \in Nat
    BY DEF IInv, Types, FieldTypes, ChooseFrame
  <1>2. UNCHANGED <<isReady, position, lastPosition, clientPosition, call, client, overtaken>>
    BY DEF ChooseFrame, slots, clientLocals, observed
  <1>3. CASE FrameReady(clientPosition)
    <2>1. rPosition' = lastPosition + 1 /\ SlotOf(lastPosition + 1) # SlotOf(clientPosition)
      BY <1>3 DEF ChooseFrame, RingFull
    <2>2. lastPosition + 1 # clientPosition + Size
      BY <1>1, <2>1, SlotShared
    <2> QED  BY <1>1, <1>2, <2>1, <2>2, SizeAssumption DEF Playing, FrameReady, SlotOf, Position
  <1>4. CASE ~FrameReady(clientPosition)
    <2>1. rPosition' = clientPosition
      BY <1>4 DEF ChooseFrame
    <2>2. clientPosition = lastPosition + 1
      BY <1>1, <1>4 DEF Playing, Position
    <2> QED  BY <1>1, <1>2, <2>1, <2>2, SizeAssumption DEF Playing, FrameReady, SlotOf, Position
  <1> QED  BY <1>3, <1>4

\* The slot of the next frame is none of theirs.
LEMMA InitialiseSlotPlaying ==
    ASSUME IInv, Playing, InitialiseSlot
    PROVE  Playing'
  <1>1. /\ isReady \in [Slots -> BOOLEAN] /\ position \in [Slots -> Position]
        /\ clientPosition \in Nat /\ lastPosition \in Position /\ rPosition \in Nat
    BY DEF IInv, Types, SlotTypes, FieldTypes, ReaderTypes
  <1>2. /\ UNCHANGED <<lastPosition, clientPosition, rPosition, call, client, overtaken>>
        /\ isReady' = [isReady EXCEPT ![SlotOf(rPosition)] = FALSE]
        /\ position' = [position EXCEPT ![SlotOf(rPosition)] = -1]
    BY DEF InitialiseSlot, shared, readerLocals, clientLocals, observed
  <1>3. rPosition = lastPosition + 1 /\ rPosition - clientPosition < Size
    BY DEF InitialiseSlot, Playing, ReaderBusy
  <1>4. ASSUME NEW p \in clientPosition .. lastPosition
        PROVE  FrameReady(p)'
    <2>1. p \in Int /\ rPosition \in Int /\ p < rPosition /\ rPosition - p < Size
      BY <1>1, <1>3, SizeAssumption DEF Position
    <2>2. SlotOf(p) # SlotOf(rPosition) /\ SlotOf(p) \in Slots
      BY <2>1, SlotsApart, SlotOfType
    <2>3. FrameReady(p)
      BY DEF Playing
    <2> QED  BY <1>1, <1>2, <2>2, <2>3 DEF FrameReady, SlotOf
  <1>5. \A i \in Slots : isReady'[i] => position'[i] <= lastPosition
    BY <1>1, <1>2 DEF Playing
  <1> QED  BY <1>2, <1>3, <1>4, <1>5 DEF Playing

\* The frame published is the next of them.
LEMMA PublishPlaying ==
    ASSUME IInv, Playing, Publish
    PROVE  Playing'
  <1>1. /\ isReady \in [Slots -> BOOLEAN] /\ position \in [Slots -> Position]
        /\ clientPosition \in Nat /\ lastPosition \in Position /\ rPosition \in Nat
        /\ SlotOf(rPosition) \in Slots
    BY SlotOfType DEF IInv, Types, SlotTypes, FieldTypes, ReaderTypes
  <1>2. /\ UNCHANGED <<clientPosition, rPosition, call, overtaken>>
        /\ client' \in {client, "loop"}
        /\ ~ReaderBusy'
    BY DEF Publish, SignalClient, ReaderBusy, readerLocals, clientLocals, observed
  <1>3. rPosition = lastPosition + 1 /\ rPosition - clientPosition < Size
    BY DEF Publish, Playing, ReaderBusy
  <1>4. CASE ~haveReadFrame
    BY <1>2, <1>4 DEF Publish, Playing, FrameReady, SlotOf
  <1>5. CASE haveReadFrame
    <2>1. /\ isReady' = [isReady EXCEPT ![SlotOf(rPosition)] = TRUE]
          /\ position' = [position EXCEPT ![SlotOf(rPosition)] = rPosition]
          /\ lastPosition' = rPosition
      BY <1>5 DEF Publish
    <2>2. ASSUME NEW p \in clientPosition .. rPosition
          PROVE  FrameReady(p)'
      <3>1. CASE p = rPosition
        BY <1>1, <2>1, <3>1 DEF FrameReady, SlotOf
      <3>2. CASE p # rPosition
        <4>1. /\ p \in Int /\ rPosition \in Int /\ p < rPosition /\ rPosition - p < Size
              /\ p \in clientPosition .. lastPosition
          BY <1>1, <1>3, <3>2, SizeAssumption DEF Position
        <4>2. SlotOf(p) # SlotOf(rPosition) /\ SlotOf(p) \in Slots
          BY <4>1, SlotsApart, SlotOfType
        <4>3. FrameReady(p)
          BY <4>1 DEF Playing
        <4> QED  BY <1>1, <2>1, <4>2, <4>3 DEF FrameReady, SlotOf
      <3> QED  BY <3>1, <3>2
    <2>3. \A i \in Slots : isReady'[i] => position'[i] <= lastPosition'
      BY <1>1, <1>3, <2>1 DEF Playing, Position
    <2>4. /\ clientPosition <= lastPosition' + 1
          /\ client' = "send" => clientPosition <= lastPosition'
          /\ lastPosition' - clientPosition < Size
      BY <1>1, <1>2, <1>3, <2>1 DEF Playing, Position
    <2> QED  BY <1>2, <2>1, <2>2, <2>3, <2>4 DEF Playing
  <1> QED  BY <1>4, <1>5

\* The client finds its frame in the ring, and not where the next one goes.
LEMMA LoopReadyPlaying ==
    ASSUME IInv, Playing, LoopReady
    PROVE  Playing'
  <1>1. /\ clientPosition \in Nat /\ lastPosition \in Position /\ rPosition \in Nat
        /\ Waits /\ client = "loop"
    BY DEF IInv, Types, FieldTypes, ReaderTypes, LoopReady, Loop
  <1>2. call = "read"
    BY <1>1 DEF Waits, Playing
  <1>3. /\ UNCHANGED <<isReady, position, lastPosition, rPosition, reader, call>>
        /\ clientPosition' = clientPosition
        /\ client' = "send"
    BY <1>2 DEF LoopReady, Loop, EnterLoop, slots, readerLocals
  <1>4. FrameReady(clientPosition)
    <2>1. FrameReady(clientPosition')
      BY LoopFacts DEF LoopReady
    <2> QED  BY <1>3, <2>1
  <1>5. clientPosition <= lastPosition
    <2>1. clientPosition \in Int
      BY <1>1
    <2>2. SlotOf(clientPosition) \in Slots
      BY <2>1, SlotOfType
    <2> QED  BY <1>4, <2>2 DEF FrameReady, Playing
  <1>6. ~overtaken'
    <2> SUFFICES ASSUME reader \in {"chosen", "seek", "init"}
                 PROVE  SlotOf(rPosition) # SlotOf(clientPosition)
      BY <1>3 DEF LoopReady
    <2>1. /\ clientPosition < rPosition /\ rPosition - clientPosition < Size
          /\ clientPosition \in Int /\ rPosition \in Int
      BY <1>1, <1>5 DEF Playing, ReaderBusy, Position
    <2> QED  BY <2>1, SlotsApart
  <1> QED  BY <1>2, <1>3, <1>5, <1>6 DEF Playing, FrameReady, SlotOf, ReaderBusy

\* The client goes on to the frame after one it has read.
LEMMA AdvanceClientPlaying ==
    ASSUME IInv, Playing, AdvanceClient
    PROVE  Playing'
  <1>1. clientPosition \in Nat /\ lastPosition \in Position /\ rPosition \in Nat
    BY DEF IInv, Types, FieldTypes, ReaderTypes
  <1>2. /\ UNCHANGED <<isReady, position, lastPosition, rPosition, call>>
        /\ clientPosition' = clientPosition + 1
        /\ client = "send" /\ client' = "idle" /\ ~overtaken'
        /\ ReaderBusy' => ReaderBusy
    BY DEF AdvanceClient, SignalReader, Answer, ReaderBusy, slots, readerLocals
  <1>3. \A p \in clientPosition' .. lastPosition : p \in clientPosition .. lastPosition
    BY <1>1, <1>2 DEF Position
  <1>4. /\ clientPosition' <= lastPosition + 1
        /\ lastPosition - clientPosition' < Size
        /\ ReaderBusy => rPosition - clientPosition' < Size
    BY <1>1, <1>2, SizeAssumption DEF Playing, Position
  <1> QED  BY <1>2, <1>3, <1>4 DEF Playing, FrameReady, SlotOf

\* The other steps of the read thread.
LEMMA ReadThreadPlaying ==
    ASSUME IInv, Playing, ReadThread
    PROVE  Playing'
  <1>1. CASE ReadThreadCheck
    <2>1. reader = "chosen" => ReaderBusy
      BY DEF ReaderBusy
    <2>2. reader = "top" => ~ReaderBusy'
      BY <1>1 DEF ReadThreadCheck, ReaderBusy
    <2>3. reader \in {"top", "chosen"}
      BY <1>1 DEF ReadThreadCheck
    <2>4. /\ UNCHANGED <<isReady, position, lastPosition, clientPosition, rPosition>>
          /\ UNCHANGED <<call, client, overtaken>>
      BY <1>1 DEF ReadThreadCheck, slots, shared, readerLocals, clientLocals, observed
    <2> QED  BY <2>1, <2>2, <2>3, <2>4, OthersKeepPlaying DEF Playing
  <1>2. CASE WaitForClient
    <2>1. /\ UNCHANGED <<isReady, position, lastPosition, clientPosition, rPosition>>
          /\ UNCHANGED <<call, overtaken>> /\ client' \in {client, "loop"}
          /\ ~ReaderBusy'
      BY <1>2 DEF WaitForClient, SignalClient, ReaderBusy, slots, readerLocals,
                  clientLocals, observed
    <2> QED  BY <2>1, OthersKeepPlaying DEF Playing
  <1>3. CASE SeekTarget \/ ReadFrameOK \/ ReadFrameFails \/ RecoverPosition
    <2>1. /\ UNCHANGED <<isReady, position, lastPosition, clientPosition, rPosition>>
          /\ UNCHANGED <<call, client, overtaken>>
          /\ ReaderBusy
      BY <1>3 DEF SeekTarget, ReadFrameOK, ReadFrameFails, RecoverPosition, ReaderBusy,
                  slots, shared, readerLocals, clientLocals, observed
    <2> QED  BY <2>1, OthersKeepPlaying DEF Playing
  <1>4. CASE ChooseFrame \/ InitialiseSlot \/ Publish
    BY <1>4, ChooseFramePlaying, InitialiseSlotPlaying, PublishPlaying
  <1> QED  BY <1>1, <1>2, <1>3, <1>4 DEF ReadThread

\* The other steps of a call; no read restores a position.
LEMMA ClientCallPlaying ==
    ASSUME IInv, Playing, ClientCall
    PROVE  Playing'
  <1>1. ASSUME client = "loop"
        PROVE  call = "read"
    BY <1>1 DEF IInv, Waits, Playing
  <1>2. CASE LoopEOF \/ LoopGiveUp
    <2>1. client = "loop"
      BY <1>2 DEF LoopEOF, LoopGiveUp, Loop
    <2>2. /\ UNCHANGED <<isReady, position, lastPosition, clientPosition, rPosition>>
          /\ UNCHANGED <<call, reader, overtaken>> /\ client' = "idle"
      BY <1>1, <1>2, <2>1 DEF LoopEOF, LoopGiveUp, Loop, EnterLoop, Answer, slots,
                              readerLocals
    <2> QED  BY <2>2, OthersKeepPlaying DEF Playing, ReaderBusy
  <1>3. CASE LoopWait
    <2>1. client = "loop"
      BY <1>3 DEF LoopWait, Loop
    <2>2. /\ UNCHANGED <<isReady, position, lastPosition, clientPosition, rPosition>>
          /\ UNCHANGED <<call, overtaken>> /\ client' = "wait"
          /\ reader' \in {reader, "top"}
      BY <1>1, <1>3, <2>1 DEF LoopWait, Loop, EnterLoop, SignalReader, slots, readerLocals
    <2> QED  BY <2>2, OthersKeepPlaying DEF Playing, ReaderBusy
  <1>4. ~Restore
    BY DEF Restore, Playing
  <1>5. CASE SendStream \/ SendFails \/ Broadcast \/ Join
    <2>1. /\ UNCHANGED <<isReady, position, lastPosition, clientPosition, rPosition>>
          /\ call' = call /\ ~overtaken' /\ client' \in {client, "idle", "join", "closed"}
          /\ reader' \in {reader, "top"}
      BY <1>5 DEF SendStream, SendFails, Broadcast, Join, Answer, SignalReader, slots,
                  shared, readerLocals, clientLocals, observed, Playing
    <2> QED  BY <2>1, OthersKeepPlaying DEF Playing, ReaderBusy
  <1>6. CASE LoopReady \/ AdvanceClient
    BY <1>6, LoopReadyPlaying, AdvanceClientPlaying
  <1> QED  BY <1>2, <1>3, <1>4, <1>5, <1>6 DEF ClientCall

\* Every step of either thread, when the player never seeks.
LEMMA NextPlaying ==
    ASSUME NoSeeks, IInv, Playing, [Next]_vars
    PROVE  Playing'
  <1>1. CASE CallReadFrame \/ Stop \/ TimedOut
    <2>1. /\ UNCHANGED <<isReady, position, lastPosition, clientPosition, rPosition>>
          /\ UNCHANGED <<reader, overtaken>> /\ call' \in {call, "read"}
          /\ client' \in {"loop", "stopping", "idle"}
      BY <1>1 DEF CallReadFrame, Begin, Stop, TimedOut, Answer, slots, shared, readerLocals,
                  clientLocals, observed
    <2> QED  BY <2>1, OthersKeepPlaying DEF Playing, ReaderBusy
  <1>2. CASE SpuriousWakeup
    <2>1. /\ UNCHANGED <<isReady, position, lastPosition, clientPosition, rPosition>>
          /\ UNCHANGED <<call, overtaken>>
          /\ client' \in {client, "loop"} /\ reader' \in {reader, "top"}
      BY <1>2 DEF SpuriousWakeup, slots, shared, readerLocals, clientLocals
    <2> QED  BY <2>1, OthersKeepPlaying DEF Playing, ReaderBusy
  <1>3. CASE UNCHANGED vars
    <2>1. UNCHANGED <<slots, shared, reader, readerLocals, client, clientLocals, observed>>
      BY <1>3 DEF vars
    <2>2. /\ UNCHANGED <<isReady, position, lastPosition, clientPosition, rPosition>>
          /\ UNCHANGED <<call, client, reader, overtaken>>
      BY <2>1 DEF slots, shared, readerLocals, clientLocals, observed
    <2> QED  BY <2>2, OthersKeepPlaying DEF Playing, ReaderBusy
  <1>4. CASE ReadThread \/ ClientCall
    BY <1>4, ReadThreadPlaying, ClientCallPlaying
  <1> QED  BY <1>1, <1>2, <1>3, <1>4 DEF Next, ClientChoice, NoSeeks

\* While the player only plays, bmsrc_read_frame never finds its frame in a slot
\* that read_thread has chosen to refill: only a seek back can lead to that.
THEOREM PlayingIsNotOvertaken ==
    ASSUME NoSeeks
    PROVE  Spec => []~overtaken
  <1>1. Init => Playing
    BY SizeAssumption DEF Init, Playing, ReaderBusy
  <1>2. IInv /\ Playing /\ [Next]_vars => Playing'
    BY NoSeeks, NextPlaying
  <1>3. Playing => ~overtaken
    BY DEF Playing
  <1> QED  BY <1>1, <1>2, <1>3, Invariance, PTL DEF Spec

\* What DeliveredRight says without its exception.
FrameWhole == \A k \in 1 .. Len(sent) : sent[k] = clientPosition

\* So while the player only plays every stream bmsrc_read_frame sends is of the
\* frame it is at, with no exception, if the first frame can be read.
THEOREM PlayingDeliversRight ==
    ASSUME NoSeeks, NoFirst
    PROVE  Spec => []FrameWhole
  <1>1. DeliveredRight /\ ~overtaken => FrameWhole
    BY DEF DeliveredRight, FrameWhole
  <1>2. Spec => []DeliveredRight
    BY FramesDeliveredRight
  <1>3. Spec => []~overtaken
    BY PlayingIsNotOvertaken
  <1> QED  BY <1>1, <1>2, <1>3, PTL

=============================================================================
