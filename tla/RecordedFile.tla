---------------------------- MODULE RecordedFile ----------------------------
(* What a record thread promises of the file it makes of a channel.          *)
(*                                                                           *)
(* Frames are published one by one, and the last RingLen - 1 of them can be  *)
(* read.  From the start frame on they are queued for coding in order and    *)
(* written in order, each of them once.  When more than MaxBacklog have not  *)
(* been queued, those in excess are skipped, by the queueing and, which is   *)
(* the same only if no frame is waiting, by the writing; and counted.  What  *)
(* is written of a frame is its own picture, with no error, unless the frame *)
(* has been overtaken by the publishing: then it may be a later picture, and *)
(* an error may be noted.  Its audio is only that of the last frame queued.  *)
(*                                                                           *)
(* The recording ends with the first frame written that makes up the target. *)
(* What is counted for the target, and when, is the matter of Ask and Stop:  *)
(* no less than there was when the end was asked for, and no more than there *)
(* is when the target is set, so that at most one frame too many is written. *)
(*                                                                           *)
(* Frames are named by number, and what was captured for frame n by n + 1.   *)
EXTENDS Integers

CONSTANTS
    RingLen,    \* frames in the ring
    MaxBacklog, \* frames that may wait to be queued
    MaxPostRoll \* frames that may be asked for beyond those there are

VARIABLES
    phase,      \* "idle", "recording", "written" (a frame just now) or "done"
    published,  \* the last frame published
    first,      \* the start frame
    queued,     \* the last frame queued for coding
    waiting,    \* frames queued and not written
    next,       \* the frame to be written next
    written, dropped,
    asked,      \* frames there were when the end was asked for, -1 before
    target,     \* frames the recording is to have, 0 while that is not decided
    last        \* what has been written last

vars == <<phase, published, first, queued, waiting, next, written, dropped, asked, target,
          last>>

CapturedFor(n) == n + 1

\* Frame n need not be in the ring any more.
Overtaken(n) == published >= n + RingLen - 1

\* What may be taken for the picture or the audio of frame n
Content(n) ==
    IF Overtaken(n) THEN CapturedFor(n) .. CapturedFor(published + 1) ELSE {CapturedFor(n)}

Init ==
    /\ phase = "idle" /\ published = -1
    /\ first = 0 /\ queued = -1 /\ waiting = {} /\ next = 0
    /\ written = 0 /\ dropped = 0 /\ asked = -1 /\ target = 0
    /\ last.frame = -1

Publish ==
    /\ published' = published + 1
    /\ UNCHANGED <<phase, first, queued, waiting, next, written, dropped, asked, target, last>>

\* At a frame that is in the ring or is still to come
Start ==
    /\ phase = "idle" /\ phase' = "recording"
    /\ next' \in Nat /\ next' > published - RingLen
    /\ first' = next' /\ queued' = next' - 1
    /\ UNCHANGED <<published, waiting, written, dropped, asked, target, last>>

Going == phase \in {"recording", "written"}

Ask ==
    /\ Going /\ asked = -1
    /\ asked' = written + dropped
    /\ UNCHANGED <<phase, published, first, queued, waiting, next, written, dropped, target, last>>

AtLeast1(n) == IF n < 1 THEN 1 ELSE n

\* The recording is to end, but not before it was asked to.
Stop ==
    /\ Going /\ asked # -1 /\ target = 0
    /\ \E post_roll \in 0 .. MaxPostRoll :
          target' \in AtLeast1(asked + post_roll) .. AtLeast1(written + dropped + post_roll)
    /\ UNCHANGED <<phase, published, first, queued, waiting, next, written, dropped, asked, last>>

Queue ==
    /\ phase = "recording" /\ queued < published
    /\ queued' = queued + 1
    /\ waiting' = waiting \union {queued'}
    /\ UNCHANGED <<phase, published, first, next, written, dropped, asked, target, last>>

Drop ==
    LET excess == published - queued - MaxBacklog
    IN  /\ phase = "recording" /\ excess > 0
        /\ queued' = queued + excess
        /\ next' = next + excess
        /\ dropped' = dropped + excess
        /\ UNCHANGED <<phase, published, first, waiting, written, asked, target, last>>

Write ==
    /\ phase = "recording" /\ next \in waiting
    /\ last' \in [frame : {next}, picture : Content(next), audio : Content(queued),
                  error : IF Overtaken(next) THEN BOOLEAN ELSE {FALSE}]
    /\ waiting' = waiting \ {next}
    /\ next' = next + 1
    /\ written' = written + 1
    /\ phase' = "written"
    /\ UNCHANGED <<published, first, queued, dropped, asked, target>>

\* Before any other frame is queued, dropped or written
Decide ==
    /\ phase = "written"
    /\ phase' = IF target > 0 /\ written + dropped >= target THEN "done" ELSE "recording"
    /\ UNCHANGED <<published, first, queued, waiting, next, written, dropped, asked, target, last>>

Next == Publish \/ Start \/ Ask \/ Stop \/ Queue \/ Drop \/ Write \/ Decide

Spec == Init /\ [][Next]_vars
=============================================================================
