------------------------------ MODULE FrameQueue ------------------------------
(* What the buffered media sink promises the player that feeds it.           *)
(*                                                                           *)
(* The player composes one frame at a time out of streams and completes it   *)
(* or gives it up.  Completed frames queue, at most Capacity of them, and    *)
(* the target sink is shown them one by one, each with exactly the streams   *)
(* the player put into it.  A sink created to drop frames discards the       *)
(* oldest queued frame when the queue is full; a reset discards the queue.   *)
EXTENDS Integers, Sequences

CONSTANTS
    Streams,    \* the streams of the media source
    Capacity,   \* the size given to bms_create
    NoFrame     \* stands for "no frame"

VARIABLES
    dropping,   \* does the queue drop its oldest frame when it is full?
    composing,  \* streams received so far for the frame being composed
    completed,  \* number of frames completed so far; numbers the frames
    queue,      \* completed frames not yet taken, oldest first
    showing,    \* the frame handed to the target sink, or NoFrame
    shown       \* the last frame the target sink has shown, or NoFrame

vars == <<dropping, composing, completed, queue, showing, shown>>

Frame == [frame : Nat \ {0}, streams : SUBSET Streams]

Init ==
    /\ dropping \in BOOLEAN
    /\ composing = {}
    /\ completed = 0
    /\ queue = <<>>
    /\ showing = NoFrame
    /\ shown = NoFrame

Receive(s) ==
    /\ composing' = composing \union {s}
    /\ UNCHANGED <<dropping, completed, queue, showing, shown>>

Abandon ==
    /\ composing' = {}
    /\ UNCHANGED <<dropping, completed, queue, showing, shown>>

Complete ==
    /\ Len(queue) < Capacity
    /\ queue' = Append(queue, [frame |-> completed + 1, streams |-> composing])
    /\ completed' = completed + 1
    /\ composing' = {}
    /\ UNCHANGED <<dropping, showing, shown>>

DropOldest ==
    /\ dropping
    /\ Len(queue) = Capacity
    /\ queue' = Tail(queue)
    /\ UNCHANGED <<dropping, composing, completed, showing, shown>>

Take ==
    /\ showing = NoFrame
    /\ queue # <<>>
    /\ showing' = Head(queue)
    /\ queue' = Tail(queue)
    /\ UNCHANGED <<dropping, composing, completed, shown>>

Show ==
    /\ showing # NoFrame
    /\ shown' = showing
    /\ showing' = NoFrame
    /\ UNCHANGED <<dropping, composing, completed, queue>>

Flush ==
    /\ composing = {}
    /\ showing = NoFrame
    /\ queue' = <<>>
    /\ UNCHANGED <<dropping, composing, completed, showing, shown>>

Next ==
    \/ \E s \in Streams : Receive(s)
    \/ Abandon \/ Complete \/ DropOldest \/ Take \/ Show \/ Flush

Spec == Init /\ [][Next]_vars
==============================================================================
