----------------------------- MODULE ArchiveCache -----------------------------
(***************************************************************************)
(* The disk cache of the archive recorder (archive/src/cache/Cache.cpp) as *)
(* its two processes use it: the recorder, whose sessions create the files *)
(* and which cleans up after a crash, and the tape export, which stores    *)
(* them on tape and removes them.  Each process keeps its own list of the  *)
(* items of the cache; the database links each hard disk destination to    *)
(* the cache; and the directory watch of each process tells it of what the *)
(* other did, late.  All of it is tied together by file names only.        *)
(*                                                                         *)
(* Destinations are numbered as in the database, in order of creation.     *)
(***************************************************************************)
EXTENDS Integers, Sequences, SequencesExt, FiniteSets, FiniteSetsExt

CONSTANTS
    Names,          \* the file names of the items of a tape
    LateEvents,     \* may a name be recorded again before all have heard that
                    \* it was removed?
    MaxSessions,    \* bound: recording sessions
    MaxFaults       \* bound: crashes, failures, files removed by hand

ASSUME OptionAssumption == LateEvents \in BOOLEAN
ASSUME SessionsAssumption == MaxSessions \in Nat

VARIABLES
    \* the database: destinations, those linked to the cache, sessions
    dest, link, status,
    \* the disk: which destination's recording a file holds, or None
    disk, creating,
    \* the recorder
    rState, rItems, rCreating, rEvents, session, todo,
    cleanup,        \* the session being cleaned up at the start, its item being removed
    \* the tape export
    eState, eItems, eEvents, removing, transfer,
    \* bounds, and for the properties
    faults,
    onTape,         \* destinations stored on tape
    byHand,         \* destinations removed by an operator
    halfRemoved,    \* unlinked, but a crash kept the file from being removed
    halfMoved,      \* of sessions aborted with some of their files in place
    leftBehind      \* of a session whose clean-up a crash cut short

database == <<dest, link, status>>
recorder == <<rState, rItems, rCreating, rEvents, session, todo, cleanup>>
export == <<eState, eItems, eEvents, removing, transfer>>
history == <<onTape, byHand, halfRemoved, halfMoved, leftBehind>>
vars == <<database, disk, creating, recorder, export, faults, history>>

None == 0
Dests == DOMAIN dest
Sessions == 1 .. MaxSessions
NameOf(d) == dest[d].name
StatusOf(d) == status[dest[d].session]
NoTransfer == [state |-> "none", names |-> {}]
NoCleanup == [session |-> None, item |-> None]

Deletion(n) == [kind |-> "deletion", name |-> n]
MovedTo(n) == [kind |-> "movedTo", name |-> n]

Init ==
    /\ dest = <<>> /\ link = {}
    /\ status = [s \in Sessions |-> "none"]
    /\ disk = [n \in Names |-> None]
    /\ creating = [n \in Names |-> None]
    /\ rState = "ready" /\ rItems = <<>> /\ rCreating = <<>> /\ rEvents = <<>>
    /\ session = None /\ todo = {} /\ cleanup = NoCleanup
    /\ eState = "ready" /\ eItems = <<>> /\ eEvents = <<>>
    /\ removing = {} /\ transfer = NoTransfer
    /\ faults = 0
    /\ onTape = {} /\ byHand = {} /\ halfRemoved = {} /\ halfMoved = {}
    /\ leftBehind = {}

\* A file comes into the cache: the watch of the recorder asks for deletions only,
\* and a process that is down sees nothing.
FileMovedTo(n) ==
    /\ eEvents' = IF eState = "down" THEN <<>> ELSE Append(eEvents, MovedTo(n))
    /\ UNCHANGED rEvents

\* Files are removed, if they are there: both watches see it.
RemoveFiles(names) ==
    LET events == SetToSeq({Deletion(n) : n \in {m \in names : disk[m] # None}})
    IN  /\ disk' = [n \in Names |-> IF n \in names THEN None ELSE disk[n]]
        /\ rEvents' = IF rState = "down" THEN <<>> ELSE rEvents \o events
        /\ eEvents' = IF eState = "down" THEN <<>> ELSE eEvents \o events

\* A fault or an operator's act that is counted against the bound
Fault == faults < MaxFaults /\ faults' = faults + 1

(***************************************************************************)
(* The recorder.  A session ("recording") writes one file per item of the  *)
(* tape into the creating directory, and when the user completes it        *)
(* ("finalising") moves them into the cache one by one.                    *)
(***************************************************************************)

\* Mutant: only the creating directory is looked at.
FreeInCreating(n) == creating[n] = None

Available(n) == disk[n] = None /\ creating[n] = None

checkMultiItemMXF(items) == \A n \in items : Available(n)

\* A tape takes hours and an event fractions of a second: when a name is used
\* again the tape export has heard what happened to the last file of that name,
\* and the recorder has at most to hear of a removal by others.
Settled(n) ==
    /\ \A e \in ToSet(eEvents) : e.name # n
    /\ (\E e \in ToSet(rEvents) : e.name = n) => \E d \in ToSet(rItems) : NameOf(d) = n

StartSession(s, items) ==
    /\ rState = "ready" /\ session = None
    /\ status[s] = "none" /\ \A t \in Sessions : t < s => status[t] # "none"
    /\ items # {} /\ checkMultiItemMXF(items)
    /\ LateEvents \/ \A n \in items : Settled(n)
    /\ status' = [status EXCEPT ![s] = "started"]
    /\ session' = s
    /\ todo' = items
    /\ rState' = "recording"
    /\ UNCHANGED <<dest, link, disk, creating, rItems, rCreating, rEvents, cleanup,
                   export, faults, history>>

\* The destination is saved, linked to the cache, before its file is made.
registerCreatingItem(n) ==
    LET d == Len(dest) + 1
    IN  /\ rState = "recording" /\ n \in todo
        /\ dest' = Append(dest, [name |-> n, session |-> session])
        /\ link' = link \union {d}
        /\ creating' = [creating EXCEPT ![n] = d]
        /\ rCreating' = Append(rCreating, d)
        /\ todo' = todo \ {n}
        /\ UNCHANGED <<status, disk, rState, rItems, rEvents, session, cleanup,
                       export, faults, history>>

\* The user completes the session: nothing is left to record.
BeginComplete ==
    /\ rState = "recording" /\ todo = {}
    /\ rState' = "finalising"
    /\ UNCHANGED <<database, disk, creating, rItems, rCreating, rEvents, session,
                   todo, cleanup, export, faults, history>>

finaliseCreatingItem ==
    /\ rState = "finalising" /\ rCreating # <<>>
    /\ LET d == Head(rCreating)
           n == NameOf(d)
       IN  /\ disk' = [disk EXCEPT ![n] = d]
           /\ creating' = [creating EXCEPT ![n] = None]
           /\ rItems' = Append(rItems, d)
           /\ FileMovedTo(n)
    /\ rCreating' = Tail(rCreating)
    /\ UNCHANGED <<database, rState, session, todo, cleanup, eState, eItems,
                   removing, transfer, faults, history>>

EndComplete ==
    /\ rState = "finalising" /\ rCreating = <<>>
    /\ status' = [status EXCEPT ![session] = "completed"]
    /\ session' = None
    /\ rState' = "ready"
    /\ UNCHANGED <<dest, link, disk, creating, rItems, rCreating, rEvents, todo,
                   cleanup, export, faults, history>>

\* abortInternal: only what is still being created is removed.
RemoveCreatingItems ==
    /\ link' = link \ ToSet(rCreating)
    /\ creating' = [n \in Names |->
                       IF creating[n] \in ToSet(rCreating) THEN None ELSE creating[n]]
    /\ rCreating' = <<>>

Abort ==
    /\ RemoveCreatingItems
    /\ status' = [status EXCEPT ![session] = "aborted"]
    /\ session' = None
    /\ todo' = {}
    /\ rState' = "ready"
    /\ UNCHANGED <<dest, disk, rItems, rEvents, cleanup, export>>

AbortSession ==
    /\ rState = "recording"
    /\ Abort
    /\ UNCHANGED <<faults, history>>

\* A file cannot be moved, or the database updated: the session is aborted.
CompleteFails ==
    /\ rState = "finalising" /\ Fault
    /\ Abort
    /\ halfMoved' = halfMoved \union {d \in Dests : dest[d].session = session}
    /\ UNCHANGED <<onTape, byHand, halfRemoved, leftBehind>>

\* The items the clean-up at the start has yet to remove
ItemsLeft == {d \in ToSet(rItems) : dest[d].session = cleanup.session}

RecorderCrash ==
    /\ rState # "down" /\ Fault
    /\ rState' = "down"
    /\ rItems' = <<>> /\ rCreating' = <<>> /\ rEvents' = <<>>
    /\ session' = None /\ todo' = {} /\ cleanup' = NoCleanup
    /\ halfRemoved' = halfRemoved \union ({cleanup.item} \ {None})
    /\ leftBehind' = leftBehind \union ItemsLeft
    /\ UNCHANGED <<database, disk, creating, export, onTape, byHand, halfMoved>>

\* The linked destinations a process takes over when it starts: of those with
\* the same name the one of the newest session, if there is such a file.
Newest(d) == \A e \in link : NameOf(e) = NameOf(d) => dest[e].session <= dest[d].session
\* Mutant: the links are loaded, the files not looked for.
PresentOrNot == {d \in link : Newest(d)}

Loaded == {d \in link : Newest(d) /\ disk[NameOf(d)] # None}

\* A process watches the directory before it loads its items, so that nothing
\* is missed; what it hears meanwhile it handles afterwards.
watchRecorder ==
    /\ rState = "down"
    /\ rState' = "watching"
    /\ UNCHANGED <<database, disk, creating, rItems, rCreating, rEvents, session,
                   todo, cleanup, export, faults, history>>

initialiseRecorder ==
    /\ rState = "watching"
    /\ creating' = [n \in Names |-> None]
    /\ link' = Loaded
    /\ rItems' = SetToSeq(Loaded)
    /\ rState' = "starting"
    /\ UNCHANGED <<dest, status, disk, rCreating, rEvents, session, todo, cleanup,
                   export, faults, history>>

\* The items without the first that has that name, whichever it is; the
\* second argument gives the names of the items.
ForgetFirst(items, names, n) ==
    LET i == SelectInSeq(names, LAMBDA m : m = n)
    IN  IF i = 0 THEN items ELSE RemoveAt(items, i)

\* Mutant: the last item is taken.
ForgetLast(items, names, n) == Reverse(ForgetFirst(Reverse(items), Reverse(names), n))

Forget(items, names, n) == ForgetFirst(items, names, n)

\* Mutant: the sessions left started are not looked for.
LeftNone == {s \in Sessions : status[s] = "none"}

Interrupted == {s \in Sessions : status[s] = "started"}

\* The rest of Recorder's constructor, its watch running already: a session left
\* started is made an aborted one first, then what it has in the cache is removed.
abortStartedSession(s) ==
    /\ rState = "starting" /\ cleanup = NoCleanup
    /\ s \in Interrupted
    /\ status' = [status EXCEPT ![s] = "aborted"]
    /\ cleanup' = [session |-> s, item |-> None]
    /\ UNCHANGED <<dest, link, disk, creating, rState, rItems, rCreating, rEvents,
                   session, todo, export, faults, history>>

\* removeItem, for a destination of the session: the link first, then the file and
\* the item, its items locked in between.
unlinkItem(d) ==
    /\ cleanup.session # None /\ cleanup.item = None
    /\ d \in ItemsLeft
    /\ link' = link \ {d}
    /\ cleanup' = [cleanup EXCEPT !.item = d]
    /\ UNCHANGED <<dest, status, disk, creating, rState, rItems, rCreating, rEvents,
                   session, todo, export, faults, history>>

removeItemFile ==
    /\ cleanup.item # None
    /\ RemoveFiles({NameOf(cleanup.item)})
    /\ rItems' = Forget(rItems, rItems, cleanup.item)
    /\ cleanup' = [cleanup EXCEPT !.item = None]
    /\ UNCHANGED <<database, creating, rState, rCreating, session, todo, eState,
                   eItems, removing, transfer, faults, history>>

\* None of the destinations of the session is in the cache any more.
SessionCleaned ==
    /\ cleanup.session # None /\ cleanup.item = None
    /\ ItemsLeft = {}
    /\ cleanup' = NoCleanup
    /\ UNCHANGED <<database, disk, creating, rState, rItems, rCreating, rEvents,
                   session, todo, export, faults, history>>

RecorderStarted ==
    /\ rState = "starting" /\ cleanup = NoCleanup
    /\ Interrupted = {}
    /\ rState' = "ready"
    /\ UNCHANGED <<database, disk, creating, rItems, rCreating, rEvents, session,
                   todo, cleanup, export, faults, history>>

\* processItemRemoved in the recorder, for the next event of its watch
recorderHearsDeletion ==
    /\ rState \in {"starting", "ready", "recording", "finalising"}
    /\ cleanup.item = None
    /\ rEvents # <<>>
    /\ LET n == Head(rEvents).name
           rest == Forget(rItems, [k \in DOMAIN rItems |-> NameOf(rItems[k])], n)
       IN  /\ link' = link \ (ToSet(rItems) \ ToSet(rest))
           /\ rItems' = rest
    /\ rEvents' = Tail(rEvents)
    /\ UNCHANGED <<dest, status, disk, creating, rState, rCreating, session, todo,
                   cleanup, export, faults, history>>

(***************************************************************************)
(* The tape export.  Its items are copies of what the database said when   *)
(* they were loaded.                                                       *)
(***************************************************************************)
Copy(d) == [dest |-> d, name |-> NameOf(d), status |-> StatusOf(d)]

\* processItemRemoved in the tape export; its items are locked while one is
\* being removed.
exportHearsDeletion ==
    /\ eState = "ready" /\ removing = {}
    /\ eEvents # <<>> /\ Head(eEvents).kind = "deletion"
    /\ LET n == Head(eEvents).name
           rest == Forget(eItems, [k \in DOMAIN eItems |-> eItems[k].name], n)
       IN  /\ link' = link \ {i.dest : i \in ToSet(eItems) \ ToSet(rest)}
           /\ eItems' = rest
    /\ eEvents' = Tail(eEvents)
    /\ UNCHANGED <<dest, status, disk, creating, recorder, eState, removing,
                   transfer, faults, history>>

\* Mutant: the list is not looked at.
HasNone(n) == FALSE

HasItem(n) == \E i \in ToSet(eItems) : i.name = n

\* processItemAdded: the newest destination of that name is loaded.  The tries
\* of movedTo are over when none is linked.
exportHearsMovedTo ==
    /\ eState = "ready" /\ removing = {}
    /\ eEvents # <<>> /\ Head(eEvents).kind = "movedTo"
    /\ LET n == Head(eEvents).name
           found == {d \in link : NameOf(d) = n}
       IN  eItems' = IF HasItem(n) \/ found = {} THEN eItems
                     ELSE Append(eItems, Copy(Max(found)))
    /\ eEvents' = Tail(eEvents)
    /\ UNCHANGED <<database, disk, creating, recorder, eState, removing, transfer,
                   faults, history>>

itemExists(n) == HasItem(n) /\ disk[n] # None

\* Items of completed sessions are selected, manually or not.
SelectItems(names) ==
    /\ eState = "ready" /\ transfer.state = "none" /\ removing = {}
    /\ names # {}
    /\ \A n \in names : /\ \E i \in ToSet(eItems) : i.name = n /\ i.status = "completed"
                        /\ itemExists(n)
    /\ transfer' = [state |-> "storing", names |-> names]
    /\ UNCHANGED <<database, disk, creating, recorder, eState, eItems, eEvents,
                   removing, faults, history>>

StoreCompletes ==
    /\ eState = "ready" /\ transfer.state = "storing"
    /\ \A n \in transfer.names : disk[n] # None
    /\ onTape' = onTape \union {disk[n] : n \in transfer.names}
    /\ transfer' = [transfer EXCEPT !.state = "stored"]
    /\ UNCHANGED <<database, disk, creating, recorder, eState, eItems, eEvents,
                   removing, faults, byHand, halfRemoved, halfMoved, leftBehind>>

StoreFails ==
    /\ eState = "ready" /\ transfer.state = "storing" /\ Fault
    /\ transfer' = NoTransfer
    /\ UNCHANGED <<database, disk, creating, recorder, eState, eItems, eEvents,
                   removing, history>>

\* Mutant: the files are removed when their storing has begun.
NotYetNeeded == {"storing", "stored"}

MayBeRemoved == {"stored"}

\* removeItem: the link first, then the file and the item.
Unlink(n) ==
    LET match == {i \in ToSet(eItems) : i.name = n}
    IN  /\ link' = link \ {i.dest : i \in match}
        /\ removing' = match

removeStored(n) ==
    /\ eState = "ready" /\ removing = {}
    /\ transfer.state \in MayBeRemoved /\ n \in transfer.names
    /\ Unlink(n)
    /\ transfer' = IF transfer.names = {n} THEN NoTransfer
                   ELSE [transfer EXCEPT !.names = @ \ {n}]
    /\ UNCHANGED <<dest, status, disk, creating, recorder, eState, eItems, eEvents,
                   faults, history>>

\* An operator has the tape export remove a file no transfer is using.
removeForClient(n) ==
    /\ eState = "ready" /\ removing = {}
    /\ n \notin transfer.names
    /\ \E i \in ToSet(eItems) : i.name = n
    /\ Fault
    /\ Unlink(n)
    /\ byHand' = byHand \union {i.dest : i \in removing'}
    /\ UNCHANGED <<dest, status, disk, creating, recorder, eState, eItems, eEvents,
                   transfer, onTape, halfRemoved, halfMoved, leftBehind>>

removeFile ==
    /\ removing # {}
    /\ LET n == (CHOOSE i \in removing : TRUE).name
       IN  /\ RemoveFiles({n})
           /\ eItems' = Forget(eItems, [k \in DOMAIN eItems |-> eItems[k].name], n)
    /\ removing' = {}
    /\ UNCHANGED <<database, creating, rState, rItems, rCreating, session, todo,
                   cleanup, eState, transfer, faults, history>>

ExportCrash ==
    /\ eState # "down" /\ Fault
    /\ eState' = "down"
    /\ eItems' = <<>> /\ eEvents' = <<>> /\ removing' = {}
    /\ transfer' = NoTransfer
    /\ halfRemoved' = halfRemoved \union {i.dest : i \in removing}
    /\ UNCHANGED <<database, disk, creating, recorder, onTape, byHand, halfMoved,
                   leftBehind>>

watchExport ==
    /\ eState = "down"
    /\ eState' = "watching"
    /\ UNCHANGED <<database, disk, creating, recorder, eItems, eEvents, removing,
                   transfer, faults, history>>

initialiseExport ==
    /\ eState = "watching"
    /\ eItems' = SetToSeq({Copy(d) : d \in Loaded})
    /\ eState' = "ready"
    /\ UNCHANGED <<database, disk, creating, recorder, eEvents, removing, transfer,
                   faults, history>>

\* A file is removed outside the two processes; nobody does that to a file
\* while it is being stored or removed.
RemovedOutside(n) ==
    /\ disk[n] # None /\ n \notin transfer.names /\ removing = {} /\ Fault
    /\ RemoveFiles({n})
    /\ byHand' = byHand \union {disk[n]}
    /\ UNCHANGED <<database, creating, rState, rItems, rCreating, session, todo,
                   cleanup, eState, eItems, removing, transfer, onTape, halfRemoved,
                   halfMoved, leftBehind>>

Next ==
    \/ \E s \in Sessions, items \in SUBSET Names : StartSession(s, items)
    \/ \E n \in Names : registerCreatingItem(n)
    \/ BeginComplete
    \/ finaliseCreatingItem
    \/ EndComplete
    \/ AbortSession
    \/ CompleteFails
    \/ RecorderCrash
    \/ watchRecorder
    \/ initialiseRecorder
    \/ \E s \in Sessions : abortStartedSession(s)
    \/ \E d \in Dests : unlinkItem(d)
    \/ removeItemFile
    \/ SessionCleaned
    \/ RecorderStarted
    \/ recorderHearsDeletion
    \/ exportHearsDeletion
    \/ exportHearsMovedTo
    \/ \E names \in SUBSET Names : SelectItems(names)
    \/ StoreCompletes
    \/ StoreFails
    \/ \E n \in Names : removeStored(n) \/ removeForClient(n)
    \/ removeFile
    \/ ExportCrash
    \/ watchExport
    \/ initialiseExport
    \/ \E n \in Names : RemovedOutside(n)

Spec == Init /\ [][Next]_vars

-----------------------------------------------------------------------------
ItemNames(items) == {NameOf(d) : d \in ToSet(items)}
EventType == [kind : {"deletion", "movedTo"}, name : Names]
CopyType == [dest : Dests, name : Names, status : {"started", "completed", "aborted"}]

\* The shape of the state: what a process knows of are destinations of the
\* database, and it never has two items for one of them.
TypeOK ==
    /\ dest \in Seq([name : Names, session : Sessions])
    /\ link \subseteq Dests
    /\ status \in [Sessions -> {"none", "started", "completed", "aborted"}]
    /\ disk \in [Names -> Dests \union {None}]
    /\ creating \in [Names -> Dests \union {None}]
    /\ rState \in {"down", "watching", "starting", "ready", "recording", "finalising"}
    /\ rItems \in Seq(Dests) /\ IsInjective(rItems)
    /\ rCreating \in Seq(Dests) /\ IsInjective(rCreating)
    /\ ToSet(rItems) \intersect ToSet(rCreating) = {}
    /\ rEvents \in Seq(EventType)
    /\ session \in Sessions \union {None}
    /\ (session # None) = (rState \in {"recording", "finalising"})
    /\ todo \subseteq Names
    /\ cleanup \in [session : Sessions \union {None}, item : Dests \union {None}]
    /\ cleanup.session # None => rState = "starting"
    /\ cleanup.item # None => cleanup.item \in ItemsLeft \ link
    /\ eState \in {"down", "watching", "ready"}
    /\ eItems \in Seq(CopyType) /\ IsInjective([k \in DOMAIN eItems |-> eItems[k].dest])
    /\ eEvents \in Seq(EventType)
    /\ removing \subseteq ToSet(eItems) /\ Cardinality(removing) <= 1
    /\ transfer \in [state : {"none", "storing", "stored"}, names : SUBSET Names]

\* What was recorded is kept: the file of a completed session is there until
\* it has been stored on tape or an operator removed it, through crashes and
\* restarts of either process and whatever their lists say.  (completeInternal
\* of the sessions, Recorder's constructor, TapeExportSession)
RemovedOnlyWhenOnTape ==
    \A d \in Dests :
        StatusOf(d) = "completed" => disk[NameOf(d)] = d \/ d \in onTape \union byHand

\* When nothing is going on and all events have been handled the database and
\* the two processes agree on what the cache holds, and it is what is on the
\* disk; but for the name of a file whose removal was cut short by a crash:
\* it is linked no more, or taken for an older one, and nobody removes it.
\* (processItemRemoved, processItemAdded, initialise)
InStep ==
    /\ rState = "ready" /\ eState = "ready"
    /\ rEvents = <<>> /\ eEvents = <<>> /\ removing = {}
    => LET Sound(ds) == {d \in ds : disk[NameOf(d)] \notin halfRemoved}
       IN  /\ Sound(link) = Sound({disk[n] : n \in Names} \ {None})
           /\ Sound(ToSet(rItems)) = Sound(link)
           /\ Sound({i.dest : i \in ToSet(eItems)}) = Sound(link)

\* Between sessions the cache holds completed recordings only, and nothing is
\* being created: what a crash left of a session is gone, wherever it struck.
\* The exceptions are a session whose completion failed after some of its files
\* had been moved, which stay, one whose clean-up was cut short by another crash,
\* and files whose removal by the tape export has begun.
\* (completeInternal, abortInternal, Recorder's constructor)
OnlyCompleted(excused) ==
    \A n \in Names :
        disk[n] # None =>
            \/ StatusOf(disk[n]) = "completed"
            \/ disk[n] \in excused
            \/ \E i \in removing : i.dest = disk[n]

NoLeftovers ==
    rState = "ready" =>
        /\ \A n \in Names : creating[n] = None
        /\ OnlyCompleted(halfMoved \union halfRemoved \union leftBehind)
=============================================================================
