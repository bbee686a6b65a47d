---------------------------- MODULE TransferServer ----------------------------
(***************************************************************************)
(* The transfer server of the studio (xferserver.pl), which copies what    *)
(* the recorders have written to one or two destinations: the process that *)
(* serves clients, the copying process, the memory they share under a      *)
(* lock, and the paths file from which a restarted server goes on.         *)
(*                                                                         *)
(* How far a source directory has been copied to a destination is kept as  *)
(* one time, ctimeCleared: every file that appeared no later counts as     *)
(* copied, and may be deleted when the disk is full, whether or not it is  *)
(* still at the destination.  Everything hangs on that time not running    *)
(* ahead of the copying, through failures, interruptions and restarts.     *)
(***************************************************************************)
EXTENDS Integers, FiniteSets, FiniteSetsExt

CONSTANTS
    Sources,        \* source directories
    Priority,       \* the priority of each; 1 is the highest
    ExtraDest,      \* an extra destination for priority 1 (option -e)
    ExtrasFirst,    \* which is served before all else (option -g)
    Files,          \* files that may appear, 1 .. n in this order
    MaxTime,        \* bound: seconds
    MaxFaults,      \* bound: failures, restarts, removals from a destination
    MaxCalls        \* bound: clients that ask for copying

ASSUME PriorityAssumption == Priority \in [Sources -> Nat \ {0}]
ASSUME OptionsAssumption == ExtraDest \in BOOLEAN /\ ExtrasFirst \in BOOLEAN
\* The server serves at least one source directory; time is counted from 1.
ASSUME SourcesAssumption == Sources # {} /\ IsFiniteSet(Sources) /\ MaxTime \in Nat \ {0}

VARIABLES
    now,
    ctime, dir,     \* of each file; ctime 0: not there yet
    deleted,        \* files deleted from their source directory
    atDest,         \* what is at each destination
    \* shared memory
    stale, staleFrom, cleared,
    \* the pipe to the copying process, and the paths file
    kicks, saved,
    \* the copying process
    at, prio, todo, jobs, current, latest, latestCopied, blind, retry,
    \* bounds, and for the properties
    faults, calls,
    copied,         \* files of which a complete copy has reached a destination
    told,           \* when a client last asked for a directory to be copied
    settled         \* marked up to date although a destination was not scanned

source == <<ctime, dir, deleted>>
shared == <<stale, staleFrom, cleared>>
cycle == <<prio, todo, jobs, current, latest, latestCopied, blind>>
vars == <<now, source, atDest, shared, kicks, saved, at, cycle, retry,
          faults, calls, copied, told, settled>>

Dests == {"main", "extra"}
NoPriority == 0
Failed == -1

\* The destinations of a source directory
DestsOf(s) == IF Priority[s] = 1 /\ ExtraDest THEN Dests ELSE {"main"}
There(s) == {f \in Files : ctime[f] # 0 /\ dir[f] = s /\ f \notin deleted}
Priorities == {Priority[s] : s \in Sources}

\* The server has been started with a paths file in which all times are zero.
Init ==
    /\ now = 1
    /\ ctime = [f \in Files |-> 0]
    /\ dir \in [Files -> Sources]
    /\ deleted = {}
    /\ atDest = [d \in Dests |-> {}]
    /\ stale = [s \in Sources |-> "STALE"]
    /\ staleFrom = Min(Priorities)
    /\ cleared = [s \in Sources |-> [d \in DestsOf(s) |-> 0]]
    /\ kicks = 1
    /\ saved = cleared
    /\ at = "wait"
    /\ prio = NoPriority
    /\ todo = {}
    /\ jobs = {}
    /\ current = {}
    /\ latest = [s \in Sources |-> 0]
    /\ latestCopied = [s \in Sources |-> [d \in DestsOf(s) |-> 0]]
    /\ blind = {}
    /\ retry = FALSE
    /\ faults = 0
    /\ calls = 0
    /\ copied = [d \in Dests |-> {}]
    /\ told = [s \in Sources |-> 0]
    /\ settled = {}

-----------------------------------------------------------------------------
(* Around the server *)

Tick ==
    /\ now < MaxTime
    /\ now' = now + 1
    /\ UNCHANGED <<source, atDest, shared, kicks, saved, at, cycle, retry, faults, calls, copied, told, settled>>

\* A recorder moves a completed file into the source directory.
Appear ==
    /\ now < MaxTime
    /\ \E f \in Files :
          /\ ctime[f] = 0
          /\ \A g \in Files : g < f => ctime[g] # 0
          /\ ctime' = [ctime EXCEPT ![f] = now]
    /\ UNCHANGED <<now, dir, deleted, atDest, shared, kicks, saved, at, cycle, retry, faults, calls, copied, told, settled>>

\* Somebody takes a file away from a destination.
Remove ==
    /\ faults < MaxFaults
    /\ faults' = faults + 1
    /\ \E d \in Dests : \E f \in atDest[d] : atDest' = [atDest EXCEPT ![d] = @ \ {f}]
    /\ UNCHANGED <<now, source, shared, kicks, saved, at, cycle, retry, calls, copied, told, settled>>

-----------------------------------------------------------------------------
(* The process that serves clients *)

\* The copying process holds the lock while it goes from file to file.
Unlocked == at # "files"

AddPairNoKick(s) ==     \* mutant: relies on the copying process being busy
    /\ Unlocked
    /\ calls < MaxCalls
    /\ calls' = calls + 1
    /\ stale' = [stale EXCEPT ![s] = "STALE"]
    /\ kicks' = IF at = "wait" /\ staleFrom = NoPriority THEN kicks + 1 ELSE kicks
    /\ staleFrom' = IF staleFrom = NoPriority \/ staleFrom > Priority[s]
                    THEN Priority[s] ELSE staleFrom
    /\ told' = [told EXCEPT ![s] = now]
    /\ settled' = settled \ {s}
    /\ UNCHANGED <<now, source, atDest, cleared, saved, at, cycle, retry, faults, copied>>

\* addPair for a pair that is known: stale, and the copying process kicked
\* unless a scan is pending
AddPair(s) ==
    /\ Unlocked
    /\ calls < MaxCalls
    /\ calls' = calls + 1
    /\ stale' = [stale EXCEPT ![s] = "STALE"]
    /\ kicks' = IF staleFrom = NoPriority THEN kicks + 1 ELSE kicks
    /\ staleFrom' = IF staleFrom = NoPriority \/ staleFrom > Priority[s]
                    THEN Priority[s] ELSE staleFrom
    /\ told' = [told EXCEPT ![s] = now]
    /\ settled' = settled \ {s}
    /\ UNCHANGED <<now, source, atDest, cleared, saved, at, cycle, retry, faults, copied>>

\* The server is stopped, or crashes, and starts from the paths file.  A file
\* being copied was still in the incoming directory.
Restart ==
    /\ faults < MaxFaults
    /\ faults' = faults + 1
    /\ cleared' = saved
    /\ stale' = [s \in Sources |-> "STALE"]
    /\ staleFrom' = Min(Priorities)
    /\ kicks' = 1
    /\ at' = "wait"
    /\ prio' = NoPriority
    /\ todo' = {}
    /\ jobs' = {}
    /\ current' = {}
    /\ latest' = [s \in Sources |-> 0]
    /\ latestCopied' = [s \in Sources |-> [d \in DestsOf(s) |-> 0]]
    /\ blind' = {}
    /\ retry' = FALSE
    /\ settled' = {}
    /\ UNCHANGED <<now, source, atDest, saved, calls, copied, told>>

-----------------------------------------------------------------------------
(* The copying process *)

\* The priorities are sorted as strings, so 10 comes before 2.
Digits[n \in Nat] == IF n < 10 THEN 1 ELSE 1 + Digits[n \div 10]

StringBefore(p, q) ==
    LET a == p * 10 ^ Digits[q]
        b == q * 10 ^ Digits[p]
    IN a < b \/ (a = b /\ p < q)

Place(p) == Cardinality({q \in Priorities : StringBefore(q, p)})

\* The priority served after p in this cycle; its directories are scanned if
\* they were stale when the cycle began
NextPriorityUp(p) == p + 1      \* mutant

NextPriority(p) ==
    LET after == {q \in Priorities : StringBefore(p, q)}
    IN IF after = {} THEN NoPriority
       ELSE CHOOSE q \in after : \A r \in after : Place(q) <= Place(r)

ScanPriority(p, marks) ==
    /\ prio' = p
    /\ jobs' = {}
    /\ current' = {}
    /\ todo' = {s \in Sources : Priority[s] = p /\ marks[s] = "PROCESSING"}
    /\ at' = IF p = NoPriority THEN "wait" ELSE "scan"
    /\ latest' = [s \in Sources |-> 0]
    /\ latestCopied' = [s \in Sources |-> [d \in DestsOf(s) |-> 0]]
    /\ blind' = {}

\* Woken by the pipe, or by the clock when something failed; the pipe may have
\* been written to since the clock ran out
BeginCycle ==
    /\ at = "wait"
    /\ \/ kicks > 0 /\ kicks' = kicks - 1
       \/ retry /\ UNCHANGED kicks
    /\ staleFrom' = NoPriority
    /\ stale' = [s \in Sources |-> IF stale[s] = "UP_TO_DATE" THEN stale[s] ELSE "PROCESSING"]
    /\ retry' = FALSE
    /\ ScanPriority(NextPriority(NoPriority), stale')
    /\ UNCHANGED <<now, source, atDest, cleared, saved, faults, calls, copied, told, settled>>

\* What a scan takes to be copied already
Copied(f, d) == ctime[f] <= cleared[dir[f]][d] \/ f \in atDest[d]

RedundantAtMain(s) ==   \* mutant: does not look at the extra destination
    {f \in There(s) : Copied(f, "main")}

Redundant(s) == {f \in There(s) : \A d \in DestsOf(s) : Copied(f, d)}

\* A scan deletes the redundant files that are old, while the disk is full; and
\* it may end, or fail, before it has come to all.
DeleteRedundant(s) == \E old \in SUBSET Redundant(s) : deleted' = deleted \cup old

Young(s) == \E f \in There(s) : ctime[f] >= now

\* The directory is scanned again if there are files as young as the scan.
ScanAgain(s) ==
    /\ at = "scan" /\ s \in todo
    /\ Young(s) /\ DeleteRedundant(s)
    /\ UNCHANGED <<now, ctime, dir, atDest, shared, kicks, saved, at, cycle, retry, faults, calls, copied, told, settled>>

\* The last scan of a directory.  At a destination a file may be found that is
\* in the way and cannot be renamed, or no list of files be had: to this one
\* nothing is copied.  What needs no copying is up to date at once.
ScanDir(s) ==
    /\ at = "scan" /\ s \in todo
    /\ todo' = todo \ {s}
    /\ DeleteRedundant(s)
    /\ \E bad \in SUBSET DestsOf(s) :
         LET seen == DestsOf(s) \ bad
             need == {j \in There(s) \X seen : ~Copied(j[1], j[2])}
             youngest == Max({0} \cup {ctime[f] : f \in There(s)})
             idle == {d \in seen : \A j \in need : j[2] # d}
         IN /\ Young(s) => seen = {}
            /\ faults + Cardinality(bad) <= MaxFaults
            /\ faults' = faults + Cardinality(bad)
            /\ jobs' = jobs \cup need
            /\ latest' = [latest EXCEPT ![s] = youngest]
            /\ blind' = IF bad = {} THEN blind ELSE blind \cup {s}
            /\ retry' = (retry \/ bad # {})
            /\ stale' = IF bad = {} /\ need = {} /\ stale[s] = "PROCESSING"
                        THEN [stale EXCEPT ![s] = "UP_TO_DATE"] ELSE stale
            /\ cleared' = [cleared EXCEPT ![s] =
                             [d \in DestsOf(s) |-> IF d \in idle THEN youngest ELSE @[d]]]
            /\ saved' = IF cleared' # cleared THEN cleared' ELSE saved
    /\ UNCHANGED <<now, ctime, dir, atDest, staleFrom, kicks, at, prio, current, latestCopied, calls, copied, told, settled>>

\* The source directory or a file in it cannot be read
ScanFails(s) ==
    /\ at = "scan" /\ s \in todo
    /\ faults < MaxFaults
    /\ faults' = faults + 1
    /\ todo' = todo \ {s}
    /\ retry' = TRUE
    /\ DeleteRedundant(s)
    /\ UNCHANGED <<now, ctime, dir, atDest, shared, kicks, saved, at, prio, jobs, current, latest, latestCopied, blind, calls, copied, told, settled>>

\* All directories of this priority are scanned: lock, and to the files
EndScan ==
    /\ at = "scan" /\ todo = {}
    /\ at' = "files"
    /\ UNCHANGED <<now, source, atDest, shared, kicks, saved, prio, todo, jobs, current, latest, latestCopied, blind, retry, faults, calls, copied, told, settled>>

\* Oldest first; of the same age, or always with -g, the extra one first
Before(i, j) ==
    LET ExtraFirst == i[2] = "extra" /\ j[2] = "main"
    IN IF ExtrasFirst /\ i[2] # j[2] THEN ExtraFirst
       ELSE \/ ctime[i[1]] < ctime[j[1]]
            \/ ctime[i[1]] = ctime[j[1]] /\ ExtraFirst

NextJobs == {j \in jobs : \A i \in jobs \ {j} : ~Before(i, j)}
Interrupted ==
    /\ staleFrom # NoPriority
    /\ staleFrom < prio \/ (staleFrom = 1 /\ ExtrasFirst)

\* No files left at this priority, or new ones at a higher one
EndPriority ==
    /\ at = "files"
    /\ jobs = {} \/ Interrupted
    /\ ScanPriority(IF jobs # {} THEN NoPriority ELSE NextPriority(prio), stale)
    /\ UNCHANGED <<now, source, atDest, shared, kicks, saved, retry, faults, calls, copied, told, settled>>

\* A directory with which something went wrong is left for this cycle.
SkipFile(j) ==
    /\ at = "files" /\ ~Interrupted /\ j \in NextJobs
    /\ latestCopied[dir[j[1]]][j[2]] = Failed
    /\ jobs' = jobs \ {j}
    /\ UNCHANGED <<now, source, atDest, shared, kicks, saved, at, prio, todo, current, latest, latestCopied, blind, retry, faults, calls, copied, told, settled>>

ClearAhead(f, d) ==     \* mutant: clears up to the file that is next
    LET s == dir[f]
        last == latestCopied[s][d]
    IN IF last # 0 /\ ctime[f] > last
       THEN cleared' = [cleared EXCEPT ![s][d] = ctime[f]] /\ saved' = cleared'
       ELSE UNCHANGED <<cleared, saved>>

\* A file younger than the last one copied shows that all of that one's age
\* have been copied.
ClearUpTo(f, d) ==
    LET s == dir[f]
        last == latestCopied[s][d]
    IN IF last # 0 /\ ctime[f] > last
       THEN cleared' = [cleared EXCEPT ![s][d] = last] /\ saved' = cleared'
       ELSE UNCHANGED <<cleared, saved>>
FailAndGoOn(s, d) ==    \* mutant: only this file is given up
    /\ faults < MaxFaults
    /\ faults' = faults + 1
    /\ retry' = TRUE
    /\ UNCHANGED latestCopied

Fail(s, d) ==
    /\ faults < MaxFaults
    /\ faults' = faults + 1
    /\ latestCopied' = [latestCopied EXCEPT ![s][d] = Failed]
    /\ retry' = TRUE

\* The copy is started with the lock released.  The directory may not be made
\* or be too full, and then the next file is tried.
StartFile(j) ==
    LET f == j[1] IN
    LET d == j[2] IN
    /\ at = "files" /\ ~Interrupted /\ j \in NextJobs
    /\ latestCopied[dir[f]][d] # Failed
    /\ ClearUpTo(f, d)
    /\ \/ /\ at' = "copying"
          /\ jobs' = jobs
          /\ UNCHANGED <<latestCopied, retry, faults>>
       \/ /\ Fail(dir[f], d)
          /\ jobs' = jobs \ {j}
          /\ UNCHANGED at
    /\ current' = IF at' = "copying" THEN {j} ELSE {}
    /\ UNCHANGED <<now, source, atDest, stale, staleFrom, kicks, prio, todo, latest, blind, calls, copied, told, settled>>

FinishedAnyway(s, d, left, last) ==     \* mutant: a failed file is counted down
    \A j \in left : ~(dir[j[1]] = s /\ j[2] = d)

\* All files of the directory are at destination d: its count has come to 0
Finished(s, d, left, last) ==
    last # Failed /\ \A j \in left : ~(dir[j[1]] = s /\ j[2] = d)

\* The copy ends; renamed into place it is complete.  After the last file
\* for both destinations the directory is up to date, unless a client has
\* come since; a destination that was not scanned has no files to wait for.
EndFile ==
    /\ at = "copying"
    /\ at' = "files"
    /\ current' = {}
    /\ \E j \in current :
         LET f == j[1]
             d == j[2]
             s == dir[f]
         IN /\ jobs' = jobs \ {j}
            /\ \/ /\ Fail(s, d)
                  /\ UNCHANGED <<atDest, copied, stale, cleared, saved, settled>>
               \/ /\ latestCopied' = [latestCopied EXCEPT ![s][d] = ctime[f]]
                  /\ atDest' = [atDest EXCEPT ![d] = @ \cup {f}]
                  /\ copied' = [copied EXCEPT ![d] = @ \cup {f}]
                  /\ IF \A e \in DestsOf(s) : Finished(s, e, jobs', latestCopied'[s][e])
                     THEN /\ stale' = IF stale[s] = "PROCESSING"
                                      THEN [stale EXCEPT ![s] = "UP_TO_DATE"] ELSE stale
                          /\ cleared' = [cleared EXCEPT ![s][d] = latest[s]]
                          /\ saved' = cleared'
                          /\ settled' = IF s \in blind THEN settled \cup {s} ELSE settled
                     ELSE UNCHANGED <<stale, cleared, saved, settled>>
                  /\ UNCHANGED <<retry, faults>>
    /\ UNCHANGED <<now, source, staleFrom, kicks, prio, todo, latest, blind, calls, told>>

-----------------------------------------------------------------------------
CopyingProcess ==
    \/ BeginCycle \/ EndScan \/ EndPriority \/ EndFile
    \/ \E s \in Sources : ScanAgain(s) \/ ScanDir(s) \/ ScanFails(s)
    \/ \E j \in jobs : SkipFile(j) \/ StartFile(j)

Next ==
    \/ Tick \/ Appear \/ Remove \/ Restart
    \/ \E s \in Sources : AddPair(s)
    \/ CopyingProcess

\* The copying process goes on, its timeout included, and time passes.
Spec == Init /\ [][Next]_vars /\ WF_vars(CopyingProcess) /\ WF_vars(Tick)

-----------------------------------------------------------------------------
(* Properties *)

Times == 0 .. MaxTime

\* The shared memory, and the copying process's own.
TypeOK ==
    /\ now \in Times
    /\ ctime \in [Files -> Times] /\ dir \in [Files -> Sources]
    /\ deleted \subseteq Files
    /\ atDest \in [Dests -> SUBSET Files]
    /\ stale \in [Sources -> {"UP_TO_DATE", "PROCESSING", "STALE"}]
    /\ staleFrom \in {NoPriority} \cup Priorities
    /\ \A s \in Sources : {cleared[s], saved[s]} \subseteq [DestsOf(s) -> Times]
    /\ kicks \in Nat
    /\ at \in {"wait", "scan", "files", "copying"}
    /\ prio \in {NoPriority} \cup Priorities
    /\ jobs \subseteq Files \X Dests

\* No file is deleted of which no complete copy ever reached each destination
\* of its directory, though what is deleted is decided by times that outlive
\* copies, failures and restarts.
DeletedWasCopied ==
    \A f \in deleted : \A d \in DestsOf(dir[f]) : f \in copied[d]

\* The time up to which a directory counts as copied never covers a file that
\* has not been, neither in memory nor in the file a restart reads.
ClearedWasCopied ==
    \A f \in Files : \A d \in DestsOf(dir[f]) :
        ctime[f] # 0 /\ ctime[f] <= Max({cleared[dir[f]][d], saved[dir[f]][d]})
            => f \in copied[d]

\* "Because the order of copying must be maintained": a file reaches a
\* destination only after all older ones of its directory.
OldestFirst ==
    [][\A d \in Dests : \A f \in copied'[d] \ copied[d] : \A g \in Files :
          ctime[g] # 0 /\ ctime[g] < ctime[f] /\ dir[g] = dir[f] => g \in copied[d]]_vars

\* A directory that a client has named is not forgotten: a cycle that will scan
\* it at its priority or a higher one is due, and the copying process is woken.
StaleIsPending ==
    \A s \in Sources : stale[s] = "STALE" =>
        staleFrom \in 1 .. Priority[s] /\ kicks > 0

\* What a client asks to have copied is copied to every destination, through
\* failures, interruptions and restarts, unless the directory was taken for up
\* to date while one of its destinations could not be examined.
AskedIsCopied ==
    \A f \in Files : \A s \in Sources :
        (ctime[f] # 0 /\ dir[f] = s /\ ctime[f] < told[s])
            ~> (s \in settled \/ \A d \in DestsOf(s) : f \in copied[d])

\* "If any files could not be copied, it re-awakes after RECHECK_INTERVAL to
\* try again", also when it is one of two destinations that failed.
RetriedUntilCopied ==
    \A f \in Files : \A s \in Sources :
        (ctime[f] # 0 /\ dir[f] = s /\ ctime[f] < told[s])
            ~> \A d \in DestsOf(s) : f \in copied[d]

=============================================================================
