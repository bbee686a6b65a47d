# Ingex in TLA+

Specifications of the concurrent core of Ingex, the BBC's tapeless studio and
archive recorder and its player: what the threads and processes share, what may
go wrong between two of their steps, and what nevertheless holds. TLC checks small
instances; TLAPS proves every safety property they check for instances of any
size. Paths are relative to the root of the repository.

## 1. The system

| Part | Where | State | Operations | Talks to |
|---|---|---|---|---|
| SDI capture | `studio/capture/dvs_sdi.c` (and the `nexus_*` tools beside it) | per channel a ring of frames in shared memory, `lastframe`; the thread's fifo, outage and recovery state | `write_picture`, `wait_for_good_signal`, `write_dummy_frames` in the thread `sdi_monitor` | everything that reads the ring, through shared memory only |
| Shared memory control | `common/nexus_control.c`, `studio/ace-tao/common/IngexShm.cpp` | `NexusControl`: ring sizes, heartbeat, record status | `nexus_lastframe` under a mutex, `nexus_frame_data` without | capture, recorder, players |
| Record thread | `studio/ace-tao/Recorder/recorder_functions.cpp` | `lastcoded`, `last_saved`, the buffer of frames being encoded, counts | the loop: check backlog, queue a frame, save coded frames | ring, encoder, MXF writer |
| Multi-threaded encoder | `studio/ace-tao/common/MtEncoder.cpp`, `EncodeFrameBuffer.cpp` | message queue, per track: data, coded, frame number, error | `Encode`, `svc`; `Frame`, `IsCoded`, `EraseFrame` | record thread, and the ring, which it reads directly |
| Control of a recording | `IngexRecorder.cpp`, `IngexRecorderImpl.cpp` | current recording, start frames, target duration, comments | `CheckStartTimecode`, `Start`, `Stop`, completion callback | record threads, CORBA servants, copy manager |
| Copy manager | `studio/ace-tao/common/CopyManager.cpp` | pid and command of the client process | `StartCopying`, `StopCopying` | control of a recording; the transfer server, through clients (`xferclient.pl`) |
| Transfer server | `studio/processing/media_transfer/xferserver.pl` | pairs of directories by priority, which are stale, times up to which files are copied (saved in a file) | a client's request; the copying process: scan, copy in order, clear, delete | clients, the disks, destinations that may be away |
| Buffered media source | `player/ingex_player/buffered_media_source.c` | ring of frames by position, client position, end of the clip, read thread | `read_frame`, `seek`, `close` | player thread; a target source (MXF, raw, shared memory, ...) |
| Buffered media sink | `player/ingex_player/buffered_media_sink.c` | ring of frame buffers and a swap frame, read thread | `accept`/`receive`/`complete`/`cancel`, `reset_or_close`, `close` | player thread; a target sink (display) |
| Media player and control | `media_player.c`, `media_control.c`, `multiple_sources.c`, connectors | play state, source positions, decoder threads | play, seek, mark, connect streams | sources, sinks, inputs |
| Archive recorder: session | `archive/src/recorder` | phase of the session, requests, lock of the recorder | start, stop, chunk, complete, abort | web server, capture card, two tape machines, cache |
| Archive recorder: cache | `archive/src/cache`, `tape-export`, `database` | files of the disk cache and of the directory for those being made, links and session status in the database, a list of items in each of two processes | create, finalise, remove, watch the directory, start up again | recorder, tape export, database |
| Archive recorder: the rest | `archive/src/capture`, `vtr`, `tape-io`, `http`, ... | ring buffer, tapes, positions | capture, VTR commands, tape I/O | hardware, HTTP clients |
| Studio database, MXF writer, processing scripts | `studio/database`, `mxfwriter`, `mxfreader`, `processing`, `web` | files, PostgreSQL | transfer, AAF creation, proxies, recovery | each other by files and database |
| GUIs and CORBA servants | `studio/ace-tao/{Ingexgui,RecorderClient,GalleryLogger,routerlog}`, `RecorderImpl.cpp`, `StatusDistributor.cpp` | views of the recorder | remote calls | control of a recording |
| Libraries | `libMXF`, `libMXF++`, `MediaHarmony`, `common` | none that outlives a call, but for files | parsing, writing, conversion | all |

What is hard, and what makes each part correct:

* **Capture.** Readers hold no lock on a slot and tell from a number in it
  whether it was overwritten. The numbering has to stay in step with the
  timecode over outages, dummy frames and recoveries, which all write to the
  same ring. Correct: a published frame is what its data says until its slot is
  reused; the numbering does not outrun the clock.
* **Recording.** Three kinds of threads advance at their own pace (capture,
  record thread, encoder threads) over the same ring. Correct: frames are
  written in order, once, each with its own picture and audio or an error
  noted; counts and duration are exact even when frames are dropped.
* **Sink and source.** Two threads, one mutex, two condition variables each,
  and frame data accessed outside the mutex. Correct: nobody touches a buffer
  someone else has; what comes out is what went in, in order; calls return.
* **Control and copy manager.** Three kinds of threads use one pointer and one
  pid without locks; recordings end by themselves. Correct: nothing is used
  after its deletion, what goes on can be stopped, reports are final, and the
  transfer server learns what it must.
* **Transfer server.** Requests, new files, failures and restarts while it works
  through its lists. Correct: nothing is deleted or counted as copied that is
  not, the order holds, and what was asked for gets done.
* **Archive session.** One thread takes requests from many; a lock is taken
  after the test that calls for it. Correct: no recording goes on unnoticed
  without signal, capture or tapes; a session ends by choice, and quietly.
* **Archive cache.** Two processes, a database and a directory that change one
  after the other, with crashes between. Correct: a recording is kept until it
  is on tape; what was left half done is cleared away; all agree in the end.

The hazards found are listed, line by line, in `PROJECT.json` with the
properties that watch them.

## 2. The modules

| Module | Models | Status |
|---|---|---|
| `FrameQueue` | the promise of the buffered sink: a bounded queue of whole frames, which may drop its oldest | abstract specification |
| `BufferedMediaSink` | `buffered_media_sink.c` | complete |
| `BufferedMediaSinkProofs` | theorems about it | complete |
| `BufferedMediaSource` | `buffered_media_source.c` over a target that fails | complete but for the limits below |
| `BufferedMediaSourceProofs` | theorems about it | all safety properties |
| `CaptureChannel` | the thread `sdi_monitor` of one channel | one channel |
| `CaptureChannelProofs` | theorems about it | all safety properties |
| `RecordedFile` | the promise of a recording: frames in order and once, gaps counted, wrong pictures only where the ring was overtaken | abstract specification |
| `RecordLoop` | the record thread and the `MtEncoder`, extends `CaptureChannel` | one channel, one recording |
| `RecordLoopProofs` | theorems about it, extends `CaptureChannelProofs` | all safety properties, the refinement |
| `MCRecordLoop` | `RecordLoop` for TLC, with the symmetry of the encoder's threads | |
| `RecorderControl` | `IngexRecorderImpl`, `IngexRecorder`, the waiting for record threads, `CopyManager`, the clients and the server's traffic control | several recordings |
| `TransferServer` | `xferserver.pl`: server process and copying process | complete but for copying itself |
| `TransferServerProofs` | theorems about it | all safety properties |
| `MCTransferServer` | `TransferServer` for TLC, with the priorities of the directories | |
| `ArchiveCache` | `Cache` in the recorder and in the tape export, with the database and the directory, and what sessions and tapes do to it | |
| `ArchiveCacheProofs` | theorems about it | all safety properties |
| `RecordingSession` | `RecordingSession`, `Recorder` and their callers | control only |
| `RecorderControlProofs`, `RecordingSessionProofs` | theorems about these two | all safety properties |

Conventions. A critical section is one step, and so is each access to shared
data outside one. A thread's position is a program counter named after the
function's parts; its local variables are variables of the module only if they
live across steps. A condition variable is represented by the program counters
of those who wait on it; every wait may return unsignalled. Variables that no
code has are marked "for the properties". Operators named as a variant of
another (`AcceptFreeOffByOne`) and commented as mutants play no part in the
specification: they show that a property notices the bug.

### BufferedMediaSink

`reader` is the read thread, `client` the player thread. The ring is
`frames`, `firstFramePosition`, `framesUsed`; buffers are numbers and
`content` says which frame and which streams are in each. The read thread goes
`top` (test of `stopping`), `take`, `show`, `return`, or `empty`,
`waitWritten`. A frame of the player is `AcceptStreamFrame`, one of
`AcceptFree`/`AcceptDrop`/`AcceptWait`, `StartFrame`, `ReceiveStreamFrame` for
some streams, `StampFrame`, `CompleteFrame`, or `CancelFrame`. Close and reset
are `Stop`, `Broadcast`, then `Close`, or `ResetFree` and what the target
answers: `ResetDone`, `ResetFails`, `ResetTargetClosed`.

Refinement of `FrameQueue`: the queue is the contents of the `framesUsed` slots
from `firstFramePosition` on; what is shown is the buffer in the read thread's
hand. The swap, the positions and the pairing of locks disappear.

Assumed: a frame is opened by an accept (see the hazard at line 277);
one player thread makes the calls, and resets or closes between two frames; the
target's `complete_sink_frame` returns.

### BufferedMediaSource

`reader` and `client` as above. The read thread chooses a frame
(`WaitForClient`, `ChooseFrame`), seeks the target if need be, empties the slot,
reads, recovers from a failure and publishes. `read_frame` and `seek` share the
actions of their wait loops, which are the same but for `EnterLoop`. The data in
a slot is the number of the frame it is of, or `Skewed` if it was read from the
middle of one. The target (`at`, `skew`) is read off `mxf_source.c` and
`libMXF/examples/reader/mxf_reader.c`: a seek to where the reader takes itself
to be does nothing. `Faults` lists what may go wrong and `MaxFaults` how often.

Assumed: a clip of fixed length; a recovery's own seeks succeed inside the clip;
one player thread; the wait between reads for a byte rate is left out.

### CaptureChannel

Time is counted in frames, the timecode of a frame is the tick at which it was
captured, and a picture is named by the tick too. `GetBuffer` to `Publish` are
`write_picture`, `Poll` and the `Dummy...` actions `wait_for_good_signal` with
`write_dummy_frames`. `taken` is what has left the card's fifo, which drops
frames when it is more than `FifoDepth` behind. `unwritten` collects the numbers
published without a picture of their own: frames skipped by a recovery, the
recovered frame, frames whose transfer failed. Nothing in the ring tells them
apart from others, so `PublishedIntact` has to leave them out by name.

Assumed: one channel, one timecode, no wrap at midnight.

### RecordLoop

`CheckBacklog`, `QueueFrame`, `SaveFrame`, `CheckFinished`, `SaveNoMore` are the
loop: a frame is counted as written under one lock and the target looked at under the
next, with a step of any other thread in between. For a
frame the buffer holds its video track; `audio` is the one array to which all
its audio tracks point. An encoder thread goes `GetFrame`, `Encode` (reads the
picture in the ring), `Replace` (looks at the frame number, marks the track
coded), `SetError`. `Start` is what `IngexRecorder` decides; its `Stop` is three
steps, `StopReadsWritten`, `StopReadsDropped` and `StopSetsTarget`, for each takes
the lock anew and the record thread goes on meanwhile.

Refinement of `RecordedFile`: the frame published is `lastframe`, the last queued
`lastcoded`, the frames waiting those in the buffer, the next to be written
`last_saved + 1`, and the phase is "written" between the writing of a frame and the
look at the target. `asked` is the length there was when the end was asked for: the
target is no shorter, and no longer than the length when it is set, so that at most
one frame is written that is beyond it by then. The two readings that make it
disappear. Of the capture process only `Publish` remains, of the encoder
nothing: the ring, the contents of the buffer, the queue and the threads disappear,
and with them the reading of a slot apart from its reuse, and
"coded" apart from "error". What is left of these is what a frame may be written
with: its own picture and no error, or, once `RingLen - 1` later frames have been
published, any picture captured since and either mark. The audio is that of the
last frame queued, which the code does not mean (section 3) but keeps to.

Assumed: the signal stays good (`MaxLosses = 0`; with losses the picture of a number
is no longer determined by it), one channel, the `MtEncoder` path, one call of
`Stop`, "now"; what follows the end of the recording is left out. A tick passes only
when the capture thread waits for it: with a good signal and a fifo that loses
nothing, time matters to that thread only there, so the order of the threads' steps
is not restricted.

### RecorderControl

Threads are `0`, the ORB's, and `r`, the one that waits for the record threads of
recording `r`; `pc` is where each is, `held` the recording the ORB's thread is at.
`CallStart` to `Discard` are `DoStart`, `CallStop` to `ClearPointer` are `Stop`,
`JoinThreads` to `DeleteRecording` the completion. In between every thread goes
through the copy manager (`ClearSrcDest` ... `Spawn`), one shared access at a time,
so two may be in it at once. A client carries one message; `ServeClient` is the
server. `noted` is the worst that a recording's threads have noted, a failure or
dropped frames, and what its report is made from. `lost`, `overlapped` and `misled`
remember what went wrong, since it does: the properties say that nothing else does.

Assumed: the ORB serves one call at a time (as it is configured); the copy command
is set, with at least one pair; the assembling of a command and the spawning are one
step; a test of `mpIngexRecorder` and its next use in the ORB's thread see the
same value.

### TransferServer

`at` is where the copying process is: `wait`, `scan`, `files`. A cycle goes through
the priorities in the order `sort keys` puts them in, which is that of strings
(`StringBefore`); for each it scans the stale directories, then goes through the
files in order (`StartFile`, `EndFile`). A directory with files as young as the scan
is scanned again in the next second (`ScanAgain`), unless no destination could be
looked at; `ScanDir` is the last scan. Each of them, and one that fails, may delete
any of the sources that are at all their destinations. `cleared` is the ctime up to
which files are at a destination and what is `saved`; `jobs` the files to copy for
each destination; `latest`, `latestCopied` and `blind` what a scan keeps for the
end. `AddPair` is a client's request, `kicks` the byte it writes to the copying
process. `ScanFails` and `Fail` are a source or a destination that is not there or
full; the destinations that `ScanDir` cannot use are its `bad`. `Restart` keeps what
was saved.

Assumed: pairs keep priority and destinations; the file of times can be
written; clocks do not go back; no traffic control, which only slows copying.

### ArchiveCache

`dest` are destinations, one per file ever begun, with a session; `link` those the
database says are in the cache, `disk` and `creating` the two directories; `rItems`,
`eItems` the lists of the two processes, the second with copies of what the database
said (`Copy`); `rEvents`, `eEvents` what the directory watches will tell. A session
registers its items one by one, finalises them one by one and then becomes
completed. Starting up is two steps for the tape export; for the recorder there
follow those of its clean-up, in the order of the code and with the cache's watch
thread running beside them. A session left started is made an aborted one
(`abortStartedSession`, `Recorder.cpp:207`); then of each item of it the link goes
(`unlinkItem`) and then the file and the entry in the list (`removeItemFile`), the
list locked in between; `SessionCleaned` ends that and `RecorderStarted` the whole.
A crash may come between any two of these. `cleanup` says how far it is, and
`leftBehind` remembers, for the properties, the destinations of a session whose
clean-up a crash cut short: no later start looks for them, since it asks for started
sessions only. A transfer selects completed items, stores them and removes them,
link first.

Assumed: names are used again only when the tape export has heard of the last file
of that name (`Settled`; a recording takes longer than an event), and nobody removes
by hand a file being stored: the look whether a file is in use and the beginning of
its removal (`removeForClient`, `HTTPTapeExport.cpp:293`) are one step. Both are
limits of the code: see below.

### RecordingSession

`at` is what the session's thread is doing, `requests` what it has been asked.
Long operations are split where the world can change in between: `StartPlaying`,
`StartCapture`, `Recording`; `StopBegins`, `StopCapture`, `Stopped`; `AbortTapes`,
`Abort`. A call of `Recorder` is `Reads` (the test of `_sessionDone`),
`LockForWriting` and `Clear` if it is set, then one of the actions with `Enter`.
The web server is one caller; the thread of the capture that watches the signal
(`Report`, `HandleReport`) and the one that stores frames (`Overflow`,
`ReportOverflow`, `HandleNotGood`, `HandleOverflow`) are two more, which may be in
a call at once. The store thread does nothing while it is in a call, and is waited
for by stop and abort. Each full buffer is two calls, the second without regard to
the state; the first is made only if it is news (`recordingOK`), which the session's
own thread resets when it starts to record.

A tape machine is seen to play or record (`running`), has stopped without the
session knowing (`stops`), or is in some state it may come back from, ejecting,
disconnected or other (`away`: `TapeGoes`, `TapeReturns`), of which `vtrState` only
warns. Told to stop, it may refuse, which the code only logs (`StopTapes`), and a
start that gives up waiting for the D3 machine to play leaves it to play after all
(`PlaysTooLate`). `unstopped` remembers, for the properties, the machines the
session is through with and that may run.

Assumed: what stop does after the capture has ended (reading back the file's
length) succeeds; the web server makes one call at a time; no exception ends the
session's thread.

## 3. What is checked

Runs that pass, with the states TLC finds:

| Run | Instance | States |
|---|---|---|
| `sink` | ring of 2, 2 streams, 4 frames, 1 reset, dropping and not | 265,000 |
| `source` | ring of 2, clip of 3, 2 streams, seeks to 0, 2, 4, 2 faults | 859,000 |
| `capture` | ring of 4, fifo of 2, 9 ticks, 3 losses, recoveries of up to 2 | 1,104,000 |
| `record` | ring of 4, 2 encoder threads, 6 ticks, one call of Stop | 2,972,000 |
| `control` | 2 recordings of 2 record threads, which may note dropped frames or a failure | 1,530,000 |
| `transfer` | 2 directories of 2 priorities, 2 destinations for one, 2 files, 3 ticks, 1 request, 2 faults | 440,000 |
| `cache` | 2 names, 2 sessions, 3 faults | 1,557,000 |
| `session` | 2 sessions, 2 faults | 1,320,000 |

Bounds, and why they are enough. Two slots are the smallest ring the sink accepts,
and the one where reader and writer are always next to each other; four frames wrap
it twice. The source's ring of two with a clip of three makes every slot serve two
frames, and the seeks go back, on, to the end and past it; two faults make one in
the recovery from another. The capture ring of four is wrapped by nine ticks with
outages and recoveries between; 25 good polls and recoveries of 50 frames become 2
and 2: only the comparison with them matters. `RingLen = 4` is the least with a
backlog (`ringlen - 3`) of one, and six ticks lap it while frames are being encoded.
`SEARCH_GUARD` and the prediction of a start shrink in proportion. Two recordings
are what an end that overlaps a start takes, two record threads what a wait for the
last takes. Two directories at two priorities with one second destination give every
comparison of the order both outcomes (that the order is one of strings shows only
with priorities of two digits; the theorems are for any); three ticks let a file
appear while one is copied and after. Two sessions use one name twice, and three
faults are a crash of the recorder, one of its clean-up after that, and one of the
tape export in either. Two sessions of `session` are one that ends and one that
could be taken for it, and two faults a tape machine that stops while another
refuses to, or is away. In all runs `CHECK_DEADLOCK` is off: a closed sink or
source, the last tick, the last recording or session are ends (and two deadlocks of
the code, below, end runs as well).

What each shows:

* `sink`. `FrameOwnership`: buffers rotate between ring, swap frame and read
  thread without one ever being in two places, up to the freeing.
  `WriterSlotExclusive`, `WriterBufferStable`: the slot chosen under the lock is
  still the right one when it is used without. `ImplementsFrameQueue`.
  `CallReturnsUnlessWakeupMissed`: liveness, with the one exception spelt out.
* `source`. `RingHoldsFrames`, `TargetInStep`, `EofExact`, `DeliveredRight`
  (unless overtaken, below), `FailsOnlyOnFault`, and liveness without help from
  the timeout.
* `capture`. `PublishedIntact` and `TimecodeKeepsUp`.
* `record`. `SavesEveryFrameUnlessOverrun`, `CheckIsSound`, and
  `ImplementsRecordedFile`: what of all that can reach the file, and when it ends. (That written and
  dropped frames add up, `DurationExact`, is part of the last; it is proved by
  itself.)
* `control`. `AliveWhileUsed`: a recording is not deleted while a thread is at
  it, but for the call of Stop that tested the pointer too early.
  `ReportIsFinal`, `CurrentIsStoppable` (unless a completion cleared the pointer
  to another recording), `ControlEndsUnlessLost`: traffic control ends with the
  last recording unless a client was interrupted. `FilesAreCopied`: liveness.
* `transfer`. `DeletedWasCopied`, `ClearedWasCopied`: safety of the data, also
  over restarts. `StaleIsPending`: no request is lost between a scan and its
  mark. `OldestFirst`: what is begun is preceded by all that is older.
  `AskedIsCopied`: liveness, what a client asked for gets copied.
* `cache`. `RemovedOnlyWhenOnTape`, `InStep`, and `NoLeftovers`: what a crash left of a
  session is gone when the recorder has started, but for what a crash in that very
  clean-up left, and two more exceptions that are spelt out.
* `session`. `RecordingWatched`, `EndIsQuiet`: an ended session leaves no capture, no
  cutting and no tape machine running, but machines it could not stop and nobody has
  since (`unstopped`). `AbortEnds` (liveness).

Runs that end in a violation, each of a sentence in the code:

| Run | Says the code | What happens |
|---|---|---|
| `sink_wakeup` | "signal so that reader wakes up" | the reader waits without a new test and misses it; both threads wait |
| `record_overwrite` | "Check the frame was still in memory" | a frame was queued with its right number and overwritten before it was encoded; coded is set before the error, the frame is saved in between |
| `transfer_retry` | "If any files could not be copied, it re-awakes ... to try again" | not for a destination that could not be scanned, once the other is done |
| `session_ends` | a session ends when the user completes or aborts it, or the system aborts | a caller that saw the last session done deletes the next |

Other flaws of the code that came up, each an exception spelt out in a property
or an assumption of a module (file names as in section 1):

* `buffered_media_sink.c:446`. When the target answers a reset by closing
  itself, `targetSink` is cleared and then used by `bms_close` (361): the 2 that
  `media_sink.h:101` promises is never returned (`client = "nullTarget"`).
* `buffered_media_source.c:281`. The read thread chooses a slot under the lock
  and clears it later; a seek in between finds the frame in it ready, and the
  player reads it while it is refilled (`overtaken` in `DeliveredRight`).
* `buffered_media_source.c:756`. After a call that timed out `clientWaiting` is
  still set and the next seek does not remember where it was; failing, it puts the
  player at frame 0.
* `dvs_sdi.c:1461`. `tick_last_dummy_frame` is the tick of the first of a batch
  of dummy frames, not the last (1537): after a batch of several the next repeats
  some and the numbering runs ahead (`batched` in `TimecodeKeepsUp`).
* `recorder_functions.cpp:1176`. Dropping a backlog moves `last_saved` on past
  frames still being coded, which are then never saved, and on to numbers that were
  never queued, for which the saving waits (`overrun`).
* `recorder_functions.cpp:1271`. All audio tracks of all frames point to one
  array that the next turn of the loop fills again: a frame coded late is
  written with the audio of a later one.
* `MtEncoder.cpp:113`. A frame whose slot had another number, or none, when it was queued
  is compared with that: the check passes and no error is ever noted (`index = n` in
  `CheckIsSound` and in `OverwriteNoted`).
* `IngexRecorder.cpp:598`. Stop reads the two counts and sets the target under three
  locks; the target may be short of what has been written by then, and one frame more
  follows.
* `IngexRecorderImpl.cpp:657`. Stop uses the recording it has tested for, while
  its completion deletes it (657-686); and `768`: a completion compares
  `mpIngexRecorder` and clears it in two steps, so that a recording started in
  between cannot be stopped (`misled`).
* `CopyManager.cpp:167`. A client still running is interrupted for the next
  message; if it carried an end, the server's traffic control stays on (`lost`).
  `IngexRecorder.cpp:541`: when the thread that waits cannot be made, the recording
  never completes.
* `xferserver.pl:775` sorts priorities as strings: 10 is served before 2, against line 40.
* `xferserver.pl:969` uses a limit that a signal may have changed since; `441`
  empties the file of times before it writes it; a pair that moves from priority
  2 to 1 is saved with a blank time, and a restart then drops it and what follows.
  The events that switch the traffic control do not survive a restart.
* The tape export loads an item when its file is moved, which is before its
  session becomes completed (`RecordingSession.cpp:1838`), and keeps the status it
  read: it never selects it (`TapeExportSession.cpp:787`, `830`) until it is
  started again, though `Cache.cpp:28` promises that changes are visible to other
  processes.
* The cache goes by names. If a name is used again before the tape export has
  heard of the last file's removal (set `LateEvents` in `ArchiveCache.cfg`), or
  after a file was removed by hand while being stored, the tape export may remove
  the new recording. A crash between the removal of a link and of its file leaves a
  file nobody knows (`halfRemoved`), a completion that fails between two files
  those already moved (`halfMoved`).
* `Recorder.cpp:207`. The clean-up at the start marks a session aborted before it removes
  its items, and the next start looks for started sessions only (196): after a
  crash in between the items stay for good (`leftBehind`).
* `RecordingSession.cpp:1306`, `1448`, `1579`, `1899`. A tape machine that refuses to stop is
  only noted in the log, and a D3 machine that has not been seen to play for five seconds
  (`1270`) is not told to stop; an abort in READY stops none. The session ends and the
  machine runs (`unstopped`).
* `RecordingSession.cpp:438`, `519`. A tape machine that stops, or a signal that
  fails, after the start has looked at it and before the state is RECORDING is
  ignored (`missed`). An abort asked for because of the signal while a stop is under
  way aborts the session that has just stopped, against `Recorder.cpp:253`. The
  end of the cutting into items is noticed only when somebody asks for the status.
* `Recorder.cpp:952`. The thread of a session is waited for with the lock held;
  if it waits for the capture's store thread and that for the lock, all three
  wait for ever.

Fairness. `WF(ReadThread)` and `WF(ClientCall)`: both are ordinary threads of
one process, and a call that has begun goes on when it can. Nothing is assumed
of the player's choice of calls, and no wake-up without a signal, nor the expiry
of a timed wait, is assumed ever to come. `RecorderControl`: threads that have
begun something and the client processes go on; no recording has to end, nobody
has to call. `TransferServer`: the copying process and the clock, which the retry
interval needs. `RecordingSession`: the session's thread, the cutting into items,
the two threads of the capture and the tape machines' in their calls; not the user.

## 4. What is proved

`BufferedMediaSinkProofs`, for every `NumFrames >= 2`, every set of streams and
any bounds, from the assumptions named in the module (`SizeAssumption`, and that
`NULL` and `NoFrame` are no buffer and no frame):

* `TypeCorrect`, `OwnershipHolds`, `ExclusiveWrite`: `Spec => []` of `TypeOK`,
  `FrameOwnership`, `WriterSlotExclusive`;
* `WriterBufferStability`: the action property `WriterBufferStable`;
* `Refinement`: `Spec => Queue!Spec`, the sink implements `FrameQueue`.

The inductive invariant `IInv` adds two conjuncts to the three invariants.
`StopCoupling` says which phases of close and reset have `stopping` set and when
the read thread may be gone: without it a step of the read thread in a freed
ring could not be excluded. `FramesWhole` says that queued frames are completed
ones and that the buffer being composed holds just what the player has sent:
the refinement needs it to know what enters the queue and is shown. The lemmas
on `FreeSlot` (modular arithmetic of the ring: injective on the free and used
part, moved by one when the first frame goes) carry the argument that taking a
frame, dropping one and completing one move the queue and leave the writer's
slot alone; `WriterBufferApart` that a write to the buffer being composed
touches no queued frame and not the one shown.

`RecorderControlProofs`, for any `MaxRecordings` and `NumThreads` of at least 1
(the assumptions the module states): `RecordingsAreAlive`, `ReportsAreFinal` and
`RecordingsCanBeStopped` are `Spec => []` of `AliveWhileUsed`, `ReportIsFinal` and
`CurrentIsStoppable`. None is inductive. `Unborn` says that numbers not yet taken
have no trace, and that Start has one to take; `Making` and `Discarding` what the
recording in the hand of the ORB's thread may be at each step of Start: without
them a recording about to be made, or deleted again, could be one that runs.
`Ending` says that nothing of a recording runs once its manage thread has joined
its threads, and that before it is deleted it is not pointed to. That is what
makes the unlocked test `rec == mpIngexRecorder` enough for the deletion: once
the pointer is on another recording it never comes back. `Stopping` is
`CurrentIsStoppable` with the steps at which such a recording may exist at all.

`ControlTypesHold` and `TrafficControlEnds` are `Spec => []` of `TypeOK` and
`ControlEndsUnlessLost`, by a second inductive invariant over the first, `ClientInv`.
The types say that no two clients have one pid, so it must be shown that a free one
is left: `Counted` bounds the clients by one more than the starts and the ends that
have been told (`SpentStarts`, `SpentEnds`), and each spawning spends a new one. The
traffic control rests on three facts that hold while one thread at a time has been in
the copy manager: there is at most the client last spawned and none when the next is
(`OneClient`), no start is told after its end (`StartsFirst`), and the end of each
recording that still has the control on is on its way or noted as lost (`EndsTold`).
`PairsSet`, that directories are missing only while a thread sets them, is what makes
the message at the end one of an end.

`RecordingSessionProofs`, for any bounds: `TypeCorrect`, `EndsQuietly` and
`RecordingIsWatched` are `Spec => []` of `TypeOK`, `EndIsQuiet` and
`RecordingWatched`, all the invariants of the module. `EndsQuietly` holds whichever
stops are refused, since what was told to stop and did not is `unstopped` from then
on; `TapesKnown` says that every machine that may run is one of those, which must
hold outside of a recording and of the steps that start and stop one, and the lemma
`StopTapesKnown` that telling all that run to stop makes it so. `Phases` ties the
state of the session to the step its thread is at; `Quiet` says where equipment may
run at all, so that the steps that start a recording leave nothing behind however
far they got; `Watched` splits `RecordingWatched` by what is missing, since the news
of each comes another way, and a request to stop that is served by a stop that fails
must have left a request to abort.

`BufferedMediaSourceProofs`, for every ring, clip, set of seeks, of faults and
number of faults: `SourceTypesHold`, `EndIsExact` and `TwoWakeupsSuffice` are
`Spec => []` of `TypeOK`, `EofExact` and `FailsOnlyOnFault`. `SourceInStep`,
`SlotsHoldFrames` and `FramesDeliveredRight` are that of `TargetInStep`,
`RingHoldsFrames` and `DeliveredRight` under `NoFirst`: the read of the very first
frame may time out, but not fail in its middle. Without it they are false, for the
recovery from that goes to frame -1 (`buffered_media_source.c:389`, among the hazards);
the run leaves it out of `Faults` too. `SourceAt` says for each step of the read
thread where the target is and what the thread knows of the outcome; `Aligned` that
a target left inside a frame is about to be taken out of it; `SlotsHold` that the
slot being filled is out of the ring. `Waits` is what makes two wakeups enough:
after the first the frame is there, or the read thread is on its way to it and
will not take another first, and after the second it is there. The exception in
`DeliveredRight` takes a seek: `PlayingIsNotOvertaken` is `Spec => []~overtaken` when
`SeekPositions` is empty, and `PlayingDeliversRight` draws from it that every stream
sent is of the client's frame. For these `Playing` is added to the invariant: the
frames from the client's to the last read are all in the ring, fewer than a ring of
them, and the read thread's next one is the frame after them, so that it has the slot
of none of them (`SlotsApart`, `SlotShared`).

`CaptureChannelProofs`, for every ring of at least 2 and any fifo, limits and losses:
`ChannelTypes`, `FramesStayIntact` and `NumbersKeepToTimecode` are `Spec => []` of
`TypeOK`, `PublishedIntact` and `TimecodeKeepsUp`. The lemmas on `SlotOf` say that
numbers less than a ring apart have different slots, so that the slot in hand is no
published one's. `Phases` and `InHand` say how far the frame in hand has got;
`Numbers` that no slot bears a number not yet published; and `InStep`, which the
last theorem needs, that at every step the next frame is at least as far from
those in the ring in time as in number.

`RecordLoopProofs`, for every ring of at least 4, any number of encoder threads, and
a good signal (`GoodSignalAssumption`): `RecorderKeepsChannel` is `RecSpec => Spec`,
so that what is proved of the channel holds with a recorder beside it;
`RecorderTypes`, `SavesEveryFrame`, `DurationIsExact` and `NumberCheckIsSound` are
`RecSpec => []` of the module's invariants. The last one is the interesting one.
`RingTruth` says that a slot with a number has that frame's picture, because the
writer clears the number first, and `NumbersComeOnce` that a number once gone never
returns; hence an encoder that finds its number after it has read the picture read
the right one (`WillBeSound`). `CodedOnce` says that a queued frame is in one place
only, and `Turns` how the counts of the loop stand to those of the ring; `StopInv`,
that what Stop has read is no more than the counts by now, and in the end no less
than there was when it was called. `MakesRecordedFile` is `RecSpec => Made!Spec`,
the recorder implements `RecordedFile`. It needs a second inductive invariant over
the first, `FileInv`, which follows a picture from the ring to the file:
`RingContent` says that the slot of a published frame holds its picture and number,
unless the ring has come round to it, and then a later picture; `ThreadContent`,
`BufferContent` and `AudioContent` carry that on to what a thread has encoded, what
waits in the buffer and what is in the audio array. It keeps because what may pass
for the content of a frame only grows (`RightStays`). Unlike `CheckIsSound` it
speaks of frame 0 and of frames queued too late as well; and that the check fails
only for a frame that was overtaken is part of it.

`TransferServerProofs`, for any directories, priorities, options, files and bounds:
`ServerTypes`, `DeletesOnlyCopied`, `ClearedIsCopied` and `StaleIsNotForgotten` are
`Spec => []` of `TypeOK`, `DeletedWasCopied`, `ClearedWasCopied` and
`StaleIsPending`, and `CopiesOldestFirst` is `Spec => OldestFirst`. `Past` says that
no time kept is that of a file still to come, for which the scan's wait for the next
second is needed; not so of a directory nothing of which will be touched in this
cycle since none of its destinations could be looked at (`Untouched`), for there the
scan does not wait; `AllCovered` that files up to a time kept have been copied. That
a time may be moved on rests on `AllAccounted`: of a directory and a destination
that something has been copied to in this cycle, and for which nothing failed, every
file that the scan found is copied or is still a job; and the next job is the oldest
(`NextJobIsOldest`). Where a failure has broken the chain the time stays, and so the
rest of the jobs is skipped. `OneDestinationIsRetried` is `Spec => [](settled = {})`
when every directory has one destination, so that there `AskedIsCopied`, which TLC
checks, has no exception: `BlindHasNoJobs` says that a directory of which a
destination could not be examined then has nothing to copy in this cycle, and so no
last file after which it would be marked up to date.

`ArchiveCacheProofs`, for any names, sessions and faults: `CacheTypesHold`,
`NothingRecordedIsLost`, `CacheHoldsNoLeftovers` and `CacheAgrees` are `~LateEvents
=> (Spec => []P)` for `TypeOK`, `RemovedOnlyWhenOnTape`, `NoLeftovers` and `InStep`:
a name is used again only when the last file's removal has been heard of, in the
sense of `Settled`, as in the run. With `LateEvents` they are false (section 3).
What makes `RemovedOnlyWhenOnTape` hold is `OnDisk`: what is on the disk is the
newest of its name, and linked until its removal has begun, which is for a reason
(`RemovedForReason`). `SessionOrder` gives newest its meaning: destinations are
numbered in the order of their sessions, and a session has each name once.
`ExportHears` and `ExportKnows` say that an item the tape export lists is what is on
the disk, or it will hear of the removal before anything new of the name. `Starting`
is what the recorder knows from `initialiseRecorder` on until it has started: the
files of interrupted sessions are in its list then, or being removed; and `Cleaning`
what it knows of the session in its hands, which is an aborted one already, so that
what a crash leaves of it is all in `leftBehind`. In between its watch thread hears
of removals, which may take an item off the list before the clean-up comes to it
(`NoneLinked`). The recorder is the harder of the two for `InStep`, since a deletion
names only a file and makes it forget the first item of that name, of which it may
have several. `RecorderHears` therefore counts: of each name there are at most as
many items as deletions it has yet to hear of, and one more if the file is on the
disk; in order, so that the last to stay is the newest.

Some assumptions on constants were added for the proofs, all true of the code: the
capture run has a first tick (`CountAssumption`), the server serves at least one
directory and finitely many (`SourcesAssumption`; else the first priority of all, or
the next one, is undefined), the bound on archive sessions is a number
(`SessionsAssumption`), and record threads note failures or dropped frames and nothing
else (`NotableAssumption`).

Only model-checked: liveness (`CallReturnsUnlessWakeupMissed`, that of the source,
`FilesAreCopied`, `AskedIsCopied`, `AbortEnds`), which is out of reach of the prover,
and the four runs that end in a violation.

## 5. What is not modelled, and the plan

Left out for good: conversion of pictures, MXF and database libraries, GUIs,
scripts other than the transfer server, hardware set-up. They are most of the
lines of the repository; they are sequential, and their difficulties are not in
the order of steps. So the share of lines that the modules stand for is small,
and would not grow much with the modules below.

Planned, most important first:

1. Several channels: `lastcoded` and `last_saved` per channel, the quad picture
   and the master timecode; loss of the heartbeat.
2. `MultipleSources` and the media player over the buffered source: several
   sources kept at one position when one of them fails or times out.
3. `RecordingSession` over `ArchiveCache`: what an abort or a crash in each phase
   leaves of the items of a session.
4. Double faults in the recovery of the buffered source, and of the first frame.
5. Proofs: `ArchiveCache` without `~LateEvents`, with what then still holds.
