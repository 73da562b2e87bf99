# TLA+ models of YPlayer

YPlayer is a C++ media-player SDK on top of FFmpeg: an application asks for a
port, opens a file on it, plays it and receives decoded frames through a
callback. The code follows ffplay's design (a demuxer thread, a decode thread
per stream, a thread that shows the frames, clocks, and a `serial` that tells
one logical stream from the next) and splits it into classes. It is unfinished:
several parts are stubs and some of the wiring between the classes is missing.

The modules here model the classes that carry the program's own logic, the
TLC configurations check them on small instances, and the `_proofs` and
`_refines` modules prove the main results for every value of the constants.

## The system

| Part | State | Operations | Talks to |
|---|---|---|---|
| SDK entry points `src/api/YPlayerSDK.cpp` | none | one function per call | `PlayerManager::instance()` |
| `PlayerManager` | the singleton pointer, `_playerMap` under `playerMapMutex` | getFreePort, releasePort, openFile, closeFile, play, pause, seek, speed, OneByOne | the `Player` of the port |
| `Player` | work state, frameTimer, serial, step, paused; owns demuxer and decoders | checkUrl, start, streamTogglePause, the showing thread | demuxer, decoder, SyncManager, the application's callback |
| `FrameQueue` | ring of 16 slots, rindex, windex, size, rindexShown, one mutex, two condition variables | peekWritable, push, peekReadable, peek, peekNext, peekLast, next, nbRemaining, lastPos | decode thread writes, showing thread reads |
| `PacketQueue` | linked list, counters, one mutex, one condition variable | put, getPacket, flush, abort | demuxer thread writes, decode thread reads |
| `Demuxer` | format context, stream indexes, pause/seek requests, end-of-file flag | init, start, demuxerThread | three packet queues |
| `SoftDecoder` | codec context, pending packet, frame queue | init, start, decodeThread | `IPacketSource` (a packet queue), frame queue, serial |
| `SyncManager`, `Clock` | three clocks: pts, drift, last update, speed, paused | vpDuration, computeTargetDelay, set/get/pause/synchronise a clock | showing thread |
| `DataStreamContext` | atomic serial, list of listeners | getSerial, incrementSerial, validSerial, addListener | queues and clocks are listeners with empty handlers |
| hardware decoders, `AudioSoftDecoder` | - | empty files | - |

`src/extern` (FFmpeg), `src/cmake` (build output), `src/test` (a vendored test
framework) and `src/docs` (diagrams) are not part of the implementation.
Paths below are relative to the repository.

### What is hard about it

* `FrameQueue` changes `windex`, `rindex` and `rindexShown` outside its mutex;
  only `size` is changed under it. The readers `peek`, `peekNext`, `peekLast`
  and `nbRemaining` take no lock. The showing thread goes on using a slot after
  `next()`.
* Two condition variables with one notification per element: a lost one stops
  a thread for good.
* Frame pacing works on an uninitialised `frameTimer` that is advanced, and
  sometimes reset, under pts that may be missing, repeated or jump.
* Frames of another serial are passed over, and no frame gets a serial.
* The singleton is created without a lock, by whichever thread comes first;
  ports are given back by two different calls.
* The ends of things: abort of a blocked reader, release of a port whose
  detached threads may run, seek between a check and a use.

What correctness means, part by part: the frame queue delivers every frame
once, in order, whole, retains the frame on show, and nobody waits without
reason; the packet queue does the same for packets and can be aborted; the
manager gives a port to one client at a time and keeps its player alive; the
showing thread shows every frame of the stream, in order, not too fast; the
clocks agree after pause, step and seek; the demuxer neither floods nor starves
the queues, and reads the file to its end; after a seek, or a change of serial,
no more of what was before is decoded and shown than the code's design admits.

`PROJECT.json` lists each hazard at its line, with the properties that cover
it or the reason why none does yet.

## The modules

| Module | What it is |
|---|---|
| `FrameChannel` | abstract: a bounded FIFO of frames which may retain the frame taken last |
| `FrameQueue` | the ring buffer with its two threads, and its refinement of `FrameChannel` |
| `FrameQueue_proofs` | its safety properties, for all parameters |
| `FrameQueue_refines` | it implements `FrameChannel`, for all parameters |
| `PacketQueue` | the linked list of packets |
| `PacketFeed` | abstract: what the decode thread of one stream is given, packet by packet |
| `Demuxer` | the demuxer thread over three queues: seek, throttle, reading, end of file, faults; its refinement of `PacketFeed`, once for each stream |
| `MCDemuxer` | its small instance |
| `Demuxer_proofs` | its safety properties and the refinement, for all parameters |
| `SoftDecoder` | the decode thread and the serial, between a packet queue and a frame queue |
| `Screen` | abstract: what a viewer sees of a video, with seeks |
| `Playback` | `Demuxer`, `SoftDecoder` and a showing thread composed, with seeks, and their refinement of `Screen` |
| `MCPlayback` | its small instance |
| `Playback_proofs` | its types and the bounds on what a seek or a new serial leaves behind, for all parameters |
| `Playback_refines` | it implements `Screen` and loses nothing, for all parameters |
| `PlayerManager` | singleton, port map and entry points under several client threads |
| `PlayerManager_proofs` | ports are exclusive and no entry dangles, for all parameters |
| `VideoThread` | the showing thread's pacing and dropping, composed with `FrameChannel` |
| `MCVideoThread` | its small instances |
| `MediaClock` | abstract: a clock of media time that runs, stands still or is set |
| `Clocks` | the three clocks, what sets them and the pause, and the external clock's refinement of `MediaClock` |
| `Clocks_proofs` | its safety properties and the refinement, for all parameters |
| `VideoThread_proofs` | its pace, its order and the life of the frame on show, for all parameters |

Operators named as a mutant in a comment change one definition the way a slip
in the code would; they are in no specification and serve to show that each
property can fail.

### FrameQueue

`rindex`, `windex`, `size`, `rindexShown`, `fQueue` are the object's fields.
A slot holds the number of its frame in decode order, or 0 when it is
unreferenced: that is all the properties tell apart. `pcW` and `pcR` say where
the decode thread and the showing thread are, `vp` is the slot the showing
thread peeked, `produced` and `taken` count frames.

| Action | Code |
|---|---|
| `PeekWritable` | one test of the loop in `peekWritable()`, under the mutex |
| `Fill` | `decodeThread` writes the frame into the slot (`SoftDecoder.cpp:156-169`) |
| `PushIndex`, `PushSize` | `push()`: `++windex` outside the lock, `size++` and the notification inside |
| `PollAndPeek` | `nbRemaining() > 0` and `peek()` in the showing thread |
| `PeekReadable` | one test of the loop in `peekReadable()` |
| `NextMarksShown` | `next()` when it only sets `rindexShown` |
| `NextIndex`, `NextSize` | `next()` otherwise: unreference and `++rindex`, then `size--` and the notification |
| `Callback` | the use of `*vp` after `next()` |
| `SpuriousWakeup` | either condition variable returns unasked |

`rindex` and `rindexShown` are written by the showing thread only and `windex`
by the decode thread only, so a step that reads several of them and one field
of the other thread has a single racing access. These are C++ data races all
the same; they are modelled with the outcome of the repository's build, an
unoptimised x86 Debug build in which an aligned `int` is read and written
whole and in program order.

`FrameQueue` models the class with one producer that keeps producing.
`decodeThread` as it stands returns after its first frame
(`SoftDecoder.cpp:181`), which is a special case.

### PacketQueue

Every method holds the mutex throughout, so each is an action; only the wait
inside `getPacket` splits it. `putPrivate` has its test of the tail pointer the
wrong way round (`PacketQueue.cpp:51`): the first `put` writes through a null
pointer, after which nothing happens (`crashed`). A `put` that finds no memory
for its list node drops the packet instead (`PutFails`). The queue therefore never
holds a packet, and the module has no passing run: it has a handful of states.
`abort()` takes the lock and gives it back, so it changes nothing. The modules
below use queues that are first in first out, as the unit test wants them, and that
have memory for every packet: the demuxer does not look at what `put` returns, so
without memory a stream would have a gap that nothing reports.

### Demuxer

A packet is its number in the file; `End`, one past the last, is the null packet
that ends a stream. `queue` holds `audioQ`, `videoQ` and `subtitleQ`, `pos` is
the reading position inside FFmpeg, `seekReq`, `eof` and `infiniteBuffer` are the
object's flags, and `index` holds `audioStreamIndex`, `videoStreamIndex` and
`subtitleStreamIndex`. `start` and `got` are history: where reading started or
was last moved to, and what was last taken of each stream since.

| Action | Code (`Demuxer.cpp`) |
|---|---|
| `NoSeek`, `Seek`, `SeekFails` | the seek request: none; moved, queues flushed, flags cleared; or an error that leaves the request pending, or ends the process (179-210) |
| `Throttle` | the test whether the queues hold enough (213-217) |
| `ReadPacket` | a packet read and put into its queue, or thrown away (244-262) |
| `ReadEnd` | the end of the file: the null packets, once, and the wait (226-242) |
| `ReadFails` | a read that fails otherwise: only the wait |
| `ReadBreaks` | an I/O error: perhaps null packets, the file is closed, the thread ends (236-238, 268-270) |
| `WaitEnds` | the ten-second `wait_for`, which nobody cuts short (220, 240) |
| `getPacket` | a decode thread takes a packet |
| `RequestSeek` | whoever sets `seekReq` |

`init()` stores the stream indexes it finds in `streamsIndex`, while the loop uses
three other fields, which nothing assigns, as nothing assigns `eof` or, unless the
stream is live, `infiniteBuffer`. `Init` lets each be what it should be or
something else (`Garbage`), with `present` the streams found; where the code then
looks into the `AVStream` of a stream that was not found, the process ends
(`ThrottleCrashes`, `RouteCrashes`). It may also end at a failed seek, whose message
hands a `std::string` to a `%s` (line 185).

A failed read is taken for the end of the file if `avio_feof()` says so (line 227).
The model lets it say so at the end of the file and with an I/O error. Before the
last packet it is true in a truncated file too, if the demuxer of its format seeks
back for packets it passed: `ReadFails` leaves that out, since the file is here what
can be read of it.

The throttle limits live streams only. `LiveBounded` is what it does to their queues;
the comment above it wants the opposite, which is `LiveServedAlone` and fails
(`live_stream`).

One pass is several steps, with the decode threads between them. Two things are
one step though the code does them piecewise, and other threads could tell:

* `Seek` flushes the three queues and `ReadEnd` puts up to three null packets,
  one queue after another. Each queue has its own decode thread and no property
  relates what two of those see at one moment.
* `Throttle` reads the three queues without their locks. Only the demuxer thread
  adds to a queue, so what is read of one can only become less while the next is
  read: the outcome "enough" was true at the first read, and "not enough" is true
  at the last.

`FeedSpec` says what all this amounts to for the decode threads: each is given the
packets of its stream one after the other from the last seek on, none left out,
and then one null packet, at the stream's end or once the file is closed. The
mapping takes `start`, `got[s]` and `pc = "closed"` for the abstract variables, and
for a stream's packets those that `QueueOf` sends to its queue, which with a wrong
index may be another stream's or none.

`streamSeek()` and `setPaused()` are empty. Seeks are modelled, as requests from
outside; the pause (lines 154-164) is not, since `paused` never changes.

### SoftDecoder

`thread` says where `decodeThread` is, `pkt`, `pktSerial` and `frame` are its
locals, `frames` is the frame queue as the bounded FIFO that `FrameQueue`
implements, `currentSerial` is `DataStreamContext`'s, which `make_shared`
initialises to zero. `staleSent` is history.

| Action | Code (`SoftDecoder.cpp`) |
|---|---|
| `Launch`, `LaunchCrashes` | the thread is started and its locals are new; or the stream it reads first has been freed by the demuxer, which closed the file (132-140) |
| `ReceiveFrame`, `ReceiveEnd`, `ReceiveAgain` | `avcodec_receive_frame` gives a frame; the end, so the codec is flushed and the thread returns; or nothing (147, 176-183) |
| `Push` | waits for a slot, fills and pushes it, and returns (152-182) |
| `Get`, `GetPending` | the next packet from the queue, or the pending one (186-195) |
| `Check` | `validSerial`, else back for another packet (196) |
| `Send` | `avcodec_send_packet` and the way back (198-206) |
| `incrementSerial` | of `DataStreamContext` |
| `Take` | the showing thread takes a frame |

The codec (`HasFrame`, `Accept`) is FFmpeg's contract: it holds back up to `Delay`
frames, gives all of them after a null packet and then reports the end, refuses a
corrupt packet, and takes a packet whenever it has no frame to give, so the
branch for `EAGAIN` after both calls (198-202) is not reached. `packetPending`
starts as anything and, when it happens to be set, `pendingPkt` is not there
(`GetPending`). The serial of a packet is whatever the memory of its list node held,
any of `NodeSerials`, since `putPrivate` never sets it (`PacketQueue.cpp:46-50`).

`decodeThread` returns after each frame. `start()` would start it only if it were
running, so nothing starts it, nor starts it again; the model has `Launch` do
that, owes it nothing, and `AllShown` says what follows if it is done.

### Playback

`INSTANCE`s of `Demuxer` and `SoftDecoder` share the video queue (`source`); the
demuxer knows its indexes, and the file is a local one with a video only. A
packet carries the number of seeks that preceded its reading (`epochs`), which is
history and lets `Shows` tell frames of before the last seek from others. `shown`
and `oldShown`, history as well, say what has been shown since that seek of after
and of before it.

Nothing flushes the codec, the decode thread's packet or the frame queue on a seek,
so what is on its way is shown after it. `Screen` is what a viewer can rely on all
the same: at most `Capacity + Delay + 1` frames of before the seek, all of them
before the first one of after it, then the frames from its place on, in order and
each once. No frame comes before those that precede it, except such as were lost on
the way: `Check` throws a packet away whose serial is not the current one, be it that
the serial changed or that the list node happened to hold another. `thrown`, history
too, collects those of after the seek, and is what `Screen` calls `lost`; a packet may
only be lost after all that has been seen. `NothingLost` adds to the order that nothing
stays behind: when queues, codec and thread are empty, exactly what was read, can be
decoded and was not thrown away has been shown. `AllShown` says that this happens, up
to the end of the file, unless the null packet itself was thrown away, without which
the codec keeps its last frames. All three are exact about what is missing: only a
packet of another serial may be.

Starting the decode thread is safe until the demuxer has closed the file; after that
the start may read a freed stream, which ends the process (`LaunchCrashes`).

### PlayerManager

`pInstance`, `managers`, `playerMap` and the players are the program's state,
`pc`, `mgr` and `held` are the clients': where each one is in an entry point,
what `instance()` gave it, and which port it believes is its own. A manager
method is one action since it holds `playerMapMutex` throughout; `instance()`
is a test, a construction and a second read of the pointer. A client asks for a
port only when it holds none.

After `closeFile` a client either considers its port gone or goes on with it until it
releases it, which is what the header suggests; `kept`, history, says whether any
client ever did the latter. The clients start without a singleton, so that their
first calls race to construct it. Both can make two clients use the same port:
`PortExclusive` and `UsedPortHasPlayer` exempt just these two (`OneManager`, `~kept`),
each of which has a run that shows it happen; `MapsSound` exempts neither.

`getFreePort` puts a player on every free port, so after the first call one port
after another circulates only as it is released or closed.

What `Player` and `Demuxer::init()` do is reduced to whether the call comes
back. With a file that can be opened, `init()` uses a context that `checkUrl()`
has closed; `play` on any mapped port dereferences a missing demuxer or
context (`Player.cpp:37`). Both end the process in the model.

### VideoThread

The queue is the abstract one (`Chan`, retaining): `FrameQueue_refines` is what
licenses that. Time is in ticks, and only `lag`, the system time minus
`frameTimer`, is kept. `FrameDue` is one pass of the loop that finds the time
come: both durations, the advance of `frameTimer` and its reset.
`NextFrame` and `Callback` are the steps after it, since the decode thread may
push in between. `DropStale` is the pass that meets a frame of another serial.
A pass that finds the frame not due changes nothing and has no action.

`frameTimer` is an uninitialised `double` and `timer` says what it is at first. While
it is NaN every comparison with it is false: frames are shown as they come, and it is
never reset. While it is infinite no time is late enough: nothing is shown. Either
lasts until a frame follows one of another serial, which sets it to the system time.
Minus infinity is a number long past: it is reset by the first frame with a delay.

`ahead` is a history variable: the largest, over all runs of frames that end
with the one shown last, of the frames' delays minus the time they took; frames shown
while `frameTimer` is not a number have no pace and are not counted.

Left out: the late-drop branch (`Player.cpp:143`), which needs a master other
than the video clock, and `getMasterSyncType()` returns nothing else; the work
state, which is set to PLAYING and never changed; the clocks and
`streamTogglePause`, which no decision in this loop reads and which `Clocks`
models.

### Clocks

`pts`, `ptsDrift`, `lastUpdated`, `speed` and `clockPaused` are the fields of
the three `Clock` objects as functions of the clock type, `paused`, `step` and
`frameTimer` the player's. Time is in ticks and absolute here, because readings
and `lastUpdated` are what the properties are about.

| Action | Code |
|---|---|
| `ShowFrame` | a due frame: `frameTimer`, its reset, and the video and external clock set to the pts unless it is missing (`Player.cpp:122-137`) |
| `AfterFrame` | after `next()`: in step mode `streamTogglePause()` unless paused (`Player.cpp:155-160`) |
| `CallTogglePause` | `streamTogglePause()`, a public method, called from elsewhere |
| `setClockSpeed` | `Clock::setClockSpeed` of the external clock, the only one the header means it for |
| `Tick` | system time passes |

`setClocks` sets several clocks in one step; a clock that is set to another's
reading is set to what that one shows at the same system time. Each method is
one action and reads one system time: the clocks have no lock, and the methods
of the clocks are meant for the showing thread and a caller that pauses, whose
overlaps are not modelled. `paused`, `step` and `frameTimer` are uninitialised
in the code and a free choice in `Init`, `frameTimer` among the numbers. A frame's
delay is any of `Delays`, none included, and it may be of another serial than the
one before it, which sets `frameTimer` to the system time; how delays and serials
come about, and a `frameTimer` that is not a number, is in `VideoThread`. `lagShown`,
history, is how far `frameTimer` was behind when the frame on show was shown.

`streamTogglePause` sets the video clock running before it reads it
(`Player.cpp:71-72`), so on a resume the video clock jumps forward by the length
of the pause until the next frame sets it. The external clock does not: that is
what `ExternalClockSpec` says.

**The wiring the model assumes.** In the program as it stands the thread is
never started: `play` ends the process first, the constructor of `Player` sets
`_vidSoftDecoder` to null, and `SyncManager` never creates its clocks. The
modules `FrameQueue`, `VideoThread`, `Demuxer`, `SoftDecoder` and `Playback`
model the classes and the loops with their collaborators in place: queues that
work, a codec that is open, threads that are started. What the code leaves uninitialised even then,
`frameTimer`, the slots' and the packets' `serial`, the demuxer's stream indexes
and flags, `packetPending`, is a free choice in `Init` or where it is first read.

## What is checked

| Run | Instance | Shows |
|---|---|---|
| `frame_queue` | init(16, 1), 36 frames | types, the inductive invariant, order, no shared slot, retained frame intact, callback's frame intact, `peekNext` is the successor, no lost wakeup; every frame is taken; implements the FIFO |
| `ports` | 2 clients, 3 ports, first calls race | whatever races and whatever is done with closed ports, no map entry points to a deleted or foreign player; with one manager and while nobody goes on with a closed port, a port has one user and a live player told that port |
| `clocks` | 3 kinds of pts, 3 delays (one of them none), changes of serial, 2 speeds, 9 ticks | the clocks stay consistent with the pause and the frame on show; the external clock implements the media clock; a resume keeps the pace |
| `demuxer` | 3 packets of any streams, live or not, right or wrong indexes, 1 seek, 1 fault | each queue holds what is due of its stream and nothing else; not all queues grow; a live stream's do not exceed the limit; each decode thread is fed as `PacketFeed` says; the file is read to its end, whoever takes |
| `playback` | 5 packets of video, one corrupt, each with serial 0 or 1, 1 seek, 1 change of serial, 1 fault | at most one packet of another serial is sent; frames of before a seek are bounded by what decoder and frame queue hold; what is shown after it is in order, once and without a gap but for the packets thrown away (`Screen`); nothing else read is forgotten when the threads have nothing left to do; all other frames after it are shown |
| `video_pacing` | 4 frames, 3 slots, 4 kinds of pts, `frameTimer` a number, NaN or infinite | never ahead by more than the threshold, only frames of another serial are passed over, all leave and the others are shown unless an infinite `frameTimer` stays, the callback's frame is retained |

The other runs each end in a counterexample, a disagreement between the code
and what the repository says of it:

| Run | Disagreement |
|---|---|
| `packet_put` | the first `put` writes through a null pointer; the unit test expects 0 |
| `singleton_race` | two first calls construct two managers |
| `close_then_release` | `closeFile` frees the port, `releasePort` is documented to; two clients get the same port |
| `live_stream` | the comment above the throttle says that the queues of a live stream are not limited; the test limits theirs and no others, and when nobody takes its audio a live stream's video is not read to the end |
| `step_mode` | in single-frame mode the player is paused after a frame, and the loop, which does not test `paused`, shows the next one |
| `video_serial` | a frame is dropped for a serial that decoding never set |

Others were met and have no run, because a reading of the code shows as much:

* Opening a file that can be opened uses the context that `checkUrl()` has closed
  (`Demuxer.cpp:37`, `:63`), where `Demuxer.h:49` promises success. `PlayerManager`
  models it as the end of the process (`DemuxerInitCrashes`).
* `PacketQueue::abort()`, "exit" in the header, does not end a blocked
  `getPacket()`: the flag and the signal are commented out (`PacketQueue.cpp:125`).
* One `getFreePort` creates a player on every port (`PlayerManager.cpp:13`), so the
  next caller is told that none is available.
* `PacketQueue.h` says of a node's serial that it is the logical stream of its packet;
  `putPrivate` never sets it (`PacketQueue.cpp:46-50`). `playback` has every choice of
  it, and its properties say which packets are missed for it.
* `Demuxer.cpp:218` says 10 ms; line 220 waits ten seconds.

### Bounds, and why they are enough

* `frame_queue`: the array has its real size, 16, and the parameters are those
  of the only call of `init` (`SoftDecoder.cpp:49`). 36 frames wrap both indexes
  twice. The state depends on the indexes and their distance, and the proofs
  cover every other size and length, and a queue that retains no frame.
* `ports`: two clients give every race between two calls, and one port more than
  clients makes "the last free port" and "no free port" differ. `MaxPlayers`
  leaves room to fill both managers' maps once and to hand ports out again; it only
  bounds `getFreePort`.
* `video_pacing`: four frames contain a reset of `frameTimer`, a run after it
  and a change of serial in both directions. The pts give each kind of step:
  shorter than the frame duration, longer than the threshold, beyond the
  maximum, backwards, missing. `MaxLag` exceeds every sum the loop compares, so
  larger differences act alike; it is also where `lag` and `ahead` stop.
  `TimerKinds` has every kind of `double`.
* `demuxer`: three packets over three streams give every interleaving of streams
  in a file, a stream that ends early or has no packet, and, with `MIN_FRAMES` 1,
  queues on either side of the throttle's limit; `Second` makes the duration
  matter for two streams and the number alone for the third. `MAX_QUEUE_SIZE` 3
  is passed by two packets of size 2. One seek and one fault fall before, within
  and after reading; a second of either starts from a state like one of these, and
  the proofs cover any number. `MCGarbage` has an index that is right, another
  stream's, shared by two and nobody's.
* `live_stream`: the same file without seeks and faults and with the right indexes,
  so that nothing but the throttle can hold the video back.
* `playback`: five packets are what the video queue, the codec (`Delay` 1), the
  decode thread and the frame queue (`Capacity` 1) hold together, so that a seek
  can find all of them full and the bound of `OldFramesBounded` is reached. Each
  packet carries serial 0 or 1 (`NodeSerials`), and the current serial goes from 0 to
  1 at any moment: a packet may be right at first and wrong later, the other way
  round, or change while it is in the thread's hands. One seek finds any of this; that
  a second one may come while frames of before the first are still on their way is
  beyond what a run can enumerate, and the proofs cover any number of seeks, changes
  of serial and faults, and any serials.
* `clocks`, `step_mode`: `MaxTime` leaves room for several pauses of different
  lengths before, between and after frames, and `SyncMax` lies between the two
  positive delays so that `frameTimer` is sometimes reset and sometimes not; with no
  delay it never is. The proofs cover every other value.

### Fairness

The threads are plain detached `std::thread`s, so the model assumes that each
is scheduled: weak fairness of the decode thread's and the showing thread's
steps, each taken whole. `qmutex` is held for a few instructions, never across
a wait. Spurious wakeups are possible and never owed. In `VideoThread` time
passes (`WF` of `Tick`). `Clocks` and `PlayerManager` state no liveness and
assume no fairness, nor does `PacketQueue`.

In `Demuxer` the demuxer thread is scheduled (`WF` of `Loop`, which includes that
`wait_for` returns: it has a timeout) and so is the video's decode thread. The
audio's and the subtitles' are not assumed: the repository has no decoder for
either. `VideoServedAlone` is about this; `EveryStreamServed` takes fairness of
all three as its hypothesis. In `Playback` the demuxer, the decode thread once it
runs, and the showing thread are scheduled; that the decode thread is started
again is the hypothesis of `AllShown`. No fairness is assumed of seeks, faults or
changes of serial.

Deadlock is not checked where the system may stop: when the stream has ended,
and after a null dereference. That no thread waits for ever before is
`NoLostWakeup` and `AllFramesTaken`.

## What is proved

All proofs are checked by TLAPS to the last leaf. The only assumptions are the
named ones on the constants, which TLC evaluates on each run.

**FrameQueue** (`QueueAssumption`: sizes are naturals and at least one slot, two
with a retained frame, is in use; the code does not check this).
The inductive invariant is `RingInv`. The properties are not inductive, because
each speaks of one or two slots while the next step exposes another.
`RingInv` says what all slots hold at once: with `occupied`, which is `size`
corrected by a half-done `push()` or `next()`, the slots from `rindex` on hold
consecutive frame numbers (`FramesConsecutive`), `windex` is the slot after them
(`WriteIndexFollows`), the front one is the retained one if there is one
(`ShownIsFirst`), and each thread in the middle of a call has the room or the
frame it was promised (`WriterHasRoom`, `ReaderHasFrame`); these last are stable
since only the other thread's steps could take it away, and those only move
`size` in the harmless direction. From it follow `TypeCorrect`, `PeeksInOrder`,
`SlotsNotShared`, `RetainedFrameSafe`, `CallbackFrameSafe`, `SuccessorSafe`,
`WakeupsNotLost`.

`ImplementsChannel` maps the state to the abstract queue (`chanQueue` lists the
slots that `size` shows and a half-done `next()` has not left, `chanKept` the
retained frame, `chanSent` the frames pushed). `PushSize` is the abstract Send,
`NextMarksShown` and `NextIndex` are Take, and every other step is a stutter.

**PlayerManager** (`ManagerAssumption`). `PortsNeverShared` rests on an invariant in
two layers. As long as one manager was constructed, every call that got past
`instance()` reaches it (`FirstManagerReached`); a second one can only add to
`managers`, so the premise is never won back. As long as nobody has gone on with a
closed port either, a port in use is mapped in it (`OwnedPorts`), and getting a port
means getting an unmapped one. The runs `singleton_race` and `close_then_release`
show that neither premise holds always. `MapsAlwaysSound` needs neither: its
invariant `MapInv` adds that managers are numbered as they are made, that live
players are among the allocated ones, and that two ports never share a player, which
rests on `getFreePort` numbering the players it makes injectively (`NewPlayers`).
`UsedPortsHavePlayers` combines the two.

**Demuxer** (`DemuxerAssumption`). Four facts beside the types make the invariant.
For `QueuesAreSegments`: null packets are queued only when the file is read to its
end and `eof` says so, so a second batch cannot follow the first and nothing can
be put after one; and what was taken was read. With these each step moves a queue
and what is due of its stream together. For `OneQueueShort` and
`LiveQueuesBounded`: between the throttle's verdict and the read it allows, a
queue was found short, or the total not too large, and the decode threads cannot
undo that, since they only take.

`DemuxerFeedsDecoders` needs nothing more. A packet taken is the first of its queue;
`QueueIsFileSegment` makes it the least of what is due, and what is not read yet
comes later in the file (`AwaitedFacts`, `GetFeeds`). A null packet taken is alone
in its queue, so nothing is due, and `NullMeansEof` says that nothing is left to read
either, or that the file is closed. `Seek` is the abstract Seek, `ReadBreaks` the
abstract Break, and every other step, and another stream's decode thread, a stutter.

**VideoThread** (`PaceBounded`). `PaceInv` adds to `ahead <= SyncMax` that
`ahead + lag <= SyncMax`: while `frameTimer` only advances, `lag` loses what
`ahead` gains, and a reset, which sets `lag` to 0, happens only when more than
`SyncMax` of lag was there to be lost. While `frameTimer` is not a number
frames change neither, and when it becomes one `lag` starts from 0. `CallbackSafe` rests on the frame peeked
staying first in the queue until `next()`, whatever the decode thread sends.
`OnlyStalePassedOver` uses `OrderInv`: the queue holds the frames after the one
taken last, without a gap, and every frame taken since the last one shown is of
another serial.

**Playback** (`PlaybackAssumption`). `OldFramesAreFew` counts nothing: `OldAhead`
gives every frame and packet on its way its place in line, through the frame queue,
the decode thread's hands and the codec, and says that one of before the last seek
which is n-th in line has `oldShown + n <= Capacity + Delay + 1`. Showing a frame
moves all others forward by one and raises `oldShown` by at most one; decoding moves
nothing; new packets are never old, since a seek leaves nothing in the video queue
(`FreshQueue`); and at a seek, when everything becomes old at once, the line is no
longer than that (`Room`). `StaleSentOnce` needs that the first packet which lost its
serial between check and use finds `staleSent` at zero (`FirstStale`).

`PlaybackImplementsScreen` and `NothingIsLost` rest on the invariant `Refined`.
The types and counts above cannot say which frames are where, so it joins the frame
queue, the frame in the decode thread's hands, the codec and the packet in its hands
to one sequence, `Line`, nearest to the screen first. `QueueRuns` says that the video
queue goes on where the line ends, packet by packet up to `pos`, with perhaps the
null packet after. Of the line, `LineOrdered` says that behind a packet of after the
last seek there are only such, later in the file; `LineCurrent` that these were taken
from the queue and come after everything shown, and that nothing of before the seek
is left once something of after it was shown; `LineThrown` that what was thrown away
had been taken, and is neither shown nor in line; `LineKeepsAll` that whatever was
taken and can be decoded has been shown, was thrown away or is in line. The steps of the
decode thread move the boundary between the parts and keep the line, or let its last
packet go (a corrupt or null one, or one of another serial); `GetPacket` appends the
next packet of the queue; `Shows` takes the first; a seek changes nothing in the line
but makes all of it old, with `shown` empty. `Shows` is then the abstract ShowNext or
ShowOld, `Seeks` the abstract Seek, a `Check` that throws a packet of after the seek
away is Lose, and every other step a stutter. With `Line` and the video queue empty, `LineKeepsAll` is
`NothingLost`.

**Clocks** (`ClocksAssumption`). `Inv` is `TypeOK` and `ClocksInv`: `ptsDrift`
is `pts - lastUpdated`, a clock is paused only while the player is, and the
video clock was last set when the frame on show was shown, or by a resume that
moved `frameTimer` as far: the distance of the two is still `lagShown`
(`SetWithFrame`). From the last follows `PaceSurvivesPause`, for any delays, none
included, and any number of pauses between two frames.
`ExternalIsMediaClock` maps the external clock's reading, as `getClock` computes
it, to the abstract one: a frame is the abstract Set; `streamTogglePause` and
`setClockSpeed` first set the clock to what it shows, so that the reading is
unchanged when its pause or its speed changes (`SetReads`); and a tick moves the
computed reading by the speed (`TickMedia`), since
`(n + 1 - u)(1 - s) = (n - u)(1 - s) + (1 - s)`.

Only model-checked: everything under fairness (`AllFramesTaken`,
`AllFramesLeave`, `CurrentFramesShown`, `VideoServedAlone`, `EveryStreamServed`,
`AllShown`, the liveness half of `ChannelSpec`; `PacketFeed` and `Screen` have
none), which is out of this prover's reach. Every invariant the runs check is
proved, and so is every refinement's safety part.

## What is not modelled

* `pause`, `seek`, `speed`, `OneByOne` of `Player`, the audio thread,
  `setPaused` and `streamSeek` of the demuxer: they return at once. The demuxer's
  pause branch is never taken for that reason.
* What `init()` of demuxer and decoder sets up in FFmpeg. `SoftDecoder::init` frees
  its codec context when all is well (the test at line 56 is inverted) and never
  opens the codec; the model has a codec that works. With one that does not,
  `avcodec_receive_frame` fails and the loop at line 183 spins.
* Files that grow while they are read, after whose end `av_read_frame` gives
  packets again, and truncated ones whose demuxer seeks back after it has met the end
  of the bytes (`ReadFails`).
* Memory running out in `put`, except in `PacketQueue`: the demuxer would go on with
  a gap in the stream.
* `addListener` and the notifications: nobody registers, and the handlers are
  empty. The wrap-around of the serial.
* `FrameQueue::destory`, the destructors: nothing calls the first, and the
  others run after the threads.
* `Clock::initClock`, which sets a clock to NaN: nothing calls it. The
  fall-through in `SyncManager::syncClockToSlave`, which would set further clocks
  when the audio or the video clock is synchronised: only the external one is.
* Two producers on one frame queue, and a `Player` deleted under its thread: the
  first never happens in the repository, and the process ends before a thread of
  the second is started.
* FFmpeg: its calls are outcomes.

## How the modules were ordered, and what would come next

The queues and the ports came first, then the showing thread and the clocks, then
the demuxer, the decode thread and their composition. What is left waits for code:
the audio path and the hardware decoders (empty files), pause, seek, speed and
single steps through `Player` (stubs), and the listeners of the serial. When
`streamSeek` is written, `RequestSeek` becomes its body; when a seek increments
the serial and packets carry it, `MaxOld` of `Screen` can become zero: no frame of
before a seek is shown after it at all.
