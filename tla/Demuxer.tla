------------------------------- MODULE Demuxer -------------------------------
(***************************************************************************)
(* The demuxer thread (Demuxer::demuxerThread,                             *)
(* src/src/demuxer/Demuxer.cpp): it reads the file packet by packet into   *)
(* one queue per stream, waits when the queues hold enough, marks the end  *)
(* of the file with a null packet in each queue and serves seek requests.  *)
(* The decode threads, one per queue, take the packets.                    *)
(*                                                                         *)
(* A packet is its number in the file; the null packet, which ends the     *)
(* stream, is the number after the last.  The queues are as                *)
(* tests/PacketQueueTest.cpp wants them, first in first out, and have      *)
(* memory for every packet: the module PacketQueue shows what becomes of   *)
(* put() instead.                                                          *)
(***************************************************************************)
EXTENDS Integers, Sequences

CONSTANTS
    FileLen,          \* packets in the file
    MIN_FRAMES,       \* packets a queue must exceed to have enough
    MAX_QUEUE_SIZE,   \* size of all queues beyond which some are not read into
    PacketSize,       \* size of a packet with its list node
    NodeSize,         \* size of the list node, which is all of a null packet
    PacketDuration,   \* duration of a packet of each stream, 0 when unknown
    Second,           \* the duration that is enough
    Garbage,          \* bound: what else the stream indexes may hold
    None,             \* a negative stream index
    MaxErrors,        \* bound: reads and seeks that fail
    MaxSeeks          \* bound: seek requests

Streams == {"audio", "video", "subtitle"}
Packets == 1 .. FileLen
End     == FileLen + 1

ASSUME DemuxerAssumption ==
    /\ FileLen \in Nat \ {0} /\ MIN_FRAMES \in Nat \ {0} /\ MAX_QUEUE_SIZE \in Nat
    /\ PacketSize \in Nat /\ NodeSize \in 0 .. PacketSize
    /\ PacketDuration \in [Streams -> Nat] /\ Second \in Nat
    /\ None \notin Streams \cup {"other"}
    /\ Garbage \subseteq [Streams -> Streams \cup {"other", None}]
    /\ MaxErrors \in Nat /\ MaxSeeks \in Nat

VARIABLES
    file,             \* the stream each packet belongs to
    present,          \* the streams of the file, found by init()
    attachedPic,      \* is the video stream a still picture?
    index,            \* audioStreamIndex, videoStreamIndex, subtitleStreamIndex
    infiniteBuffer, eof,
    seekReq,
    pos,              \* the packet av_read_frame gives next
    queue,            \* audioQ, videoQ, subtitleQ
    pc,               \* where the thread is
    errors, seeks,    \* faults and requests so far
    start, got        \* where reading started or was last moved to, and what
                      \* was last taken of each stream since  (history)

media  == <<file, present, attachedPic, index, infiniteBuffer>>
faults == <<errors, seeks>>
vars == <<file, present, attachedPic, index, infiniteBuffer, eof, seekReq,
          pos, queue, pc, errors, seeks, start, got>>

TypeOK ==
    /\ file \in [Packets -> Streams \cup {"other"}]
    /\ present \subseteq Streams /\ attachedPic \in BOOLEAN
    /\ index \in [Streams -> Streams \cup {"other", None}]
    /\ infiniteBuffer \in BOOLEAN /\ eof \in BOOLEAN
    /\ seekReq \in BOOLEAN
    /\ pos \in 1 .. End /\ start \in 1 .. pos
    /\ queue \in [Streams -> Seq(1 .. End)]
    /\ pc \in {"top", "throttle", "read", "wait", "closed", "crashed"}
    /\ errors \in 0 .. MaxErrors /\ seeks \in 0 .. MaxSeeks
    /\ got \in [Streams -> 0 .. End]

\* The indexes the loop would need: init() finds them, and stores them
\* elsewhere.
Found(s) == IF s \in present THEN s ELSE None

\* infiniteBuffer is set for live streams; otherwise it, eof and the indexes
\* hold what memory held.
Init ==
    /\ file \in [Packets -> Streams \cup {"other"}]
    /\ present \in SUBSET Streams
    /\ \A f \in Packets : file[f] \in present \cup {"other"}
    /\ attachedPic \in BOOLEAN /\ (attachedPic => "video" \in present)
    /\ index \in Garbage \cup {[s \in Streams |-> Found(s)]}
    /\ infiniteBuffer \in BOOLEAN /\ eof \in BOOLEAN
    /\ seekReq = FALSE
    /\ pos = 1 /\ start = 1
    /\ queue = [s \in Streams |-> << >>] /\ got = [s \in Streams |-> 0]
    /\ pc = "top" /\ errors = 0 /\ seeks = 0

-----------------------------------------------------------------------------
(* The queues. *)

EndsIn(q) == q # << >> /\ q[Len(q)] = End

\* Data packets only: a null packet has neither size nor duration.
DataLen(q) == IF EndsIn(q) THEN Len(q) - 1 ELSE Len(q)

getDuration(s, q) == DataLen(q) * PacketDuration[s]
getSize(q) == DataLen(q) * PacketSize + (Len(q) - DataLen(q)) * NodeSize

TotalSize == getSize(queue["audio"]) + getSize(queue["video"]) + getSize(queue["subtitle"])

\* Mutant: the subtitles' queue is forgotten.
PutEndOfTwo(put) ==
    queue' = [s \in Streams |->
                 IF put /\ s # "subtitle" /\ index[s] # None THEN Append(queue[s], End) ELSE queue[s]]

\* The null packets put at the end, or none.
PutEnd(put) ==
    queue' = [s \in Streams |->
                 IF put /\ index[s] # None THEN Append(queue[s], End) ELSE queue[s]]

-----------------------------------------------------------------------------
(* One pass of the loop. *)

NoSeek ==
    /\ pc = "top" /\ ~seekReq
    /\ pc' = "throttle"
    /\ UNCHANGED <<media, faults, eof, seekReq, pos, queue, start, got>>

\* Mutant: the queues keep the packets of before the seek.
SeekUnflushed(target) ==
    /\ pos' = target /\ start' = target
    /\ eof' = FALSE
    /\ got' = [s \in Streams |-> 0]
    /\ UNCHANGED queue

\* Mutant: the position is rounded the wrong way.
SeekPast(target) ==
    /\ pos' = target + 1 /\ start' = target + 1
    /\ eof' = FALSE
    /\ got' = [s \in Streams |-> 0]
    /\ queue' = [s \in Streams |-> IF index[s] # None THEN << >> ELSE queue[s]]

\* The file is moved to target, and what was queued is thrown away.
SeekTo(target) ==
    /\ pos' = target /\ start' = target
    /\ eof' = FALSE
    /\ got' = [s \in Streams |-> 0]
    /\ queue' = [s \in Streams |-> IF index[s] # None THEN << >> ELSE queue[s]]

\* avformat_seek_file goes to a key frame near seekPos, wherever that was.
Seek ==
    /\ pc = "top" /\ seekReq
    /\ seekReq' = FALSE
    /\ \E target \in 1 .. End : SeekTo(target)
    /\ pc' = "throttle"
    /\ UNCHANGED <<media, faults>>

\* A seek that fails is tried again in the next pass, if the thread survives the
\* message: it is given an object, url, where it expects a pointer.
SeekFails ==
    /\ pc = "top" /\ seekReq
    /\ errors < MaxErrors /\ errors' = errors + 1
    /\ pc' \in {"throttle", "crashed"}
    /\ UNCHANGED <<media, seeks, eof, seekReq, pos, queue, start, got>>

Ignored(s) == index[s] = None \/ (s = "video" /\ attachedPic)

\* Mutant: packets without a duration are never enough.
HasLong(s, q) == Len(q) > MIN_FRAMES /\ getDuration(s, q) > Second

HasEnough(s, q) ==
    /\ Len(q) > MIN_FRAMES
    /\ getDuration(s, q) = 0 \/ getDuration(s, q) > Second

streamHasEnoughPackets(s) == Ignored(s) \/ HasEnough(s, queue[s])

\* Mutant: the size is not looked at.
NeverTooLarge == FALSE

TooLarge == infiniteBuffer /\ TotalSize > MAX_QUEUE_SIZE

\* A stream that has an index and was not found has no AVStream.
NoStream(s) == index[s] # None /\ s \notin present

\* The operands from left to right, up to the first that is false.
ThrottleCrashes ==
    /\ ~TooLarge
    /\ \/ NoStream("audio")
       \/ streamHasEnoughPackets("audio") /\ NoStream("video")
       \/ /\ streamHasEnoughPackets("audio") /\ streamHasEnoughPackets("video")
          /\ NoStream("subtitle")

Throttle ==
    /\ pc = "throttle"
    /\ pc' = IF ThrottleCrashes THEN "crashed"
             ELSE IF TooLarge \/ \A s \in Streams : streamHasEnoughPackets(s) THEN "wait"
             ELSE "read"
    /\ UNCHANGED <<media, faults, eof, seekReq, pos, queue, start, got>>

\* The queue a packet of stream n goes to, or none.
QueueOf(n) ==
    IF n = index["audio"] THEN "audio"
    ELSE IF n = index["video"] /\ ~attachedPic THEN "video"
    ELSE IF n = index["subtitle"] THEN "subtitle"
    ELSE None

\* The test for an attached picture looks into the video stream.
RouteCrashes(n) == n # index["audio"] /\ n = index["video"] /\ "video" \notin present

ReadPacket ==
    /\ pc = "read" /\ pos # End
    /\ eof' = FALSE
    /\ IF RouteCrashes(file[pos])
       THEN pc' = "crashed" /\ UNCHANGED <<pos, queue>>
       ELSE /\ pc' = "top" /\ pos' = pos + 1
            /\ queue' = [s \in Streams |->
                            IF s = QueueOf(file[pos]) THEN Append(queue[s], pos) ELSE queue[s]]
    /\ UNCHANGED <<media, faults, seekReq, start, got>>

PutsEnd == ~eof

\* The end of the file: null packets, once, and a wait.
ReadEnd ==
    /\ pc = "read" /\ pos = End
    /\ PutEnd(PutsEnd)
    /\ eof' = TRUE
    /\ pc' = "wait"
    /\ UNCHANGED <<media, faults, seekReq, pos, start, got>>

\* Mutant: a read that fails is taken for the end of the file.
ReadFailsAsEnd ==
    /\ pc = "read"
    /\ errors < MaxErrors /\ errors' = errors + 1
    /\ PutEnd(PutsEnd) /\ eof' = TRUE
    /\ pc' = "wait"
    /\ UNCHANGED <<media, seeks, seekReq, pos, start, got>>

\* A read fails and may be tried again.  avio_feof() is taken to be false: before
\* the last packet it is true only in a truncated file whose demuxer seeks back
\* for packets it skipped, and a file is here what can be read of it.
ReadFails ==
    /\ pc = "read"
    /\ errors < MaxErrors /\ errors' = errors + 1
    /\ pc' = "wait"
    /\ UNCHANGED <<media, seeks, eof, seekReq, pos, queue, start, got>>

\* An I/O error below.  avio_feof() is true as well, unless another try to read
\* succeeds, so null packets may be put before the thread closes the file and
\* ends.
ReadBreaks ==
    /\ pc = "read"
    /\ errors < MaxErrors /\ errors' = errors + 1
    /\ \E feof \in BOOLEAN : PutEnd(feof /\ PutsEnd) /\ eof' = (eof \/ feof)
    /\ pc' = "closed"
    /\ UNCHANGED <<media, seeks, seekReq, pos, start, got>>

\* Mutant: the wait has no timeout.
WaitForNobody == pc = "wait" /\ FALSE /\ UNCHANGED vars

\* Nobody notifies condContinueDemuxer: the wait ends after ten seconds.
WaitEnds ==
    /\ pc = "wait"
    /\ pc' = "top"
    /\ UNCHANGED <<media, faults, eof, seekReq, pos, queue, start, got>>

Loop == \/ NoSeek \/ Seek \/ SeekFails \/ Throttle
        \/ ReadPacket \/ ReadEnd \/ ReadFails \/ ReadBreaks \/ WaitEnds

-----------------------------------------------------------------------------
(* The others. *)

\* A seek is asked for when none is pending: what streamSeek() is declared for.
\* Its body is still empty, so the seeks are those of a caller to come.
RequestSeek ==
    /\ ~seekReq
    /\ seeks < MaxSeeks /\ seeks' = seeks + 1
    /\ seekReq' = TRUE
    /\ UNCHANGED <<media, errors, eof, pos, queue, pc, start, got>>

\* The decode thread of stream s takes a packet.
getPacket(s) ==
    /\ queue[s] # << >>
    /\ queue' = [queue EXCEPT ![s] = Tail(@)]
    /\ got' = [got EXCEPT ![s] = Head(queue[s])]
    /\ UNCHANGED <<media, faults, eof, seekReq, pos, pc, start>>

Next ==
    /\ pc # "crashed"
    /\ \/ Loop
       \/ RequestSeek
       \/ \E s \in Streams : getPacket(s)

\* The demuxer thread and the video's decode thread are scheduled.  The audio's
\* and the subtitles' need not be: the repository has no decoder for them.
Spec == Init /\ [][Next]_vars
             /\ WF_vars(pc # "crashed" /\ Loop)
             /\ WF_vars(pc # "crashed" /\ getPacket("video"))

-----------------------------------------------------------------------------
(* Properties. *)

\* The packets of stream s that were read since the last seek and not taken.
Due(s) == {f \in start .. pos - 1 : QueueOf(file[f]) = s /\ f > got[s]}

\* q is what is due, in order, and after it perhaps a null packet.
IsSegment(q, due) ==
    /\ \A i, j \in 1 .. Len(q) : i < j => q[i] < q[j]
    /\ \A i \in 1 .. Len(q) : q[i] = End \/ q[i] \in due
    /\ \A f \in due : \E i \in 1 .. Len(q) : q[i] = f

\* Whatever the order of reads, seeks, errors and decode threads, a queue holds
\* the packets of its stream, in the file's order, from the last seek or what
\* was taken since up to where the file is read, and after them at most one
\* null packet: nothing is lost, doubled, out of order or from before a seek.
QueueIsFileSegment ==
    \A s \in Streams :
        /\ IsSegment(queue[s], Due(s))
        /\ got[s] = End => queue[s] = << >>

\* Each decode thread is fed as the abstract specification says, whatever its
\* stream shares with others: the queues, the throttle and the reads that fail
\* cannot be told from what it gets.
PacketsOf(s) == {f \in Packets : QueueOf(file[f]) = s}

AudioFeed == INSTANCE PacketFeed WITH own <- PacketsOf("audio"),
    from <- start, last <- got["audio"], broken <- (pc = "closed")

VideoFeed == INSTANCE PacketFeed WITH own <- PacketsOf("video"),
    from <- start, last <- got["video"], broken <- (pc = "closed")

SubtitleFeed == INSTANCE PacketFeed WITH own <- PacketsOf("subtitle"),
    from <- start, last <- got["subtitle"], broken <- (pc = "closed")

FeedSpec == AudioFeed!Spec /\ VideoFeed!Spec /\ SubtitleFeed!Spec

\* n packets are too few of stream s.
TooFew(s, n) ==
    n <= MIN_FRAMES \/ (PacketDuration[s] > 0 /\ n * PacketDuration[s] <= Second)

\* The throttle works as a whole: of the streams that count, one always has a
\* queue that would be too short without its last packet, so that they do not
\* all grow, whatever is known of the packets' durations.
SomeQueueShort ==
    (\E s \in Streams : ~Ignored(s)) =>
        \E s \in Streams : ~Ignored(s) /\ TooFew(s, Len(queue[s]) - 1)

\* What the throttle does to live streams, and to them only (LiveServedAlone says
\* what it should do): their queues, for all that is taken meanwhile, exceed the
\* limit by no more than one packet, or the null packets.
LiveBounded ==
    infiniteBuffer => \/ TotalSize <= MAX_QUEUE_SIZE + PacketSize
                      \/ TotalSize <= MAX_QUEUE_SIZE + 3 * NodeSize

\* The thread is over, or does not wait for stream s.
Over(s) == pc \in {"closed", "crashed"} \/ Ignored(s)

\* A file is read to its end, null packet included, though nobody takes what
\* is read of the streams other than the video.
VideoServedAlone == <>[](Over("video") \/ infiniteBuffer \/ got["video"] = End)

\* If every stream has a decode thread, every stream is, live or not, read to
\* its end from the last seek on.
EveryStreamServed ==
    (\A s \in Streams : WF_vars(pc # "crashed" /\ getPacket(s)))
        => \A s \in Streams : <>[](Over(s) \/ got[s] = End)

-----------------------------------------------------------------------------
(* What the code does not keep. *)

\* The queues of a live stream are not limited: its video is read to the end,
\* though nobody takes what is read of the other streams.
LiveServedAlone == <>[](Over("video") \/ ~infiniteBuffer \/ got["video"] = End)
=============================================================================
