--------------------------- MODULE Playback_proofs ---------------------------
(***************************************************************************)
(* What is still decoded and shown after a seek or a change of serial, for *)
(* files of any length, queues and codecs of any size and any number of    *)
(* seeks, errors and changes of serial.                                    *)
(***************************************************************************)
EXTENDS Playback, TLAPS

\* Packets and frames on their way, corrupt and null packets included.
Sent == Nat \X (1 .. FileLen + 1)

\* The video queue holds nothing of before the last seek.
FreshQueue ==
    /\ index["video"] # None
    /\ epoch \in Nat /\ epochs \in Seq(Nat) /\ Len(epochs) = Len(queue["video"])
    /\ \A i \in 1 .. Len(epochs) : epochs[i] = epoch

DemuxControl ==
    /\ attachedPic \in BOOLEAN /\ infiniteBuffer \in BOOLEAN
    /\ eof \in BOOLEAN /\ seekReq \in BOOLEAN
    /\ pc \in {"top", "throttle", "read", "wait", "closed", "crashed"}
    /\ errors \in 0 .. MaxErrors /\ seeks \in 0 .. MaxSeeks

DemuxMedia ==
    /\ file \in [1 .. FileLen -> Demux!Streams \cup {"other"}]
    /\ present \subseteq Demux!Streams
    /\ index \in [Demux!Streams -> Demux!Streams \cup {"other", None}]

Queues == Seq(1 .. FileLen + 1)

DemuxData ==
    /\ pos \in 1 .. FileLen + 1 /\ start \in 1 .. pos
    /\ queue \in [Demux!Streams -> Queues]
    /\ got \in [Demux!Streams -> 0 .. FileLen + 1]

DecodeTypes ==
    /\ frames \in Seq(Sent) /\ codec \in Seq(Sent)
    /\ draining \in BOOLEAN /\ packetPending \in BOOLEAN
    /\ thread \in {"ended", "receive", "push", "get", "check", "send", "crashed"}
    /\ IF thread \in {"check", "send"} THEN pkt \in Sent ELSE pkt = Decode!none
    /\ IF thread = "push" THEN frame \in Sent ELSE frame = Decode!none
    /\ pktSerial \in NodeSerials \cup {0}
    /\ currentSerial \in 0 .. MaxSerial /\ staleSent \in {0, 1}

\* The codec, with what the decode thread holds beside it, has room for Delay
\* frames and one on its way.
Room ==
    /\ Len(frames) <= Capacity
    /\ Len(codec) <= Delay + 1
    /\ thread # "receive" => Len(codec) <= Delay

\* A packet that lost its serial before it is sent is the first.
FirstStale == thread = "send" /\ pktSerial # currentSerial => staleSent = 0

Bound == Capacity + Delay + 1

\* The n-th frame to be shown from now.
MayBeOld(n) == oldShown + n <= Bound

Held == IF thread = "push" THEN 1 ELSE 0

\* All that was read before the last seek stands so far ahead that no more than
\* Bound frames of it can be shown.
OldAhead ==
    /\ oldShown \in Nat /\ MayBeOld(0)
    /\ \A i \in 1 .. Len(frames) : frames[i][1] # epoch => MayBeOld(i)
    /\ thread = "push" /\ frame[1] # epoch => MayBeOld(Len(frames) + 1)
    /\ \A i \in 1 .. Len(codec) : codec[i][1] # epoch => MayBeOld(Len(frames) + Held + i)
    /\ thread \in {"check", "send"} /\ pkt[1] # epoch => MayBeOld(Len(frames) + Len(codec) + 1)

DemuxInv  == DemuxMedia /\ DemuxControl /\ DemuxData
DecodeInv == DecodeTypes /\ Room /\ FirstStale
Inv == DemuxInv /\ FreshQueue /\ DecodeInv /\ OldAhead

-----------------------------------------------------------------------------
(* Constants and sequences. *)

LEMMA Constants ==
    /\ FileLen \in Nat \ {0} /\ Delay \in Nat /\ Capacity \in Nat \ {0}
    /\ MaxSerial \in Nat /\ MaxErrors \in Nat /\ MaxSeeks \in Nat
    /\ NodeSerials \subseteq Nat
  BY PlaybackAssumption DEF PlaybackAssumption, Decode!DecoderAssumption

LEMMA Appended ==
    ASSUME NEW S, NEW q \in Seq(S), NEW x \in S
    PROVE  /\ Append(q, x) \in Seq(S) /\ Len(q) \in Nat
           /\ Len(Append(q, x)) = Len(q) + 1 /\ Append(q, x)[Len(q) + 1] = x
           /\ \A i \in 1 .. Len(q) : Append(q, x)[i] = q[i]
  OBVIOUS

LEMMA Taken ==
    ASSUME NEW S, NEW q \in Seq(S), q # << >>
    PROVE  /\ Len(q) \in Nat \ {0} /\ Head(q) = q[1] /\ Head(q) \in S
           /\ Tail(q) \in Seq(S) /\ Len(Tail(q)) = Len(q) - 1
           /\ \A i \in 1 .. Len(Tail(q)) : Tail(q)[i] = q[i + 1]
  OBVIOUS

LEMMA Elements ==
    ASSUME NEW S, NEW q \in Seq(S)
    PROVE  \A i \in 1 .. Len(q) : q[i] \in S
  OBVIOUS

LEMMA Nothing == \A S : << >> \in Seq(S) /\ Len(<< >>) = 0
  OBVIOUS

LEMMA Cut ==
    ASSUME NEW q \in Seq(Nat), NEW n \in 0 .. Len(q)
    PROVE  /\ SubSeq(q, 1, n) \in Seq(Nat) /\ Len(SubSeq(q, 1, n)) = n
           /\ \A i \in 1 .. n : i \in 1 .. Len(q) /\ SubSeq(q, 1, n)[i] = q[i]
  OBVIOUS

LEMMA NoneIsNotSent == Decode!none \notin Sent /\ Decode!none[1] = 0
  BY DEF Decode!none, Sent
-----------------------------------------------------------------------------
(* The demuxer's types. *)

\* The steps that leave the queues and the position alone.
Quiet ==
    \/ Demux!NoSeek \/ Demux!SeekFails \/ Demux!Throttle \/ Demux!ReadFails
    \/ Demux!WaitEnds \/ Demux!RequestSeek

DemuxStep ==
    \/ Quiet \/ Demux!Seek \/ Demux!ReadPacket \/ Demux!ReadEnd \/ Demux!ReadBreaks
    \/ Demux!getPacket("video")

LEMMA QuietStep ==
    ASSUME Quiet
    PROVE  UNCHANGED <<Demux!media, pos, queue, start, got>>
  BY DEF Quiet, Demux!NoSeek, Demux!SeekFails, Demux!Throttle, Demux!ReadFails,
         Demux!WaitEnds, Demux!RequestSeek

LEMMA MediaStep ==
    ASSUME DemuxMedia, DemuxStep
    PROVE  DemuxMedia' /\ UNCHANGED <<attachedPic, infiniteBuffer, index>>
  BY QuietStep DEF DemuxStep, DemuxMedia, Demux!Seek, Demux!ReadPacket, Demux!ReadEnd,
                   Demux!ReadBreaks, Demux!getPacket, Demux!media

LEMMA ControlStep ==
    ASSUME DemuxMedia, DemuxControl, DemuxStep
    PROVE  DemuxControl'
  <1>1. /\ errors < MaxErrors => errors + 1 \in 0 .. MaxErrors
        /\ seeks < MaxSeeks => seeks + 1 \in 0 .. MaxSeeks
    BY Constants DEF DemuxControl
  <1>2. attachedPic' \in BOOLEAN /\ infiniteBuffer' \in BOOLEAN
    BY MediaStep DEF DemuxControl
  <1>3. CASE Demux!NoSeek \/ Demux!Throttle \/ Demux!WaitEnds
    BY <1>2, <1>3 DEF Demux!NoSeek, Demux!Throttle, Demux!WaitEnds, DemuxControl, Demux!faults
  <1>4. CASE Demux!SeekFails \/ Demux!ReadFails
    BY <1>1, <1>2, <1>4 DEF Demux!SeekFails, Demux!ReadFails, DemuxControl
  <1>5. CASE Demux!RequestSeek
    BY <1>1, <1>2, <1>5 DEF Demux!RequestSeek, DemuxControl
  <1>6. CASE Demux!Seek
    BY <1>2, <1>6 DEF Demux!Seek, Demux!SeekTo, DemuxControl, Demux!faults
  <1>7. CASE Demux!ReadPacket
    BY <1>2, <1>7 DEF Demux!ReadPacket, DemuxControl, Demux!faults
  <1>8. CASE Demux!ReadEnd
    BY <1>2, <1>8 DEF Demux!ReadEnd, DemuxControl, Demux!faults
  <1>9. CASE Demux!ReadBreaks
    <2>1. eof' \in BOOLEAN
      BY <1>9 DEF Demux!ReadBreaks, DemuxControl
    <2> QED
      BY <1>1, <1>2, <1>9, <2>1 DEF Demux!ReadBreaks, DemuxControl
  <1>10. CASE Demux!getPacket("video")
    BY <1>2, <1>10 DEF Demux!getPacket, DemuxControl, Demux!faults
  <1> QED
    BY <1>3, <1>4, <1>5, <1>6, <1>7, <1>8, <1>9, <1>10 DEF DemuxStep, Quiet

LEMMA DataStep ==
    ASSUME DemuxData, DemuxStep
    PROVE  DemuxData'
  <1>1. CASE Quiet
    BY <1>1, QuietStep DEF DemuxData
  <1>2. CASE Demux!Seek
    <2>1. PICK target \in 1 .. FileLen + 1 : Demux!SeekTo(target)
      BY <1>2 DEF Demux!Seek, Demux!End
    <2>2. pos' \in 1 .. FileLen + 1 /\ start' \in 1 .. pos'
      BY <2>1, Constants DEF Demux!SeekTo
    <2>3. << >> \in Queues
      BY Nothing DEF Queues
    <2>4. queue' \in [Demux!Streams -> Queues]
      BY <2>1, <2>3 DEF Demux!SeekTo, DemuxData
    <2>5. got' \in [Demux!Streams -> 0 .. FileLen + 1]
      BY <2>1, Constants DEF Demux!SeekTo
    <2> QED
      BY <2>2, <2>4, <2>5 DEF DemuxData
  <1>3. CASE Demux!ReadPacket
    <2>1. pos \in 1 .. FileLen + 1 /\ pos + 1 \in 1 .. FileLen + 1 /\ start \in 1 .. pos
      BY <1>3, Constants DEF Demux!ReadPacket, DemuxData, Demux!End
    <2>2. \A q \in Queues : Append(q, pos) \in Queues
      BY <2>1, Appended DEF Queues
    <2>3. queue' \in [Demux!Streams -> Queues]
      BY <1>3, <2>2 DEF Demux!ReadPacket, DemuxData
    <2>4. pos' \in 1 .. FileLen + 1 /\ start' \in 1 .. pos'
      BY <1>3, <2>1, Constants DEF Demux!ReadPacket
    <2> QED
      BY <1>3, <2>3, <2>4 DEF Demux!ReadPacket, DemuxData
  <1>4. CASE Demux!ReadEnd \/ Demux!ReadBreaks
    <2>1. \A q \in Queues : Append(q, FileLen + 1) \in Queues
      BY Constants, Appended DEF Queues
    <2>2. PICK put : Demux!PutEnd(put)
      BY <1>4 DEF Demux!ReadEnd, Demux!ReadBreaks
    <2>3. queue' \in [Demux!Streams -> Queues]
      BY <2>1, <2>2 DEF Demux!PutEnd, DemuxData, Demux!End
    <2> QED
      BY <1>4, <2>3 DEF Demux!ReadEnd, Demux!ReadBreaks, DemuxData
  <1>5. CASE Demux!getPacket("video")
    <2>1. queue["video"] \in Queues /\ queue["video"] # << >>
      BY <1>5 DEF Demux!getPacket, DemuxData, Demux!Streams
    <2>2. Tail(queue["video"]) \in Queues /\ Head(queue["video"]) \in 1 .. FileLen + 1
      BY <2>1, Taken DEF Queues
    <2>3. Head(queue["video"]) \in 0 .. FileLen + 1
      BY <2>2, Constants
    <2>4. queue' \in [Demux!Streams -> Queues]
      BY <1>5, <2>2 DEF Demux!getPacket, DemuxData
    <2>5. got' \in [Demux!Streams -> 0 .. FileLen + 1]
      BY <1>5, <2>3 DEF Demux!getPacket, DemuxData
    <2> QED
      BY <1>5, <2>4, <2>5 DEF Demux!getPacket, DemuxData
  <1> QED
    BY <1>1, <1>2, <1>3, <1>4, <1>5 DEF DemuxStep

LEMMA DemuxInvStep ==
    ASSUME DemuxInv, DemuxStep
    PROVE  DemuxInv' /\ UNCHANGED index
  BY MediaStep, ControlStep, DataStep DEF DemuxInv
-----------------------------------------------------------------------------
(* The video queue is of the last seek. *)

\* What a step of the demuxer other than a seek does to the video queue.
LEMMA ReadLength ==
    ASSUME DemuxInv, Reads
    PROVE  Len(queue'["video"]) \in {Len(queue["video"]), Len(queue["video"]) + 1}
  <1>1. "video" \in Demux!Streams /\ queue["video"] \in Queues
    BY DEF DemuxInv, DemuxData, Demux!Streams
  <1>2. \A x \in 1 .. FileLen + 1 : Len(Append(queue["video"], x)) = Len(queue["video"]) + 1
    BY <1>1, Appended DEF Queues
  <1>3. FileLen + 1 \in 1 .. FileLen + 1 /\ pos \in 1 .. FileLen + 1
    BY Constants DEF DemuxInv, DemuxData
  <1>4. CASE Quiet
    BY <1>4, QuietStep
  <1>5. CASE Demux!ReadPacket
    BY <1>1, <1>2, <1>3, <1>5 DEF Demux!ReadPacket
  <1>6. CASE Demux!ReadEnd \/ Demux!ReadBreaks
    BY <1>1, <1>2, <1>3, <1>6 DEF Demux!ReadEnd, Demux!ReadBreaks, Demux!PutEnd, Demux!End
  <1> QED
    BY <1>4, <1>5, <1>6 DEF Reads, Quiet

LEMMA FreshReads ==
    ASSUME DemuxInv, FreshQueue, Reads
    PROVE  FreshQueue'
  <1>1. index' = index /\ epoch' = epoch
    BY DemuxInvStep DEF Reads, DemuxStep, Quiet
  <1> DEFINE n == Len(queue'["video"])
             e == Append(epochs, epoch)
  <1>2. /\ e \in Seq(Nat) /\ Len(epochs) \in Nat /\ Len(e) = Len(epochs) + 1
        /\ \A i \in 1 .. Len(e) : e[i] = epoch
    BY Appended DEF FreshQueue
  <1>3. n \in 0 .. Len(e)
    BY <1>2, ReadLength DEF FreshQueue
  <1>4. epochs' = SubSeq(e, 1, n)
    BY DEF Reads
  <1> HIDE DEF n, e
  <1>5. /\ epochs' \in Seq(Nat) /\ Len(epochs') = n
        /\ \A i \in 1 .. n : i \in 1 .. Len(e) /\ epochs'[i] = e[i]
    BY <1>2, <1>3, <1>4, Cut
  <1>6. \A i \in 1 .. n : epochs'[i] = epoch
    BY <1>2, <1>5
  <1>7. Len(epochs') = Len(queue'["video"])
    BY <1>5 DEF n
  <1> QED
    BY <1>1, <1>5, <1>6, <1>7 DEF FreshQueue

LEMMA FreshSeeks ==
    ASSUME DemuxInv, FreshQueue, Seeks
    PROVE  FreshQueue'
  <1>1. index' = index /\ epoch' = epoch + 1
    BY DemuxInvStep DEF Seeks, DemuxStep
  <1>2. queue'["video"] = << >>
    BY DEF Seeks, Demux!Seek, Demux!SeekTo, FreshQueue, Demux!Streams
  <1>3. Len(queue'["video"]) = 0 /\ 0 \in 0 .. Len(epochs)
    BY <1>2, Nothing DEF FreshQueue
  <1>4. epochs' = SubSeq(epochs, 1, 0)
    BY <1>3 DEF Seeks
  <1>5. epochs' \in Seq(Nat) /\ Len(epochs') = 0
    BY <1>3, <1>4, Cut DEF FreshQueue
  <1> QED
    BY <1>1, <1>3, <1>5 DEF FreshQueue

\* The packet that the decode thread gets, and the queue after it.
LEMMA FreshGet ==
    ASSUME DemuxInv, FreshQueue, GetPacket
    PROVE  /\ FreshQueue' /\ pkt' \in Sent /\ pkt'[1] = epoch
           /\ pkt' = <<epoch, queue["video"][1]>>
  <1>1. index' = index /\ epoch' = epoch
    BY DemuxInvStep DEF GetPacket, DemuxStep
  <1>2. queue["video"] \in Queues /\ queue["video"] # << >>
    BY DEF DemuxInv, DemuxData, GetPacket, Demux!getPacket, Demux!Streams
  <1>3. queue'["video"] = Tail(queue["video"])
    BY DEF DemuxInv, DemuxData, GetPacket, Demux!getPacket, Demux!Streams
  <1>4. /\ Len(queue["video"]) \in Nat \ {0} /\ queue["video"][1] \in 1 .. FileLen + 1
        /\ Len(queue'["video"]) = Len(queue["video"]) - 1
    BY <1>2, <1>3, Taken DEF Queues
  <1>5. epochs # << >> /\ epochs \in Seq(Nat)
    BY <1>4, Nothing DEF FreshQueue
  <1>6. /\ Tail(epochs) \in Seq(Nat) /\ Len(Tail(epochs)) = Len(epochs) - 1
        /\ \A i \in 1 .. Len(Tail(epochs)) : Tail(epochs)[i] = epochs[i + 1]
    BY <1>5, Taken
  <1>7. epochs' = Tail(epochs)
    BY DEF GetPacket
  <1>8. FreshQueue'
    <2> SUFFICES ASSUME NEW i \in 1 .. Len(epochs')
                 PROVE  epochs'[i] = epoch
      BY <1>1, <1>4, <1>6, <1>7 DEF FreshQueue
    <2>1. i + 1 \in 1 .. Len(epochs)
      BY <1>4, <1>6, <1>7 DEF FreshQueue
    <2> QED
      BY <1>6, <1>7, <2>1 DEF FreshQueue
  <1>9. pkt' = <<epochs[1], queue["video"][1]>>
    <2>1. pkt' = Head(source)
      BY DEF GetPacket, Decode!Get
    <2>2. source \in Seq(Nat \X (1 .. FileLen + 1)) /\ source # << >>
          /\ source[1] = <<epochs[1], queue["video"][1]>>
      <3>1. \A i \in 1 .. Len(queue["video"]) :
               epochs[i] \in Nat /\ queue["video"][i] \in 1 .. FileLen + 1
        <4>1. \A i \in 1 .. Len(queue["video"]) : queue["video"][i] \in 1 .. FileLen + 1
          BY <1>2, Elements DEF Queues
        <4>2. \A i \in 1 .. Len(epochs) : epochs[i] \in Nat
          BY <1>5
        <4> QED
          BY <4>1, <4>2 DEF FreshQueue
      <3>2. \A i \in 1 .. Len(queue["video"]) :
               <<epochs[i], queue["video"][i]>> \in Nat \X (1 .. FileLen + 1)
        BY <3>1
      <3> QED
        BY <1>4, <3>2 DEF source
    <2> QED
      BY <2>1, <2>2
  <1>10. epochs[1] = epoch /\ epoch \in Nat
    BY <1>4 DEF FreshQueue
  <1> QED
    BY <1>4, <1>8, <1>9, <1>10 DEF Sent
-----------------------------------------------------------------------------
(* The decode thread. *)

LEMMA Lengths ==
    ASSUME DecodeInv
    PROVE  Len(frames) \in 0 .. Capacity /\ Len(codec) \in 0 .. Delay + 1
  <1>1. Len(frames) \in Nat /\ Len(codec) \in Nat
    BY DEF DecodeInv, DecodeTypes
  <1> QED
    BY <1>1, Constants DEF DecodeInv, Room

\* What moves a frame from the codec to the thread moves no frame in line.
LEMMA ReceiveFrameStep ==
    ASSUME DecodeInv, OldAhead, Decode!ReceiveFrame, UNCHANGED <<epoch, oldShown>>
    PROVE  DecodeInv' /\ OldAhead'
  <1>1. /\ thread = "receive" /\ thread' = "push" /\ frame' = Head(codec) /\ codec' = Tail(codec)
        /\ codec # << >>
        /\ UNCHANGED <<frames, draining, pkt, pktSerial, packetPending, currentSerial, staleSent>>
    BY DEF Decode!ReceiveFrame, Decode!HasFrame
  <1>2. /\ frame' = codec[1] /\ frame' \in Sent /\ codec' \in Seq(Sent)
        /\ Len(codec) \in Nat \ {0} /\ Len(codec') = Len(codec) - 1
        /\ \A i \in 1 .. Len(codec') : codec'[i] = codec[i + 1]
    BY <1>1, Taken DEF DecodeInv, DecodeTypes
  <1>3. DecodeTypes'
    BY <1>1, <1>2 DEF DecodeInv, DecodeTypes
  <1>4. Room' /\ FirstStale'
    BY <1>1, <1>2, Constants DEF DecodeInv, Room, FirstStale
  <1>5. epoch' = epoch /\ oldShown' = oldShown
    OBVIOUS
  <1>6. frame'[1] # epoch => MayBeOld(Len(frames) + 1)
    BY <1>1, <1>2, Lengths DEF OldAhead, Held
  <1>7. ASSUME NEW i \in 1 .. Len(codec'), codec'[i][1] # epoch
        PROVE  MayBeOld(Len(frames) + 1 + i)
    <2>1. i + 1 \in 1 .. Len(codec) /\ codec[i + 1][1] # epoch
      BY <1>2, <1>7
    <2>2. MayBeOld(Len(frames) + 0 + (i + 1))
      BY <1>1, <2>1 DEF OldAhead, Held
    <2> QED
      BY <2>2, Lengths DEF MayBeOld
  <1> QED
    BY <1>1, <1>3, <1>4, <1>5, <1>6, <1>7 DEF DecodeInv, OldAhead, MayBeOld, Held

LEMMA PushStep ==
    ASSUME DecodeInv, OldAhead, Decode!Push, UNCHANGED <<epoch, oldShown>>
    PROVE  DecodeInv' /\ OldAhead'
  <1>1. /\ thread = "push" /\ thread' = "ended" /\ frame' = Decode!none
        /\ frames' = Append(frames, frame) /\ Len(frames) < Capacity
        /\ UNCHANGED <<codec, draining, pkt, pktSerial, packetPending, currentSerial, staleSent>>
    BY DEF Decode!Push, Decode!codecVars
  <1>2. frames \in Seq(Sent) /\ frame \in Sent
    BY <1>1 DEF DecodeInv, DecodeTypes
  <1>3. /\ frames' \in Seq(Sent) /\ Len(frames) \in Nat /\ Len(frames') = Len(frames) + 1
        /\ frames'[Len(frames) + 1] = frame
        /\ \A i \in 1 .. Len(frames) : frames'[i] = frames[i]
    BY <1>1, <1>2, Appended
  <1>4. DecodeTypes'
    BY <1>1, <1>3 DEF DecodeInv, DecodeTypes
  <1>5. Room' /\ FirstStale'
    BY <1>1, <1>3, Constants DEF DecodeInv, Room, FirstStale
  <1>6. epoch' = epoch /\ oldShown' = oldShown
    OBVIOUS
  <1>7. ASSUME NEW i \in 1 .. Len(frames'), frames'[i][1] # epoch
        PROVE  MayBeOld(i)
    <2>1. CASE i \in 1 .. Len(frames)
      BY <1>3, <1>7, <2>1 DEF OldAhead
    <2>2. CASE i = Len(frames) + 1
      BY <1>1, <1>3, <1>7, <2>2 DEF OldAhead
    <2> QED
      BY <1>3, <2>1, <2>2
  <1>8. ASSUME NEW i \in 1 .. Len(codec), codec[i][1] # epoch
        PROVE  MayBeOld(Len(frames') + 0 + i)
    <2>1. MayBeOld(Len(frames) + 1 + i)
      BY <1>1, <1>8 DEF OldAhead, Held
    <2> QED
      BY <1>3, <2>1, Lengths
  <1> QED
    BY <1>1, <1>4, <1>5, <1>6, <1>7, <1>8 DEF DecodeInv, OldAhead, MayBeOld, Held

\* The packet takes the last place in the codec, or none.
LEMMA SendStep ==
    ASSUME DecodeInv, OldAhead, Decode!Send, UNCHANGED <<epoch, oldShown>>
    PROVE  DecodeInv' /\ OldAhead'
  <1>1. /\ thread = "send" /\ thread' = "receive" /\ pkt' = Decode!none
        /\ staleSent' = IF pktSerial # currentSerial THEN staleSent + 1 ELSE staleSent
        /\ UNCHANGED <<frames, pktSerial, frame, packetPending, currentSerial>>
    BY DEF Decode!Send
  <1>2. (codec' = codec \/ codec' = Append(codec, pkt)) /\ (draining' = TRUE \/ draining' = draining)
    BY DEF Decode!Send, Decode!Accept
  <1>3. codec \in Seq(Sent) /\ pkt \in Sent
    BY <1>1 DEF DecodeInv, DecodeTypes
  <1>4. /\ codec' \in Seq(Sent) /\ Len(codec) \in Nat
        /\ \/ Len(codec') = Len(codec)
           \/ Len(codec') = Len(codec) + 1 /\ codec'[Len(codec) + 1] = pkt
        /\ \A i \in 1 .. Len(codec) : codec'[i] = codec[i]
    BY <1>2, <1>3, Appended
  <1>5. staleSent' \in {0, 1}
    BY <1>1 DEF DecodeInv, DecodeTypes, FirstStale
  <1>6. DecodeTypes'
    BY <1>1, <1>2, <1>4, <1>5 DEF DecodeInv, DecodeTypes
  <1>7. Room' /\ FirstStale'
    BY <1>1, <1>4, Constants DEF DecodeInv, Room, FirstStale
  <1>8. epoch' = epoch /\ oldShown' = oldShown
    OBVIOUS
  <1>9. ASSUME NEW i \in 1 .. Len(codec'), codec'[i][1] # epoch
        PROVE  MayBeOld(Len(frames) + 0 + i)
    <2>1. CASE i \in 1 .. Len(codec)
      BY <1>1, <1>4, <1>9, <2>1 DEF OldAhead, Held
    <2>2. CASE i = Len(codec) + 1
      <3>1. MayBeOld(Len(frames) + Len(codec) + 1)
        BY <1>1, <1>4, <1>9, <2>2 DEF OldAhead
      <3> QED
        BY <2>2, <3>1, Lengths
    <2> QED
      BY <1>4, <2>1, <2>2
  <1> QED
    BY <1>1, <1>6, <1>7, <1>8, <1>9 DEF DecodeInv, OldAhead, MayBeOld, Held
\* The steps that move no frame.
LEMMA StillStep ==
    ASSUME DecodeInv, OldAhead, UNCHANGED <<epoch, oldShown>>,
           \/ Decode!ReceiveAgain \/ Decode!GetPending \/ Decode!Check
           \/ Decode!Launch \/ Decode!LaunchCrashes \/ Decode!incrementSerial
    PROVE  DecodeInv' /\ OldAhead'
  <1>1. UNCHANGED <<frames, codec, draining, frame, epoch, oldShown>>
    BY DEF Decode!codecVars, Decode!ReceiveAgain, Decode!GetPending, Decode!Check,
           Decode!Launch, Decode!LaunchCrashes, Decode!incrementSerial
  <1>2. CASE Decode!ReceiveAgain
    <2>1. /\ thread = "receive" /\ thread' = "get"
          /\ (codec = << >> \/ ~(Len(codec) > Delay))
          /\ UNCHANGED <<pkt, pktSerial, packetPending, currentSerial, staleSent>>
      BY <1>2 DEF Decode!ReceiveAgain, Decode!HasFrame
    <2>2. Len(codec) <= Delay
      <3>1. CASE codec = << >>
        <4>1. Len(codec) = 0
          BY <3>1, Nothing
        <4> QED
          BY <4>1, Constants
      <3>2. CASE ~(Len(codec) > Delay)
        BY <3>2, Constants, Lengths
      <3> QED
        BY <2>1, <3>1, <3>2
    <2>3. DecodeTypes'
      BY <1>1, <2>1 DEF DecodeInv, DecodeTypes
    <2>4. Room'
      BY <1>1, <2>1, <2>2 DEF DecodeInv, Room
    <2>5. DecodeInv'
      BY <2>1, <2>3, <2>4 DEF DecodeInv, FirstStale
    <2> QED
      BY <1>1, <2>1, <2>5 DEF OldAhead, MayBeOld, Held
  <1>3. CASE Decode!GetPending
    <2>1. /\ thread = "get" /\ thread' = "crashed"
          /\ UNCHANGED <<pkt, pktSerial, packetPending, currentSerial, staleSent>>
      BY <1>3 DEF Decode!GetPending
    <2>2. DecodeInv'
      BY <1>1, <2>1 DEF DecodeInv, DecodeTypes, Room, FirstStale
    <2> QED
      BY <1>1, <2>1, <2>2 DEF OldAhead, MayBeOld, Held
  <1>4. CASE Decode!Check
    <2>1. /\ thread = "check"
          /\ \/ pktSerial = currentSerial /\ thread' = "send" /\ pkt' = pkt
             \/ thread' = "get" /\ pkt' = Decode!none
          /\ UNCHANGED <<pktSerial, packetPending, currentSerial, staleSent>>
      BY <1>4 DEF Decode!Check, Decode!validSerial
    <2>2. DecodeInv'
      BY <1>1, <2>1 DEF DecodeInv, DecodeTypes, Room, FirstStale
    <2> QED
      BY <1>1, <2>1, <2>2 DEF OldAhead, MayBeOld, Held
  <1>5. CASE Decode!Launch
    <2>1. /\ thread = "ended" /\ thread' = "receive" /\ pktSerial' = 0
          /\ UNCHANGED <<pkt, packetPending, currentSerial, staleSent>>
      BY <1>5 DEF Decode!Launch
    <2>2. Room'
      BY <1>1, <2>1, Lengths DEF DecodeInv, Room
    <2>3. DecodeInv'
      BY <1>1, <2>1, <2>2 DEF DecodeInv, DecodeTypes, FirstStale
    <2> QED
      BY <1>1, <2>1, <2>3 DEF OldAhead, MayBeOld, Held
  <1>6. CASE Decode!incrementSerial
    <2>1. /\ currentSerial < MaxSerial /\ currentSerial' = currentSerial + 1 /\ staleSent' = 0
          /\ UNCHANGED <<thread, pkt, pktSerial, packetPending>>
      BY <1>6 DEF Decode!incrementSerial
    <2>2. currentSerial' \in 0 .. MaxSerial
      BY <2>1, Constants DEF DecodeInv, DecodeTypes
    <2>3. DecodeInv'
      BY <1>1, <2>1, <2>2 DEF DecodeInv, DecodeTypes, Room, FirstStale
    <2> QED
      BY <1>1, <2>1, <2>3 DEF OldAhead, MayBeOld, Held
  <1>7. CASE Decode!LaunchCrashes
    <2>1. /\ thread = "ended" /\ thread' = "crashed"
          /\ UNCHANGED <<pkt, pktSerial, packetPending, currentSerial, staleSent>>
      BY <1>7 DEF Decode!LaunchCrashes
    <2>2. DecodeInv'
      BY <1>1, <2>1 DEF DecodeInv, DecodeTypes, Room, FirstStale
    <2> QED
      BY <1>1, <2>1, <2>2 DEF OldAhead, MayBeOld, Held
  <1> QED
    BY <1>2, <1>3, <1>4, <1>5, <1>6, <1>7

LEMMA ReceiveEndStep ==
    ASSUME DecodeInv, OldAhead, Decode!ReceiveEnd, UNCHANGED <<epoch, oldShown>>
    PROVE  DecodeInv' /\ OldAhead'
  <1>1. /\ thread = "receive" /\ thread' = "ended" /\ codec' = << >> /\ draining' = FALSE
        /\ UNCHANGED <<frames, pkt, pktSerial, frame, packetPending, currentSerial, staleSent>>
    BY DEF Decode!ReceiveEnd
  <1>2. codec' \in Seq(Sent) /\ Len(codec') = 0
    BY <1>1, Nothing
  <1>3. DecodeInv'
    <2>1. DecodeTypes'
      BY <1>1, <1>2 DEF DecodeInv, DecodeTypes
    <2>2. Room' /\ FirstStale'
      BY <1>1, <1>2, Constants DEF DecodeInv, Room, FirstStale
    <2> QED
      BY <2>1, <2>2 DEF DecodeInv
  <1>4. epoch' = epoch /\ oldShown' = oldShown
    OBVIOUS
  <1>5. \A i \in 1 .. Len(codec') : FALSE
    BY <1>2
  <1> QED
    BY <1>1, <1>3, <1>4, <1>5 DEF OldAhead, MayBeOld, Held

\* A packet of after the last seek joins the line.
LEMMA GetStep ==
    ASSUME DemuxInv, FreshQueue, DecodeInv, OldAhead, GetPacket
    PROVE  DecodeInv' /\ OldAhead'
  <1>1. /\ thread = "get" /\ thread' = "check" /\ pktSerial' \in NodeSerials
        /\ UNCHANGED <<frames, codec, draining, frame, packetPending, currentSerial, staleSent>>
    BY DEF GetPacket, Decode!Get, Decode!codecVars
  <1>2. pkt' \in Sent /\ pkt'[1] = epoch
    BY FreshGet
  <1>3. epoch' = epoch /\ oldShown' = oldShown
    BY DEF GetPacket
  <1>4. DecodeInv'
    BY <1>1, <1>2 DEF DecodeInv, DecodeTypes, Room, FirstStale
  <1> QED
    BY <1>1, <1>2, <1>3, <1>4 DEF OldAhead, MayBeOld, Held

-----------------------------------------------------------------------------
(* The seek and the showing thread. *)

\* Whatever is on its way at a seek, there is room for no more than Bound.
LEMMA SeekStep ==
    ASSUME DecodeInv, OldAhead, Seeks
    PROVE  DecodeInv' /\ OldAhead'
  <1>1. oldShown' = 0 /\ UNCHANGED decodeVars
    BY DEF Seeks
  <1>2. DecodeInv'
    BY <1>1 DEF decodeVars, DecodeInv, DecodeTypes, Room, FirstStale
  <1>3. \A n \in 0 .. Bound : (MayBeOld(n))' /\ Bound \in Nat
    BY <1>1, Constants DEF MayBeOld, Bound
  <1>4. /\ 0 \in 0 .. Bound
        /\ \A i \in 1 .. Len(frames) : i \in 0 .. Bound
        /\ Len(frames) + 1 \in 0 .. Bound
        /\ \A i \in 1 .. Len(codec) : Len(frames) + Held + i \in 0 .. Bound
        /\ thread \in {"check", "send"} => Len(frames) + Len(codec) + 1 \in 0 .. Bound
    BY Lengths, Constants DEF Bound, Held, DecodeInv, Room
  <1>5. UNCHANGED <<frames, codec, thread, frame, pkt>> /\ Held' = Held
    BY <1>1 DEF decodeVars, Held
  <1>6. /\ (MayBeOld(0))'
        /\ \A i \in 1 .. Len(frames) : (MayBeOld(i))'
        /\ (MayBeOld(Len(frames) + 1))'
    BY <1>3, <1>4, <1>5 DEF MayBeOld
  <1>7. \A i \in 1 .. Len(codec) : (MayBeOld(Len(frames) + Held + i))'
    BY <1>3, <1>4, <1>5 DEF MayBeOld
  <1>8. thread \in {"check", "send"} => (MayBeOld(Len(frames) + Len(codec) + 1))'
    BY <1>3, <1>4, <1>5 DEF MayBeOld
  <1> QED
    BY <1>1, <1>2, <1>5, <1>6, <1>7, <1>8 DEF OldAhead, MayBeOld

LEMMA Nearer ==
    ASSUME NEW a \in Nat, NEW b \in Nat, NEW c \in Nat, NEW n \in Nat,
           b <= a + 1, a + (n + 1) <= c
    PROVE  b + n <= c
  OBVIOUS

\* Every frame in line moves one place forward.
LEMMA ShowStep ==
    ASSUME DecodeInv, OldAhead, Shows
    PROVE  DecodeInv' /\ OldAhead'
  <1>1. /\ frames # << >> /\ frames' = Tail(frames) /\ epoch' = epoch
        /\ UNCHANGED <<codec, draining, thread, pkt, pktSerial, frame, packetPending,
                       currentSerial, staleSent>>
    BY DEF Shows, Decode!Take, Decode!codecVars
  <1>2. /\ Len(frames) \in Nat \ {0} /\ frames' \in Seq(Sent) /\ Head(frames) = frames[1]
        /\ Len(frames') = Len(frames) - 1
        /\ \A i \in 1 .. Len(frames') : frames'[i] = frames[i + 1]
    BY <1>1, Taken DEF DecodeInv, DecodeTypes
  <1>3. DecodeInv'
    BY <1>1, <1>2, Constants DEF DecodeInv, DecodeTypes, Room, FirstStale
  <1>4. oldShown \in Nat /\ oldShown <= Bound /\ Bound \in Nat
    BY Constants DEF OldAhead, MayBeOld, Bound
  <1>5. \/ oldShown' = oldShown
        \/ oldShown' = oldShown + 1 /\ frames[1][1] # epoch
    BY <1>2 DEF Shows
  <1>6. oldShown' \in Nat /\ oldShown' <= Bound /\ oldShown' <= oldShown + 1
    <2>1. CASE oldShown' = oldShown
      BY <1>4, <2>1
    <2>2. CASE oldShown' = oldShown + 1 /\ frames[1][1] # epoch
      BY <1>2, <1>4, <2>2 DEF OldAhead, MayBeOld
    <2> QED
      BY <1>5, <2>1, <2>2
  <1>7. \A n \in Nat : MayBeOld(n + 1) => (oldShown' + n <= Bound)
    <2> SUFFICES ASSUME NEW n \in Nat, oldShown + (n + 1) <= Bound
                 PROVE  oldShown' + n <= Bound
      BY DEF MayBeOld
    <2> QED
      BY <1>4, <1>6, Nearer
  <1>8. ASSUME NEW i \in 1 .. Len(frames'), frames'[i][1] # epoch
        PROVE  oldShown' + i <= Bound
    <2>1. i + 1 \in 1 .. Len(frames) /\ i \in Nat /\ frames[i + 1][1] # epoch
      BY <1>2, <1>8
    <2> QED
      BY <1>7, <2>1 DEF OldAhead
  <1>9. thread = "push" /\ frame[1] # epoch => oldShown' + (Len(frames') + 1) <= Bound
    BY <1>2, <1>7 DEF OldAhead
  <1>10. ASSUME NEW i \in 1 .. Len(codec), codec[i][1] # epoch
         PROVE  oldShown' + (Len(frames') + Held + i) <= Bound
    <2>1. MayBeOld(Len(frames) + Held + i)
      BY <1>10 DEF OldAhead
    <2> QED
      BY <1>2, <1>4, <1>6, <2>1 DEF MayBeOld, Held
  <1>11. thread \in {"check", "send"} /\ pkt[1] # epoch
           => oldShown' + (Len(frames') + Len(codec) + 1) <= Bound
    BY <1>2, <1>4, <1>6, Lengths DEF OldAhead, MayBeOld
  <1>12. Held' = Held /\ oldShown' + 0 <= Bound
    BY <1>1, <1>6 DEF Held
  <1> QED
    BY <1>1, <1>3, <1>6, <1>8, <1>9, <1>10, <1>11, <1>12 DEF OldAhead, MayBeOld
-----------------------------------------------------------------------------
(* The invariant. *)

LEMMA InvInit == Init => Inv
  <1> SUFFICES ASSUME Init
               PROVE  Inv
    OBVIOUS
  <1>1. "video" \in Demux!Streams /\ None # "video" /\ None # "other"
    BY PlaybackAssumption DEF PlaybackAssumption, Demux!Streams
  <1>2. index = [s \in Demux!Streams |-> Demux!Found(s)]
    BY DEF Init, Demux!Init
  <1>3. index["video"] # None
    BY <1>1, <1>2 DEF Init, Demux!Found
  <1>4. DemuxMedia
    <2>1. \A s \in Demux!Streams : Demux!Found(s) \in Demux!Streams \cup {"other", None}
      BY DEF Demux!Found
    <2> QED
      BY <1>2, <2>1 DEF Init, Demux!Init, DemuxMedia, Demux!Packets
  <1>5. DemuxControl
    <2>1. 0 \in 0 .. MaxErrors /\ 0 \in 0 .. MaxSeeks
      BY Constants
    <2> QED
      BY <2>1 DEF Init, Demux!Init, DemuxControl
  <1>6. DemuxData
    <2>1. 1 \in 1 .. FileLen + 1 /\ 1 \in 1 .. 1 /\ 0 \in 0 .. FileLen + 1
      BY Constants
    <2>2. << >> \in Queues
      BY Nothing DEF Queues
    <2> QED
      BY <2>1, <2>2 DEF Init, Demux!Init, DemuxData
  <1>7. FreshQueue
    <2>1. epochs = << >> /\ epoch = 0 /\ queue["video"] = << >>
      BY <1>1 DEF Init, Demux!Init
    <2>2. epochs \in Seq(Nat) /\ Len(epochs) = 0 /\ Len(queue["video"]) = 0
      BY <2>1, Nothing
    <2> QED
      BY <1>3, <2>1, <2>2 DEF FreshQueue
  <1>8. /\ frames = << >> /\ codec = << >> /\ thread = "ended" /\ oldShown = 0
        /\ draining = FALSE /\ packetPending \in BOOLEAN
        /\ pkt = Decode!none /\ frame = Decode!none
        /\ pktSerial = 0 /\ currentSerial = 0 /\ staleSent = 0
    BY DEF Init, Decode!Init
  <1>9. /\ frames \in Seq(Sent) /\ codec \in Seq(Sent)
        /\ Len(frames) = 0 /\ Len(codec) = 0
    BY <1>8, Nothing
  <1>10. DecodeTypes
    <2>1. 0 \in 0 .. MaxSerial
      BY Constants
    <2> QED
      BY <1>8, <1>9, <2>1 DEF DecodeTypes
  <1>11. Room /\ FirstStale
    BY <1>8, <1>9, Constants DEF Room, FirstStale
  <1>12. OldAhead
    <2>1. Bound \in Nat
      BY Constants DEF Bound
    <2> QED
      BY <1>8, <1>9, <2>1 DEF OldAhead, MayBeOld
  <1> QED
    BY <1>4, <1>5, <1>6, <1>7, <1>10, <1>11, <1>12 DEF Inv, DemuxInv, DecodeInv

\* A step that leaves the decode thread, or the demuxer, as it is.
LEMMA SameDecode ==
    ASSUME DecodeInv, OldAhead, UNCHANGED <<decodeVars, epoch, oldShown>>
    PROVE  DecodeInv' /\ OldAhead'
  BY DEF decodeVars, DecodeInv, DecodeTypes, Room, FirstStale, OldAhead, MayBeOld, Held

LEMMA SameDemux ==
    ASSUME DemuxInv, FreshQueue, UNCHANGED <<demuxVars, epoch, epochs>>
    PROVE  DemuxInv' /\ FreshQueue'
  BY DEF demuxVars, DemuxInv, DemuxMedia, DemuxControl, DemuxData, FreshQueue

LEMMA InvStep ==
    ASSUME Inv, [Next]_vars
    PROVE  Inv'
  <1> USE DEF Inv
  <1>1. CASE Reads
    BY <1>1, DemuxInvStep, FreshReads, SameDecode DEF Reads, DemuxStep, Quiet
  <1>2. CASE Seeks
    BY <1>2, DemuxInvStep, FreshSeeks, SeekStep DEF Seeks, DemuxStep
  <1>3. CASE RequestSeek
    <2>1. DemuxInv' /\ index' = index
      BY <1>3, DemuxInvStep DEF RequestSeek, DemuxStep, Quiet
    <2>2. queue' = queue /\ UNCHANGED <<decodeVars, epoch, epochs, oldShown>>
      BY <1>3 DEF RequestSeek, Demux!RequestSeek, history
    <2> QED
      BY <2>1, <2>2, SameDecode DEF FreshQueue
  <1>4. CASE GetPacket
    BY <1>4, DemuxInvStep, FreshGet, GetStep DEF GetPacket, DemuxStep
  <1>5. CASE Decodes \/ Launch \/ NewSerial
    <2>1. UNCHANGED <<demuxVars, epoch, epochs, oldShown>>
      BY <1>5 DEF Decodes, Launch, NewSerial, history
    <2>2. DecodeInv' /\ OldAhead'
      BY <1>5, <2>1, ReceiveFrameStep, ReceiveEndStep, PushStep, SendStep, StillStep
         DEF Decodes, Launch, NewSerial, Decode!DecodeStep
    <2> QED
      BY <2>1, <2>2, SameDemux
  <1>6. CASE Shows
    BY <1>6, ShowStep, SameDemux DEF Shows
  <1>7. CASE UNCHANGED vars
    BY <1>7, SameDemux, SameDecode DEF vars, history
  <1> QED
    BY <1>1, <1>2, <1>3, <1>4, <1>5, <1>6, <1>7 DEF Next

LEMMA InvAlways == Spec => []Inv
  BY InvInit, InvStep, PTL DEF Spec

-----------------------------------------------------------------------------
(* The theorems. *)

\* Demuxer and decode thread keep their types together: neither the codec nor the
\* frame queue is given more than it holds.
THEOREM PlaybackTypeCorrect == Spec => []TypeOK
  <1>1. Inv => TypeOK
    <2> SUFFICES ASSUME Inv
                 PROVE  TypeOK
      OBVIOUS
    <2>1. Demux!TypeOK
      BY DEF Inv, DemuxInv, DemuxMedia, DemuxControl, DemuxData, Demux!TypeOK, Demux!Packets,
             Demux!End, Queues
    <2>2. Sent \subseteq Decode!Items /\ Decode!none \in Decode!Items
      BY Constants DEF Sent, Decode!Items, Decode!none
    <2>3. source \in Seq(Decode!Items)
      <3>1. queue["video"] \in Seq(1 .. FileLen + 1)
        BY DEF Inv, DemuxInv, DemuxData, Queues, Demux!Streams
      <3>2. \A i \in 1 .. Len(queue["video"]) : queue["video"][i] \in 0 .. FileLen + 1
        BY <3>1, Elements, Constants
      <3>3. \A i \in 1 .. Len(queue["video"]) : epochs[i] \in Nat
        BY DEF Inv, FreshQueue
      <3>4. \A i \in 1 .. Len(queue["video"]) :
               <<epochs[i], queue["video"][i]>> \in Decode!Items
        BY <3>2, <3>3 DEF Decode!Items
      <3>5. Len(queue["video"]) \in Nat
        BY <3>1
      <3> QED
        BY <3>4, <3>5 DEF source
    <2>4. frames \in Seq(Decode!Items) /\ codec \in Seq(Decode!Items)
      BY <2>2 DEF Inv, DecodeInv, DecodeTypes
    <2>5. (pkt # Decode!none) = (thread \in {"check", "send"})
      BY NoneIsNotSent DEF Inv, DecodeInv, DecodeTypes
    <2>6. (frame # Decode!none) = (thread = "push")
      BY NoneIsNotSent DEF Inv, DecodeInv, DecodeTypes
    <2>7. pkt \in Decode!Items /\ frame \in Decode!Items
      BY <2>2 DEF Inv, DecodeInv, DecodeTypes
    <2>8. Decode!TypeOK
      BY <2>3, <2>4, <2>5, <2>6, <2>7 DEF Inv, DecodeInv, DecodeTypes, Room, Decode!TypeOK
    <2> QED
      BY <2>1, <2>8 DEF TypeOK
  <1> QED
    BY InvAlways, <1>1, PTL

\* However the serial changes between the check of a packet's serial and the
\* sending of the packet, one packet of another serial is sent at most.
THEOREM StaleSentOnce == Spec => []OneStaleSent
  <1>1. Inv => OneStaleSent
    BY DEF Inv, DecodeInv, DecodeTypes, OneStaleSent, Decode!OneStaleSent
  <1> QED
    BY InvAlways, <1>1, PTL

\* After a seek no more frames of before it are shown than the frame queue, the
\* codec and the decode thread had room for, whatever their sizes.
THEOREM OldFramesAreFew == Spec => []OldFramesBounded
  <1>1. Inv => OldFramesBounded
    BY Constants DEF Inv, OldAhead, MayBeOld, Bound, OldFramesBounded
  <1> QED
    BY InvAlways, <1>1, PTL
=============================================================================
