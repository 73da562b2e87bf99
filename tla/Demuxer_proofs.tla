--------------------------- MODULE Demuxer_proofs ---------------------------
(***************************************************************************)
(* The demuxer's queues, for files of any length, any sizes, durations and *)
(* limits, any values of the stream indexes and any number of seeks and    *)
(* errors.                                                                 *)
(***************************************************************************)
EXTENDS Demuxer, TLAPS

\* The null packets are put at the end, once: while a queue holds one, or one
\* was taken, eof is set and nothing is read.
NullMeansEof ==
    \A s \in Streams :
        got[s] = End \/ (\E i \in 1 .. Len(queue[s]) : queue[s][i] = End) =>
            eof /\ (pos = End \/ pc = "closed")

\* What was taken was read, and a stream without an index has no packets.
TakenWasRead ==
    \A s \in Streams :
        /\ got[s] = End \/ got[s] < pos
        /\ index[s] = None => queue[s] = << >>

SegInv == NullMeansEof /\ TakenWasRead /\ QueueIsFileSegment

\* Between the throttle and the read a queue stays too short, and a live
\* stream's queues small enough.
ShortAtRead ==
    pc = "read" => \E s \in Streams :
        /\ ~Ignored(s)
        /\ TooFew(s, Len(queue[s])) \/ (EndsIn(queue[s]) /\ TooFew(s, Len(queue[s]) - 1))

SmallAtRead == pc = "read" /\ infiniteBuffer => TotalSize <= MAX_QUEUE_SIZE

Inv == TypeOK /\ SegInv /\ ShortAtRead /\ SomeQueueShort /\ SmallAtRead /\ LiveBounded

-----------------------------------------------------------------------------
(* Queues: what appending and taking do to a segment. *)

Queues == Seq(1 .. End)

NoEnd(q) == \A i \in 1 .. Len(q) : q[i] # End

LEMMA EndType == End \in Nat \ {0} /\ Packets = 1 .. End - 1 /\ FileLen \in Nat
  <1>1. FileLen \in Nat \ {0}
    BY DemuxerAssumption DEF DemuxerAssumption
  <1> QED
    BY <1>1 DEF End, Packets

LEMMA EmptyIsSegment == IsSegment(<< >>, {})
  BY DEF IsSegment

LEMMA AppendPacket ==
    ASSUME NEW q \in Queues, NEW due, IsSegment(q, due), NoEnd(q),
           NEW p \in Packets, \A f \in due : f \in Packets /\ f < p
    PROVE  IsSegment(Append(q, p), due \cup {p})
  <1> DEFINE r == Append(q, p)
  <1>1. /\ Len(r) = Len(q) + 1 /\ Len(q) \in Nat /\ r[Len(q) + 1] = p
        /\ \A i \in 1 .. Len(q) : r[i] = q[i] /\ q[i] \in 1 .. End
    BY EndType DEF Queues
  <1>2. \A i \in 1 .. Len(q) : q[i] \in due /\ q[i] < p
    BY DEF IsSegment, NoEnd
  <1> HIDE DEF r
  <1>3. \A i, j \in 1 .. Len(r) : i < j => r[i] < r[j]
    <2> SUFFICES ASSUME NEW i \in 1 .. Len(r), NEW j \in 1 .. Len(r), i < j
                 PROVE  r[i] < r[j]
      OBVIOUS
    <2>1. i \in 1 .. Len(q)
      BY <1>1
    <2>2. CASE j = Len(q) + 1
      BY <1>1, <1>2, <2>1, <2>2
    <2>3. CASE j \in 1 .. Len(q)
      BY <1>1, <2>1, <2>3 DEF IsSegment
    <2> QED
      BY <1>1, <2>2, <2>3
  <1>4. \A i \in 1 .. Len(r) : r[i] = End \/ r[i] \in due \cup {p}
    BY <1>1, <1>2
  <1>5. \A f \in due \cup {p} : \E i \in 1 .. Len(r) : r[i] = f
    <2> SUFFICES ASSUME NEW f \in due
                 PROVE  \E i \in 1 .. Len(r) : r[i] = f
      BY <1>1
    <2>1. PICK i \in 1 .. Len(q) : q[i] = f
      BY DEF IsSegment
    <2>2. i \in 1 .. Len(r) /\ r[i] = f
      BY <1>1, <2>1
    <2> QED
      BY <2>2
  <1> QED
    BY <1>3, <1>4, <1>5 DEF IsSegment, r

LEMMA AppendEnd ==
    ASSUME NEW q \in Queues, NEW due, IsSegment(q, due), NoEnd(q), due \subseteq Packets
    PROVE  IsSegment(Append(q, End), due)
  <1> DEFINE r == Append(q, End)
  <1>1. /\ Len(r) = Len(q) + 1 /\ Len(q) \in Nat /\ r[Len(q) + 1] = End
        /\ \A i \in 1 .. Len(q) : r[i] = q[i] /\ q[i] \in 1 .. End
    BY EndType DEF Queues
  <1>2. \A i \in 1 .. Len(q) : q[i] \in due /\ q[i] < End
    <2>1. \A i \in 1 .. Len(q) : q[i] \in due
      BY DEF IsSegment, NoEnd
    <2>2. \A f \in Packets : f < End
      BY EndType
    <2> QED
      BY <2>1, <2>2
  <1> HIDE DEF r
  <1>3. \A i, j \in 1 .. Len(r) : i < j => r[i] < r[j]
    <2> SUFFICES ASSUME NEW i \in 1 .. Len(r), NEW j \in 1 .. Len(r), i < j
                 PROVE  r[i] < r[j]
      OBVIOUS
    <2>1. i \in 1 .. Len(q)
      BY <1>1
    <2>2. CASE j = Len(q) + 1
      BY <1>1, <1>2, <2>1, <2>2
    <2>3. CASE j \in 1 .. Len(q)
      BY <1>1, <2>1, <2>3 DEF IsSegment
    <2> QED
      BY <1>1, <2>2, <2>3
  <1>4. \A i \in 1 .. Len(r) : r[i] = End \/ r[i] \in due
    BY <1>1, <1>2
  <1>5. ASSUME NEW f \in due
        PROVE  \E i \in 1 .. Len(r) : r[i] = f
    <2>1. PICK i \in 1 .. Len(q) : q[i] = f
      BY DEF IsSegment
    <2>2. i \in 1 .. Len(r) /\ r[i] = f
      BY <1>1, <2>1
    <2> QED
      BY <2>2
  <1> QED
    BY <1>3, <1>4, <1>5 DEF IsSegment, r

LEMMA TakeHead ==
    ASSUME NEW q \in Queues, q # << >>, NEW due, IsSegment(q, due), due \subseteq Packets
    PROVE  /\ IsSegment(Tail(q), {f \in due : f > Head(q)})
           /\ Head(q) = End => Tail(q) = << >>
  <1> DEFINE r == Tail(q)
             left == {f \in due : f > Head(q)}
  <1>1. /\ Len(r) = Len(q) - 1 /\ Len(q) \in Nat \ {0} /\ Head(q) = q[1]
        /\ \A i \in 1 .. Len(q) : q[i] \in 1 .. End
        /\ \A i \in 1 .. Len(r) : r[i] = q[i + 1]
    BY EndType DEF Queues
  <1>2. \A i \in 1 .. Len(r) : q[i + 1] > Head(q)
    BY <1>1 DEF IsSegment
  <1>3. Head(q) = End => r = << >>
    <2> SUFFICES ASSUME Head(q) = End, Len(r) # 0
                 PROVE  FALSE
      BY <1>1
    <2>1. 1 \in 1 .. Len(r) /\ 2 \in 1 .. Len(q)
      BY <1>1
    <2>2. q[2] > End /\ q[2] \in 1 .. End
      BY <1>1, <1>2, <2>1
    <2> QED
      BY <2>2, EndType
  <1> HIDE DEF r
  <1>4. \A i, j \in 1 .. Len(r) : i < j => r[i] < r[j]
    BY <1>1 DEF IsSegment
  <1>5. \A i \in 1 .. Len(r) : r[i] = End \/ r[i] \in left
    BY <1>1, <1>2 DEF IsSegment
  <1>6. ASSUME NEW f \in left
        PROVE  \E i \in 1 .. Len(r) : r[i] = f
    <2>1. PICK i \in 1 .. Len(q) : q[i] = f
      BY DEF IsSegment
    <2>2. i # 1
      BY <1>1, <2>1, EndType
    <2>3. i - 1 \in 1 .. Len(r) /\ r[i - 1] = f
      BY <1>1, <2>1, <2>2
    <2> QED
      BY <2>3
  <1> QED
    BY <1>3, <1>4, <1>5, <1>6 DEF IsSegment, r

-----------------------------------------------------------------------------
(* Queues: how much is in them. *)

LEMMA ConstantTypes ==
    /\ PacketSize \in Nat /\ NodeSize \in Nat /\ MIN_FRAMES \in Nat \ {0}
    /\ MAX_QUEUE_SIZE \in Nat /\ Second \in Nat /\ MaxErrors \in Nat /\ MaxSeeks \in Nat
    /\ \A s \in Streams : PacketDuration[s] \in Nat
    /\ None \notin Streams \cup {"other"}
  BY DemuxerAssumption DEF DemuxerAssumption

LEMMA Products ==
    ASSUME NEW n \in Nat, NEW k \in Nat
    PROVE  /\ n * k \in Nat /\ (n + 1) * k = n * k + k
           /\ n > 0 => (n - 1) * k = n * k - k /\ (n - 1) * k \in Nat
           /\ \A m \in Nat : m <= n => m * k <= n * k
  <1>1. n * k \in Nat /\ (n + 1) * k = n * k + k /\ (n - 1) * k = n * k - k
    OBVIOUS
  <1>2. n > 0 => (n - 1) * k \in Nat
    OBVIOUS
  <1>3. \A m \in Nat : m <= n => m * k <= n * k
    OBVIOUS
  <1> QED
    BY <1>1, <1>2, <1>3

LEMMA SizeOfEmpty == getSize(<< >>) = 0
  BY ConstantTypes DEF getSize, DataLen, EndsIn

LEMMA SizeOfQueue ==
    ASSUME NEW q \in Queues
    PROVE  /\ Len(q) \in Nat
           /\ EndsIn(q) => Len(q) > 0 /\ getSize(q) = (Len(q) - 1) * PacketSize + NodeSize
           /\ ~EndsIn(q) => getSize(q) = Len(q) * PacketSize
           /\ getSize(q) \in Nat
  <1>1. Len(q) \in Nat /\ (EndsIn(q) => Len(q) > 0)
    BY DEF Queues, EndsIn
  <1>2. ASSUME EndsIn(q)
        PROVE  getSize(q) = (Len(q) - 1) * PacketSize + NodeSize
    <2>1. getSize(q) = (Len(q) - 1) * PacketSize + (Len(q) - (Len(q) - 1)) * NodeSize
      BY <1>2 DEF getSize, DataLen
    <2>2. (Len(q) - (Len(q) - 1)) * NodeSize = NodeSize
      BY <1>1, ConstantTypes
    <2> QED
      BY <2>1, <2>2
  <1>3. ASSUME ~EndsIn(q)
        PROVE  getSize(q) = Len(q) * PacketSize
    <2>1. getSize(q) = Len(q) * PacketSize + (Len(q) - Len(q)) * NodeSize
      BY <1>3 DEF getSize, DataLen
    <2>2. (Len(q) - Len(q)) * NodeSize = 0
      BY <1>1, ConstantTypes
    <2>3. Len(q) * PacketSize \in Nat
      BY <1>1, ConstantTypes, Products
    <2> QED
      BY <2>1, <2>2, <2>3
  <1>4. Len(q) * PacketSize \in Nat /\ (Len(q) > 0 => (Len(q) - 1) * PacketSize \in Nat)
    BY <1>1, ConstantTypes, Products
  <1> QED
    BY <1>1, <1>2, <1>3, <1>4, ConstantTypes

LEMMA SizeAppend ==
    ASSUME NEW q \in Queues, NoEnd(q)
    PROVE  /\ \A p \in Packets : getSize(Append(q, p)) = getSize(q) + PacketSize
           /\ getSize(Append(q, End)) = getSize(q) + NodeSize
  <1>1. Len(q) \in Nat /\ ~EndsIn(q)
    BY DEF Queues, EndsIn, NoEnd
  <1>2. getSize(q) = Len(q) * PacketSize
    BY <1>1, SizeOfQueue
  <1>3. ASSUME NEW p \in Packets
        PROVE  getSize(Append(q, p)) = getSize(q) + PacketSize
    <2>1. Append(q, p) \in Queues /\ Len(Append(q, p)) = Len(q) + 1 /\ ~EndsIn(Append(q, p))
      BY EndType DEF Queues, EndsIn
    <2>2. getSize(Append(q, p)) = (Len(q) + 1) * PacketSize
      BY <2>1, SizeOfQueue
    <2> QED
      BY <1>1, <1>2, <2>2, Products, ConstantTypes
  <1>4. getSize(Append(q, End)) = getSize(q) + NodeSize
    <2>1. Append(q, End) \in Queues /\ Len(Append(q, End)) = Len(q) + 1 /\ EndsIn(Append(q, End))
      BY EndType DEF Queues, EndsIn
    <2>2. getSize(Append(q, End)) = (Len(Append(q, End)) - 1) * PacketSize + NodeSize
      BY <2>1, SizeOfQueue
    <2>3. Len(Append(q, End)) - 1 = Len(q)
      BY <1>1, <2>1
    <2> QED
      BY <1>2, <2>2, <2>3
  <1> QED
    BY <1>3, <1>4

LEMMA SizeTail ==
    ASSUME NEW q \in Queues, q # << >>
    PROVE  /\ Tail(q) \in Queues /\ Len(Tail(q)) = Len(q) - 1
           /\ getSize(Tail(q)) <= getSize(q)
           /\ Tail(q) # << >> => (EndsIn(Tail(q)) <=> EndsIn(q))
  <1>1. Tail(q) \in Queues /\ Len(Tail(q)) = Len(q) - 1 /\ Len(q) \in Nat \ {0}
    BY DEF Queues
  <1>2. Tail(q) # << >> => Len(q) > 1 /\ Tail(q)[Len(Tail(q))] = q[Len(q)]
    BY <1>1 DEF Queues
  <1>3. Tail(q) # << >> => (EndsIn(Tail(q)) <=> EndsIn(q))
    BY <1>2 DEF EndsIn
  <1>4. CASE Tail(q) = << >>
    <2>1. getSize(Tail(q)) = 0 /\ getSize(q) \in Nat
      BY <1>4, SizeOfEmpty, SizeOfQueue
    <2> QED
      BY <1>1, <1>3, <2>1
  <1>5. CASE Tail(q) # << >> /\ EndsIn(q)
    <2>1. getSize(Tail(q)) = (Len(q) - 1 - 1) * PacketSize + NodeSize
      BY <1>1, <1>3, <1>5, SizeOfQueue
    <2>2. getSize(q) = (Len(q) - 1) * PacketSize + NodeSize
      BY <1>5, SizeOfQueue
    <2>3. Len(q) - 1 \in Nat /\ Len(q) - 1 > 0
      BY <1>1, <1>2, <1>5
    <2>4. (Len(q) - 1 - 1) * PacketSize = (Len(q) - 1) * PacketSize - PacketSize
      BY <2>3, Products, ConstantTypes
    <2>5. (Len(q) - 1) * PacketSize \in Nat
      BY <2>3, Products, ConstantTypes
    <2> QED
      BY <1>1, <1>3, <2>1, <2>2, <2>4, <2>5, ConstantTypes
  <1>6. CASE Tail(q) # << >> /\ ~EndsIn(q)
    <2>1. getSize(Tail(q)) = (Len(q) - 1) * PacketSize
      BY <1>1, <1>3, <1>6, SizeOfQueue
    <2>2. getSize(q) = Len(q) * PacketSize
      BY <1>6, SizeOfQueue
    <2>3. (Len(q) - 1) * PacketSize = Len(q) * PacketSize - PacketSize
      BY <1>1, Products, ConstantTypes
    <2>4. Len(q) * PacketSize \in Nat
      BY <1>1, Products, ConstantTypes
    <2> QED
      BY <1>1, <1>3, <2>1, <2>2, <2>3, <2>4, ConstantTypes
  <1> QED
    BY <1>4, <1>5, <1>6

\* Fewer packets are too few as well.
LEMMA FewerTooFew ==
    ASSUME NEW s \in Streams, NEW n \in Nat, NEW m \in Int, m <= n, TooFew(s, n)
    PROVE  TooFew(s, m)
  <1>1. CASE m <= 0
    BY <1>1, ConstantTypes DEF TooFew
  <1>2. CASE m > 0
    <2>1. m \in Nat /\ m * PacketDuration[s] <= n * PacketDuration[s]
      BY <1>2, Products, ConstantTypes
    <2>2. m * PacketDuration[s] \in Nat /\ n * PacketDuration[s] \in Nat
      BY <2>1, Products, ConstantTypes
    <2> QED
      BY <2>1, <2>2, ConstantTypes DEF TooFew
  <1> QED
    BY <1>1, <1>2

\* A queue that has not enough has too few, not counting a null packet.
LEMMA NotEnough ==
    ASSUME NEW s \in Streams, NEW q \in Queues, ~HasEnough(s, q)
    PROVE  TooFew(s, Len(q)) \/ (EndsIn(q) /\ TooFew(s, Len(q) - 1))
  <1>1. Len(q) \in Nat /\ (EndsIn(q) => Len(q) > 0)
    BY SizeOfQueue
  <1>2. CASE Len(q) <= MIN_FRAMES
    BY <1>2 DEF TooFew
  <1>3. CASE Len(q) > MIN_FRAMES
    <2> DEFINE n == DataLen(q)
    <2>1. n \in Nat /\ n * PacketDuration[s] \in Nat
      BY <1>1, Products, ConstantTypes DEF DataLen
    <2>2. n * PacketDuration[s] # 0 /\ n * PacketDuration[s] <= Second
      BY <1>3, <2>1, ConstantTypes DEF HasEnough, getDuration
    <2>3. PacketDuration[s] > 0
      BY <2>1, <2>2, ConstantTypes
    <2>4. TooFew(s, n)
      BY <2>2, <2>3 DEF TooFew
    <2> QED
      BY <2>4 DEF DataLen
  <1> QED
    BY <1>1, <1>2, <1>3, ConstantTypes

-----------------------------------------------------------------------------
(* Types. *)

\* The steps that leave the queues, what was taken and the position alone.
Quiet == NoSeek \/ SeekFails \/ Throttle \/ ReadFails \/ WaitEnds \/ RequestSeek

\* What they all have in common.
LEMMA QuietStep ==
    ASSUME Quiet
    PROVE  /\ UNCHANGED <<media, eof, pos, queue, start, got>>
           /\ pc = "closed" => pc' = "closed"
           /\ pc' = "read" => pc = "read" \/ Throttle
  BY DEF Quiet, NoSeek, SeekFails, Throttle, ReadFails, WaitEnds, RequestSeek

\* No step changes the file or the indexes.
LEMMA MediaConstant ==
    ASSUME Next
    PROVE  UNCHANGED <<file, present, attachedPic, index, infiniteBuffer>>
  BY DEF Next, Loop, NoSeek, Seek, SeekFails, Throttle, ReadPacket, ReadEnd, ReadFails,
         ReadBreaks, WaitEnds, RequestSeek, getPacket, media

LEMMA NextCases ==
    ASSUME Next
    PROVE  \/ Quiet
           \/ Seek \/ ReadPacket \/ ReadEnd \/ ReadBreaks
           \/ \E s \in Streams : getPacket(s)
  BY DEF Next, Loop, Quiet

\* TypeOK in parts: what is read from, what controls the loop, and the data.
MediaTypes ==
    /\ file \in [Packets -> Streams \cup {"other"}]
    /\ present \subseteq Streams /\ attachedPic \in BOOLEAN
    /\ index \in [Streams -> Streams \cup {"other", None}]
    /\ infiniteBuffer \in BOOLEAN

ControlTypes ==
    /\ eof \in BOOLEAN /\ seekReq \in BOOLEAN
    /\ pc \in {"top", "throttle", "read", "wait", "closed", "crashed"}
    /\ errors \in 0 .. MaxErrors /\ seeks \in 0 .. MaxSeeks

DataTypes ==
    /\ pos \in 1 .. End /\ start \in 1 .. pos
    /\ queue \in [Streams -> Queues]
    /\ got \in [Streams -> 0 .. End]

LEMMA TypeParts == TypeOK <=> MediaTypes /\ ControlTypes /\ DataTypes
  BY DEF TypeOK, MediaTypes, ControlTypes, DataTypes, Queues

LEMMA HeadType ==
    ASSUME NEW q \in Queues, q # << >>
    PROVE  Head(q) \in 1 .. End /\ Len(q) > 0 /\ Head(q) = q[1]
  <1>1. Len(q) \in Nat \ {0} /\ Head(q) = q[1] /\ \A i \in 1 .. Len(q) : q[i] \in 1 .. End
    BY EndType DEF Queues
  <1> QED
    BY <1>1

LEMMA EmptyQueue == << >> \in Queues
  BY DEF Queues

LEMMA TypeInit == Init => TypeOK
  <1> SUFFICES ASSUME Init
               PROVE  TypeOK
    OBVIOUS
  <1>1. index \in [Streams -> Streams \cup {"other", None}]
    BY DemuxerAssumption DEF Init, DemuxerAssumption, Found
  <1>2. MediaTypes
    BY <1>1 DEF Init, MediaTypes
  <1>3. ControlTypes
    <2>1. 0 \in 0 .. MaxErrors /\ 0 \in 0 .. MaxSeeks
      BY ConstantTypes
    <2> QED
      BY <2>1 DEF Init, ControlTypes
  <1>4. DataTypes
    BY EmptyQueue, EndType DEF Init, DataTypes
  <1> QED
    BY <1>2, <1>3, <1>4, TypeParts

LEMMA ControlStep ==
    ASSUME ControlTypes, Next
    PROVE  ControlTypes'
  <1>1. \A n, m \in Nat : n \in 0 .. m /\ n < m => n + 1 \in 0 .. m
    OBVIOUS
  <1>2. /\ errors < MaxErrors => errors + 1 \in 0 .. MaxErrors
        /\ seeks < MaxSeeks => seeks + 1 \in 0 .. MaxSeeks
    BY ConstantTypes DEF ControlTypes
  <1>3. CASE NoSeek \/ Throttle \/ WaitEnds
    BY <1>3 DEF NoSeek, Throttle, WaitEnds, ControlTypes, faults
  <1>4. CASE SeekFails \/ ReadFails
    BY <1>2, <1>4 DEF SeekFails, ReadFails, ControlTypes
  <1>5. CASE RequestSeek
    BY <1>2, <1>5 DEF RequestSeek, ControlTypes
  <1>6. CASE Seek
    BY <1>6 DEF Seek, SeekTo, ControlTypes, faults
  <1>7. CASE ReadPacket
    BY <1>7 DEF ReadPacket, ControlTypes, faults
  <1>8. CASE ReadEnd
    BY <1>8 DEF ReadEnd, ControlTypes, faults
  <1>9. CASE ReadBreaks
    <2>1. eof' \in BOOLEAN
      BY <1>9 DEF ReadBreaks, ControlTypes
    <2> QED
      BY <1>2, <1>9, <2>1 DEF ReadBreaks, ControlTypes
  <1>10. CASE \E s \in Streams : getPacket(s)
    BY <1>10 DEF getPacket, ControlTypes, faults
  <1> QED
    BY <1>3, <1>4, <1>5, <1>6, <1>7, <1>8, <1>9, <1>10 DEF Next, Loop

LEMMA DataStep ==
    ASSUME DataTypes, Next
    PROVE  DataTypes'
  <1>1. CASE Quiet
    BY <1>1, QuietStep DEF DataTypes
  <1>2. CASE Seek
    <2>1. PICK target \in 1 .. End : SeekTo(target)
      BY <1>2 DEF Seek
    <2>2. pos' \in 1 .. End /\ start' \in 1 .. pos'
      BY <2>1, EndType DEF SeekTo
    <2>3. queue' \in [Streams -> Queues]
      BY <2>1, EmptyQueue DEF SeekTo, DataTypes
    <2>4. got' \in [Streams -> 0 .. End]
      BY <2>1, EndType DEF SeekTo
    <2> QED
      BY <2>2, <2>3, <2>4 DEF DataTypes
  <1>3. CASE ReadPacket
    <2>1. pos \in 1 .. End /\ pos # End /\ pos + 1 \in 1 .. End /\ start \in 1 .. pos
      BY <1>3, EndType DEF ReadPacket, DataTypes
    <2>2. \A q \in Queues : Append(q, pos) \in Queues
      BY <2>1 DEF Queues
    <2>3. queue' \in [Streams -> Queues]
      BY <1>3, <2>2 DEF ReadPacket, DataTypes
    <2>4. pos' \in 1 .. End /\ start' \in 1 .. pos'
      BY <1>3, <2>1, EndType DEF ReadPacket
    <2> QED
      BY <1>3, <2>3, <2>4 DEF ReadPacket, DataTypes
  <1>4. CASE ReadEnd \/ ReadBreaks
    <2>1. \A q \in Queues : Append(q, End) \in Queues
      BY EndType DEF Queues
    <2>2. PICK put : PutEnd(put)
      BY <1>4 DEF ReadEnd, ReadBreaks
    <2>3. queue' \in [Streams -> Queues]
      BY <2>1, <2>2 DEF PutEnd, DataTypes
    <2> QED
      BY <1>4, <2>3 DEF ReadEnd, ReadBreaks, DataTypes
  <1>5. ASSUME NEW s \in Streams, getPacket(s)
        PROVE  DataTypes'
    <2>1. queue[s] \in Queues /\ queue[s] # << >>
      BY <1>5 DEF getPacket, DataTypes
    <2>2. Tail(queue[s]) \in Queues
      BY <2>1, SizeTail
    <2>3. Head(queue[s]) \in 1 .. End
      BY <2>1, HeadType
    <2>4. Head(queue[s]) \in 0 .. End
      BY <2>3, EndType
    <2>5. queue' \in [Streams -> Queues]
      BY <1>5, <2>2 DEF getPacket, DataTypes
    <2>6. got' \in [Streams -> 0 .. End]
      BY <1>5, <2>4 DEF getPacket, DataTypes
    <2> QED
      BY <1>5, <2>5, <2>6 DEF getPacket, DataTypes
  <1> QED
    BY <1>1, <1>2, <1>3, <1>4, <1>5, NextCases

LEMMA TypeStep ==
    ASSUME TypeOK, [Next]_vars
    PROVE  TypeOK'
  <1>1. CASE UNCHANGED vars
    BY <1>1 DEF vars, TypeOK
  <1>2. CASE Next
    <2>1. MediaTypes' /\ ControlTypes' /\ DataTypes'
      BY <1>2, TypeParts, MediaConstant, ControlStep, DataStep DEF MediaTypes
    <2> QED
      BY <2>1 DEF TypeOK, MediaTypes, ControlTypes, DataTypes, Queues
  <1> QED
    BY <1>1, <1>2
-----------------------------------------------------------------------------
(* The queues hold what was read. *)

LEMMA RouteSame ==
    ASSUME Next
    PROVE  \A f : (QueueOf(file[f]))' = QueueOf(file[f])
  BY MediaConstant DEF QueueOf

LEMMA RoutedIsIndexed ==
    ASSUME TypeOK, NEW f \in Packets, NEW s \in Streams, QueueOf(file[f]) = s
    PROVE  index[s] # None
  <1>1. file[f] # None
    BY ConstantTypes DEF TypeOK
  <1> QED
    BY <1>1, ConstantTypes DEF QueueOf

LEMMA DueFacts ==
    ASSUME TypeOK, NEW s \in Streams
    PROVE  /\ Due(s) \subseteq Packets /\ \A f \in Due(s) : f < pos
           /\ queue[s] \in Queues /\ got[s] \in 0 .. End
           /\ pos \in 1 .. End /\ start \in 1 .. pos
  <1>1. /\ pos \in 1 .. End /\ start \in 1 .. pos
        /\ queue[s] \in Queues /\ got[s] \in 0 .. End
    BY DEF TypeOK, Queues
  <1>2. \A f \in start .. pos - 1 : f \in Packets /\ f < pos
    BY <1>1, EndType
  <1> QED
    BY <1>1, <1>2 DEF Due

\* Nothing ended yet.
LEMMA NothingEnded ==
    ASSUME TypeOK, SegInv, ~eof \/ (pos # End /\ pc # "closed"), NEW s \in Streams
    PROVE  got[s] # End /\ got[s] < pos /\ NoEnd(queue[s])
  BY DEF SegInv, NullMeansEof, TakenWasRead, NoEnd

LEMMA SegInit ==
    ASSUME Init
    PROVE  SegInv
  <1>1. ASSUME NEW s \in Streams
        PROVE  /\ queue[s] = << >> /\ got[s] = 0 /\ got[s] < pos /\ got[s] # End
               /\ Due(s) = {}
    <2>1. queue[s] = << >> /\ got[s] = 0 /\ pos = 1 /\ start = 1
      BY <1>1 DEF Init
    <2> QED
      BY <2>1, EndType DEF Due
  <1>2. NullMeansEof
    BY <1>1 DEF NullMeansEof
  <1>3. TakenWasRead
    BY <1>1 DEF TakenWasRead
  <1>4. QueueIsFileSegment
    BY <1>1, EmptyIsSegment DEF QueueIsFileSegment
  <1> QED
    BY <1>2, <1>3, <1>4 DEF SegInv

LEMMA SegQuiet ==
    ASSUME TypeOK, SegInv, Next, Quiet
    PROVE  SegInv'
  <1>1. /\ eof' = eof /\ pos' = pos /\ queue' = queue /\ start' = start /\ got' = got
        /\ pc = "closed" => pc' = "closed"
    BY QuietStep
  <1>2. ASSUME NEW s \in Streams
        PROVE  (Due(s))' = Due(s)
    BY <1>1, RouteSame DEF Due
  <1>3. NullMeansEof'
    BY <1>1 DEF SegInv, NullMeansEof
  <1>4. TakenWasRead'
    BY <1>1, MediaConstant DEF SegInv, TakenWasRead
  <1>5. QueueIsFileSegment'
    BY <1>1, <1>2 DEF SegInv, QueueIsFileSegment, IsSegment
  <1> QED
    BY <1>3, <1>4, <1>5 DEF SegInv

LEMMA SegSeek ==
    ASSUME TypeOK, SegInv, Next, Seek
    PROVE  SegInv'
  <1>1. PICK target \in 1 .. End : SeekTo(target)
    BY DEF Seek
  <1>2. ASSUME NEW s \in Streams
        PROVE  /\ queue'[s] = << >> /\ got'[s] = 0 /\ got'[s] < pos' /\ got'[s] # End
               /\ (Due(s))' = {}
    <2>1. queue'[s] = << >> /\ got'[s] = 0 /\ pos' = target /\ start' = target
      BY <1>1 DEF SeekTo, SegInv, TakenWasRead
    <2> QED
      BY <2>1, EndType DEF Due
  <1>3. NullMeansEof'
    BY <1>2 DEF NullMeansEof
  <1>4. TakenWasRead'
    BY <1>2 DEF TakenWasRead
  <1>5. QueueIsFileSegment'
    BY <1>2, EmptyIsSegment DEF QueueIsFileSegment, IsSegment
  <1> QED
    BY <1>3, <1>4, <1>5 DEF SegInv

LEMMA SegRead ==
    ASSUME TypeOK, SegInv, Next, ReadPacket
    PROVE  SegInv'
  <1>1. pos \in Packets /\ pos # End /\ pc # "closed" /\ UNCHANGED <<start, got, index>>
    BY MediaConstant, EndType DEF ReadPacket, TypeOK
  <1>2. \A s \in Streams : got[s] # End /\ got[s] < pos /\ NoEnd(queue[s])
    BY <1>1, NothingEnded
  <1>3. CASE RouteCrashes(file[pos])
    <2>1. UNCHANGED <<pos, queue>>
      BY <1>3 DEF ReadPacket
    <2>2. NullMeansEof'
      BY <1>1, <1>2, <2>1 DEF NullMeansEof, NoEnd
    <2>3. TakenWasRead'
      BY <1>1, <2>1 DEF SegInv, TakenWasRead
    <2>4. ASSUME NEW s \in Streams
          PROVE  (Due(s))' = Due(s)
      BY <1>1, <2>1, RouteSame DEF Due
    <2>5. QueueIsFileSegment'
      BY <1>1, <2>1, <2>4 DEF SegInv, QueueIsFileSegment, IsSegment
    <2> QED
      BY <2>2, <2>3, <2>5 DEF SegInv
  <1>4. CASE ~RouteCrashes(file[pos])
    <2>1. /\ pos' = pos + 1
          /\ queue' = [s \in Streams |->
                 IF s = QueueOf(file[pos]) THEN Append(queue[s], pos) ELSE queue[s]]
      BY <1>4 DEF ReadPacket
    <2>2. ASSUME NEW s \in Streams, QueueOf(file[pos]) = s
          PROVE  /\ index[s] # None /\ NoEnd(queue'[s])
                 /\ IsSegment(queue'[s], (Due(s))')
      <3>1. index[s] # None
        BY <1>1, <2>2, RoutedIsIndexed
      <3>2. queue'[s] = Append(queue[s], pos)
        BY <2>1, <2>2
      <3>3. NoEnd(queue'[s])
        <4>1. /\ Len(queue'[s]) = Len(queue[s]) + 1 /\ Len(queue[s]) \in Nat
              /\ queue'[s][Len(queue[s]) + 1] = pos
              /\ \A i \in 1 .. Len(queue[s]) : queue'[s][i] = queue[s][i]
          BY <1>1, <3>2, DueFacts, EndType DEF Queues
        <4> QED
          BY <1>1, <1>2, <4>1 DEF NoEnd
      <3>4. (Due(s))' = Due(s) \cup {pos}
        <4>1. /\ pos \in Nat /\ start \in Nat /\ start <= pos /\ got[s] < pos
              /\ start' = start /\ got' = got /\ pos' = pos + 1
          BY <1>1, <1>2, <2>1, DueFacts, EndType
        <4>2. start .. pos' - 1 = (start .. pos - 1) \cup {pos}
          BY <4>1
        <4>3. (Due(s))' = {f \in (start .. pos - 1) \cup {pos} : QueueOf(file[f]) = s /\ f > got[s]}
          BY <4>1, <4>2, RouteSame DEF Due
        <4> QED
          BY <2>2, <4>1, <4>3 DEF Due
      <3>5. IsSegment(queue[s], Due(s))
        BY DEF SegInv, QueueIsFileSegment
      <3>6. IsSegment(Append(queue[s], pos), Due(s) \cup {pos})
        BY <1>1, <1>2, <3>5, DueFacts, AppendPacket
      <3> QED
        BY <3>1, <3>2, <3>3, <3>4, <3>6
    <2>3. ASSUME NEW s \in Streams, QueueOf(file[pos]) # s
          PROVE  queue'[s] = queue[s] /\ (Due(s))' = Due(s)
      <3>1. queue'[s] = queue[s]
        BY <2>1, <2>3
      <3>2. /\ pos \in Nat /\ start \in Nat /\ start <= pos
            /\ start' = start /\ got' = got /\ pos' = pos + 1
        BY <1>1, <2>1, DueFacts, EndType
      <3>3. start .. pos' - 1 = (start .. pos - 1) \cup {pos}
        BY <3>2
      <3>4. (Due(s))' = {f \in (start .. pos - 1) \cup {pos} : QueueOf(file[f]) = s /\ f > got[s]}
        BY <3>2, <3>3, RouteSame DEF Due
      <3> QED
        BY <2>3, <3>1, <3>4 DEF Due
    <2>4. NullMeansEof'
      BY <1>1, <1>2, <2>2, <2>3 DEF NullMeansEof, NoEnd
    <2>5. TakenWasRead'
      <3>1. \A s \in Streams : got[s] < pos + 1
        BY <1>2, DueFacts, EndType
      <3> QED
        BY <1>1, <2>1, <2>2, <2>3, <3>1 DEF SegInv, TakenWasRead
    <2>6. QueueIsFileSegment'
      BY <1>1, <1>2, <2>2, <2>3 DEF SegInv, QueueIsFileSegment, IsSegment
    <2> QED
      BY <2>4, <2>5, <2>6 DEF SegInv
  <1> QED
    BY <1>3, <1>4
EndsAppended ==
    queue' = [s \in Streams |-> IF index[s] # None THEN Append(queue[s], End) ELSE queue[s]]

LEMMA EndStep ==
    ASSUME TypeOK, ReadEnd \/ ReadBreaks
    PROVE  queue' = queue \/ (~eof /\ eof' /\ EndsAppended)
  <1>1. ASSUME NEW put \in BOOLEAN, PutEnd(put)
        PROVE  IF put THEN EndsAppended ELSE queue' = queue
    BY <1>1 DEF PutEnd, EndsAppended, TypeOK
  <1>2. CASE ReadEnd
    BY <1>1, <1>2 DEF ReadEnd, PutsEnd, TypeOK
  <1>3. CASE ReadBreaks
    <2>1. PICK feof \in BOOLEAN : PutEnd(feof /\ PutsEnd) /\ eof' = (eof \/ feof)
      BY <1>3 DEF ReadBreaks
    <2>2. (feof /\ PutsEnd) \in BOOLEAN
      BY DEF PutsEnd
    <2>3. CASE feof /\ PutsEnd
      BY <1>1, <2>1, <2>2, <2>3 DEF PutsEnd
    <2>4. CASE ~(feof /\ PutsEnd)
      BY <1>1, <2>1, <2>2, <2>4
    <2> QED
      BY <2>3, <2>4
  <1> QED
    BY <1>2, <1>3

LEMMA SegEnd ==
    ASSUME TypeOK, SegInv, Next, ReadEnd \/ ReadBreaks
    PROVE  SegInv'
  <1>1. /\ UNCHANGED <<pos, start, got, index>> /\ (pos = End \/ pc' = "closed")
        /\ pc = "read" /\ (eof => eof')
    BY MediaConstant DEF ReadEnd, ReadBreaks
  <1>2. ASSUME NEW s \in Streams
        PROVE  (Due(s))' = Due(s)
    BY <1>1, RouteSame DEF Due
  <1>3. CASE queue' = queue
    <2>1. NullMeansEof'
      BY <1>1, <1>3 DEF SegInv, NullMeansEof
    <2>2. TakenWasRead'
      BY <1>1, <1>3 DEF SegInv, TakenWasRead
    <2>3. QueueIsFileSegment'
      BY <1>1, <1>2, <1>3 DEF SegInv, QueueIsFileSegment, IsSegment
    <2> QED
      BY <2>1, <2>2, <2>3 DEF SegInv
  <1>4. CASE ~eof /\ eof' /\ EndsAppended
    <2>0. queue' = [s \in Streams |->
                       IF index[s] # None THEN Append(queue[s], End) ELSE queue[s]]
      BY <1>4 DEF EndsAppended
    <2>1. \A s \in Streams : got[s] # End /\ NoEnd(queue[s])
      BY <1>4, NothingEnded
    <2>2. NullMeansEof'
      BY <1>1, <1>4 DEF NullMeansEof
    <2>3. TakenWasRead'
      BY <1>1, <2>0 DEF SegInv, TakenWasRead
    <2>4. ASSUME NEW s \in Streams
          PROVE  IsSegment(queue'[s], Due(s))
      <3>1. IsSegment(queue[s], Due(s)) /\ queue[s] \in Queues /\ Due(s) \subseteq Packets
        BY DueFacts DEF SegInv, QueueIsFileSegment
      <3>2. IsSegment(Append(queue[s], End), Due(s))
        BY <2>1, <3>1, AppendEnd
      <3> QED
        BY <2>0, <3>1, <3>2
    <2>5. QueueIsFileSegment'
      BY <1>1, <1>2, <2>1, <2>4 DEF QueueIsFileSegment, IsSegment
    <2> QED
      BY <2>2, <2>3, <2>5 DEF SegInv
  <1>5. queue' = queue \/ (~eof /\ eof' /\ EndsAppended)
    BY EndStep
  <1> QED
    BY <1>3, <1>4, <1>5

LEMMA SegGet ==
    ASSUME TypeOK, SegInv, Next, NEW s \in Streams, getPacket(s)
    PROVE  SegInv'
  <1> DEFINE q == queue[s]
             h == Head(queue[s])
  <1>1. /\ UNCHANGED <<pos, start, eof, pc, index>> /\ q # << >> /\ q \in Queues
        /\ queue' = [queue EXCEPT ![s] = Tail(q)] /\ got' = [got EXCEPT ![s] = h]
        /\ queue \in [Streams -> Queues] /\ got \in [Streams -> 0 .. End]
    BY MediaConstant, DueFacts DEF getPacket, TypeOK, Queues
  <1>2. /\ Tail(q) \in Queues /\ Len(Tail(q)) = Len(q) - 1 /\ Len(q) \in Nat \ {0}
        /\ h \in 1 .. End /\ h = q[1]
        /\ \A i \in 1 .. Len(Tail(q)) : Tail(q)[i] = q[i + 1]
    BY <1>1, SizeTail, HeadType DEF Queues
  <1>3. IsSegment(q, Due(s)) /\ Due(s) \subseteq Packets /\ \A f \in Due(s) : f < pos
    BY DueFacts DEF SegInv, QueueIsFileSegment
  <1>4. /\ IsSegment(Tail(q), {f \in Due(s) : f > h})
        /\ h = End => Tail(q) = << >>
    BY <1>1, <1>3, TakeHead
  <1>5. h = End \/ h \in Due(s)
    BY <1>2, <1>3 DEF IsSegment
  <1>6. \A t \in Streams : t # s => queue'[t] = queue[t] /\ got'[t] = got[t]
    BY <1>1
  <1>7. queue'[s] = Tail(q) /\ got'[s] = h
    BY <1>1
  <1>8. NullMeansEof'
    <2> SUFFICES ASSUME NEW t \in Streams,
                        got'[t] = End \/ (\E i \in 1 .. Len(queue'[t]) : queue'[t][i] = End)
                 PROVE  got[t] = End \/ (\E i \in 1 .. Len(queue[t]) : queue[t][i] = End)
      BY <1>1 DEF NullMeansEof, SegInv
    <2>1. CASE t # s
      BY <1>6, <2>1
    <2>2. CASE t = s
      <3>1. 1 \in 1 .. Len(q) /\ \A i \in 1 .. Len(Tail(q)) : i + 1 \in 1 .. Len(q)
        BY <1>2
      <3> QED
        BY <1>2, <1>7, <2>2, <3>1
    <2> QED
      BY <2>1, <2>2
  <1>9. TakenWasRead'
    <2> SUFFICES ASSUME NEW t \in Streams
                 PROVE  /\ got'[t] = End \/ got'[t] < pos
                        /\ index[t] = None => queue'[t] = << >>
      BY <1>1 DEF TakenWasRead
    <2>1. CASE t # s
      BY <1>6, <2>1 DEF SegInv, TakenWasRead
    <2>2. CASE t = s
      BY <1>1, <1>3, <1>5, <1>7, <2>2 DEF SegInv, TakenWasRead
    <2> QED
      BY <2>1, <2>2
  <1>10. QueueIsFileSegment'
    <2> SUFFICES ASSUME NEW t \in Streams
                 PROVE  /\ IsSegment(queue'[t], (Due(t))')
                        /\ got'[t] = End => queue'[t] = << >>
      BY DEF QueueIsFileSegment, IsSegment
    <2>1. CASE t # s
      <3>1. (Due(t))' = Due(t)
        BY <1>1, <1>6, <2>1, RouteSame DEF Due
      <3> QED
        BY <1>6, <2>1, <3>1 DEF SegInv, QueueIsFileSegment
    <2>2. CASE t = s
      <3>1. got[s] < h
        <4>1. h \in Due(s) => h > got[s]
          BY DEF Due
        <4>2. got[s] # End
          BY <1>1 DEF SegInv, QueueIsFileSegment
        <4> QED
          BY <1>1, <1>5, <4>1, <4>2, EndType
      <3>2. (Due(s))' = {f \in start .. pos - 1 : QueueOf(file[f]) = s /\ f > h}
        BY <1>1, <1>7, RouteSame DEF Due
      <3>3. \A f \in start .. pos - 1 : f > h => f > got[s]
        BY <1>1, <1>2, <3>1, DueFacts, EndType
      <3>4. (Due(s))' = {f \in Due(s) : f > h}
        BY <3>2, <3>3 DEF Due
      <3> QED
        BY <1>4, <1>7, <2>2, <3>4
    <2> QED
      BY <2>1, <2>2
  <1> QED
    BY <1>8, <1>9, <1>10 DEF SegInv

LEMMA SegStep ==
    ASSUME TypeOK, SegInv, [Next]_vars
    PROVE  SegInv'
  <1>1. CASE UNCHANGED vars
    BY <1>1 DEF vars, SegInv, NullMeansEof, TakenWasRead, QueueIsFileSegment, IsSegment,
                Due, QueueOf
  <1>2. CASE Next
    BY <1>2, NextCases, SegQuiet, SegSeek, SegRead, SegEnd, SegGet
  <1> QED
    BY <1>1, <1>2
-----------------------------------------------------------------------------
(* One queue stays short. *)

ShortInv == ShortAtRead /\ SomeQueueShort

LEMMA IgnoredSame ==
    ASSUME Next
    PROVE  \A s : (Ignored(s))' = Ignored(s)
  BY MediaConstant DEF Ignored

\* What SomeQueueShort says of one stream, and ShortAtRead.
LEMMA ShortIsEnough ==
    ASSUME Next, NEW s \in Streams, ~Ignored(s), TooFew(s, Len(queue'[s]) - 1)
    PROVE  SomeQueueShort'
  BY IgnoredSame DEF SomeQueueShort, TooFew

LEMMA ShortInit ==
    ASSUME Init
    PROVE  ShortInv
  <1>1. pc # "read"
    BY DEF Init
  <1>2. ASSUME NEW s \in Streams
        PROVE  TooFew(s, Len(queue[s]) - 1)
    <2>1. Len(queue[s]) = 0
      BY <1>2 DEF Init
    <2> QED
      BY <2>1, ConstantTypes DEF TooFew
  <1> QED
    BY <1>1, <1>2 DEF ShortInv, ShortAtRead, SomeQueueShort

LEMMA ShortQuiet ==
    ASSUME TypeOK, ShortInv, Next, Quiet
    PROVE  ShortInv'
  <1>1. queue' = queue /\ (pc' = "read" => pc = "read" \/ Throttle)
    BY QuietStep
  <1>2. SomeQueueShort'
    BY <1>1, IgnoredSame DEF ShortInv, SomeQueueShort, TooFew
  <1>3. ASSUME pc' = "read", Throttle
        PROVE  \E s \in Streams : ~Ignored(s) /\ ~HasEnough(s, queue[s])
    BY <1>3 DEF Throttle, streamHasEnoughPackets
  <1>4. pc' = "read" => \E s \in Streams :
            /\ ~Ignored(s)
            /\ TooFew(s, Len(queue[s])) \/ (EndsIn(queue[s]) /\ TooFew(s, Len(queue[s]) - 1))
    <2>1. \A s \in Streams : queue[s] \in Queues
      BY DEF TypeOK, Queues
    <2> QED
      BY <1>1, <1>3, <2>1, NotEnough DEF ShortInv, ShortAtRead
  <1>5. ShortAtRead'
    BY <1>1, <1>4, IgnoredSame DEF ShortAtRead, TooFew, EndsIn
  <1> QED
    BY <1>2, <1>5 DEF ShortInv

LEMMA ShortSeek ==
    ASSUME TypeOK, SegInv, Next, Seek
    PROVE  ShortInv'
  <1>1. PICK target \in 1 .. End : SeekTo(target)
    BY DEF Seek
  <1>2. pc' # "read"
    BY DEF Seek
  <1>3. ASSUME NEW s \in Streams
        PROVE  TooFew(s, Len(queue'[s]) - 1)
    <2>1. queue'[s] = << >>
      BY <1>1 DEF SeekTo, SegInv, TakenWasRead
    <2>2. Len(queue'[s]) = 0
      BY <2>1
    <2> QED
      BY <2>2, ConstantTypes DEF TooFew
  <1>4. SomeQueueShort'
    BY <1>3, IgnoredSame DEF SomeQueueShort, TooFew
  <1> QED
    BY <1>2, <1>4 DEF ShortInv, ShortAtRead

\* Before a read, with no null packet in the queues, a queue has too few.
LEMMA PickShort ==
    ASSUME TypeOK, ShortInv, pc = "read"
    PROVE  \E s \in Streams :
              /\ ~Ignored(s) /\ Len(queue[s]) \in Nat /\ queue[s] \in Queues
              /\ TooFew(s, Len(queue[s]) - 1)
              /\ NoEnd(queue[s]) => TooFew(s, Len(queue[s]))
  <1>1. PICK s \in Streams :
            /\ ~Ignored(s)
            /\ TooFew(s, Len(queue[s])) \/ (EndsIn(queue[s]) /\ TooFew(s, Len(queue[s]) - 1))
    BY DEF ShortInv, ShortAtRead
  <1>2. queue[s] \in Queues /\ Len(queue[s]) \in Nat
    BY DueFacts, SizeOfQueue
  <1>3. TooFew(s, Len(queue[s])) => TooFew(s, Len(queue[s]) - 1)
    BY <1>2, FewerTooFew
  <1>4. NoEnd(queue[s]) => ~EndsIn(queue[s])
    BY <1>2 DEF NoEnd, EndsIn, Queues
  <1> QED
    BY <1>1, <1>2, <1>3, <1>4

LEMMA ShortRead ==
    ASSUME TypeOK, SegInv, ShortInv, Next, ReadPacket \/ ReadEnd \/ ReadBreaks
    PROVE  ShortInv'
  <1>1. pc = "read" /\ pc' # "read"
    BY DEF ReadPacket, ReadEnd, ReadBreaks
  <1>2. PICK s \in Streams :
              /\ ~Ignored(s) /\ Len(queue[s]) \in Nat /\ queue[s] \in Queues
              /\ TooFew(s, Len(queue[s]) - 1)
              /\ NoEnd(queue[s]) => TooFew(s, Len(queue[s]))
    BY <1>1, PickShort
  <1>3. \A x \in 1 .. End : Len(Append(queue[s], x)) = Len(queue[s]) + 1
    BY <1>2 DEF Queues
  <1>4. queue'[s] = queue[s] \/
        (NoEnd(queue[s]) /\ \E x \in 1 .. End : queue'[s] = Append(queue[s], x))
    <2>1. CASE ReadPacket
      <3>1. pos \in 1 .. End /\ pos # End /\ pc # "closed"
        BY <2>1 DEF ReadPacket, TypeOK
      <3>2. NoEnd(queue[s])
        BY <3>1, NothingEnded
      <3> QED
        BY <2>1, <3>1, <3>2 DEF ReadPacket
    <2>2. CASE ReadEnd \/ ReadBreaks
      <3>1. CASE queue' = queue
        BY <3>1
      <3>2. CASE ~eof /\ EndsAppended
        <4>1. NoEnd(queue[s])
          BY <3>2, NothingEnded
        <4>2. queue'[s] = Append(queue[s], End) /\ End \in 1 .. End
          BY <1>2, <3>2, EndType DEF EndsAppended, Ignored
        <4> QED
          BY <4>1, <4>2
      <3> QED
        BY <2>2, <3>1, <3>2, EndStep
    <2> QED
      BY <2>1, <2>2
  <1>5. TooFew(s, Len(queue'[s]) - 1)
    <2>1. CASE queue'[s] = queue[s]
      BY <1>2, <2>1
    <2>2. ASSUME NEW x \in 1 .. End, queue'[s] = Append(queue[s], x), NoEnd(queue[s])
          PROVE  TooFew(s, Len(queue'[s]) - 1)
      <3>1. Len(queue'[s]) - 1 = Len(queue[s])
        BY <1>2, <1>3, <2>2
      <3> QED
        BY <1>2, <2>2, <3>1
    <2> QED
      BY <1>4, <2>1, <2>2
  <1> QED
    BY <1>1, <1>2, <1>5, ShortIsEnough DEF ShortInv, ShortAtRead

LEMMA ShortGet ==
    ASSUME TypeOK, ShortInv, Next, NEW t \in Streams, getPacket(t)
    PROVE  ShortInv'
  <1> DEFINE q == queue[t]
  <1>1. /\ queue' = [queue EXCEPT ![t] = Tail(q)] /\ q # << >> /\ q \in Queues /\ pc' = pc
        /\ queue \in [Streams -> Queues]
    BY DueFacts DEF getPacket, TypeOK, Queues
  <1>2. /\ queue'[t] = Tail(q) /\ \A s \in Streams : s # t => queue'[s] = queue[s]
    BY <1>1
  <1>3. /\ Len(Tail(q)) = Len(q) - 1 /\ Len(q) \in Nat /\ Len(q) > 0
        /\ Tail(q) # << >> => (EndsIn(Tail(q)) <=> EndsIn(q))
        /\ Tail(q) = << >> => Len(q) - 1 = 0
    BY <1>1, SizeTail, HeadType, SizeOfQueue
  <1>4. /\ TooFew(t, Len(q)) => TooFew(t, Len(q) - 1)
        /\ TooFew(t, Len(q) - 1) => TooFew(t, Len(q) - 1 - 1)
    BY <1>3, FewerTooFew
  <1>5. SomeQueueShort'
    <2> SUFFICES ASSUME NEW s \in Streams, ~Ignored(s), TooFew(s, Len(queue[s]) - 1)
                 PROVE  TooFew(s, Len(queue'[s]) - 1)
      BY IgnoredSame DEF ShortInv, SomeQueueShort, TooFew
    <2>1. CASE s = t
      BY <1>2, <1>3, <1>4, <2>1
    <2>2. CASE s # t
      BY <1>2, <2>2
    <2> QED
      BY <2>1, <2>2
  <1>6. ASSUME pc = "read"
        PROVE  \E s \in Streams :
            /\ ~Ignored(s)
            /\ TooFew(s, Len(queue'[s])) \/ (EndsIn(queue'[s]) /\ TooFew(s, Len(queue'[s]) - 1))
    <2>1. PICK s \in Streams :
            /\ ~Ignored(s)
            /\ TooFew(s, Len(queue[s])) \/ (EndsIn(queue[s]) /\ TooFew(s, Len(queue[s]) - 1))
      BY <1>6 DEF ShortInv, ShortAtRead
    <2>2. CASE s # t
      BY <1>2, <2>1, <2>2
    <2>3. CASE s = t /\ TooFew(t, Len(q))
      BY <1>2, <1>3, <1>4, <2>1, <2>3
    <2>4. CASE s = t /\ EndsIn(q) /\ TooFew(t, Len(q) - 1) /\ Tail(q) # << >>
      BY <1>2, <1>3, <1>4, <2>1, <2>4
    <2>5. CASE s = t /\ Tail(q) = << >>
      <3>1. Len(queue'[s]) = 0
        BY <1>2, <1>3, <2>5
      <3> QED
        BY <2>1, <3>1, ConstantTypes DEF TooFew
    <2> QED
      BY <2>1, <2>2, <2>3, <2>4, <2>5
  <1>7. ShortAtRead'
    BY <1>1, <1>6, IgnoredSame DEF ShortAtRead, TooFew, EndsIn
  <1> QED
    BY <1>5, <1>7 DEF ShortInv

LEMMA ShortStep ==
    ASSUME TypeOK, SegInv, ShortInv, [Next]_vars
    PROVE  ShortInv'
  <1>1. CASE UNCHANGED vars
    BY <1>1 DEF vars, ShortInv, ShortAtRead, SomeQueueShort, Ignored, TooFew, EndsIn
  <1>2. CASE Next
    BY <1>2, NextCases, ShortQuiet, ShortSeek, ShortRead, ShortGet
  <1> QED
    BY <1>1, <1>2
-----------------------------------------------------------------------------
(* A live stream's queues stay small. *)

LiveInv == SmallAtRead /\ LiveBounded

LEMMA SizeTypes ==
    ASSUME TypeOK
    PROVE  /\ \A s \in Streams : queue[s] \in Queues /\ getSize(queue[s]) \in Nat
           /\ TotalSize \in Nat
           /\ "audio" \in Streams /\ "video" \in Streams /\ "subtitle" \in Streams
  <1>1. "audio" \in Streams /\ "video" \in Streams /\ "subtitle" \in Streams
    BY DEF Streams
  <1>2. ASSUME NEW s \in Streams
        PROVE  queue[s] \in Queues /\ getSize(queue[s]) \in Nat
    <2>1. queue[s] \in Queues
      BY DEF TypeOK, Queues
    <2> QED
      BY <2>1, SizeOfQueue
  <1> QED
    BY <1>1, <1>2 DEF TotalSize

\* The size after a step.
LEMMA TotalNext ==
    TotalSize' = getSize(queue'["audio"]) + getSize(queue'["video"]) + getSize(queue'["subtitle"])
  BY DEF TotalSize, getSize, DataLen, EndsIn

LEMMA SameTotal ==
    ASSUME queue' = queue
    PROVE  TotalSize' = TotalSize
  BY TotalNext DEF TotalSize

LEMMA LiveInit ==
    ASSUME Init
    PROVE  LiveInv
  <1>1. pc # "read" /\ \A s \in Streams : queue[s] = << >>
    BY DEF Init
  <1>2. TotalSize = 0
    BY <1>1, SizeOfEmpty DEF TotalSize, Streams
  <1> QED
    BY <1>1, <1>2, ConstantTypes DEF LiveInv, SmallAtRead, LiveBounded

LEMMA LiveQuiet ==
    ASSUME TypeOK, LiveInv, Next, Quiet
    PROVE  LiveInv'
  <1>1. /\ queue' = queue /\ infiniteBuffer' = infiniteBuffer
        /\ pc' = "read" => pc = "read" \/ Throttle
    BY QuietStep, MediaConstant
  <1>2. TotalSize' = TotalSize
    BY <1>1, SameTotal
  <1>3. LiveBounded'
    BY <1>1, <1>2 DEF LiveInv, LiveBounded
  <1>4. ASSUME pc' = "read", Throttle, infiniteBuffer
        PROVE  TotalSize <= MAX_QUEUE_SIZE
    <2>1. ~TooLarge
      BY <1>4 DEF Throttle
    <2> QED
      BY <1>4, <2>1, SizeTypes, ConstantTypes DEF TooLarge
  <1>5. SmallAtRead'
    BY <1>1, <1>2, <1>4 DEF LiveInv, SmallAtRead
  <1> QED
    BY <1>3, <1>5 DEF LiveInv

LEMMA LiveSeek ==
    ASSUME TypeOK, SegInv, Next, Seek
    PROVE  LiveInv'
  <1>1. PICK target \in 1 .. End : SeekTo(target)
    BY DEF Seek
  <1>2. \A s \in Streams : queue'[s] = << >>
    BY <1>1 DEF SeekTo, SegInv, TakenWasRead
  <1>3. TotalSize' = 0
    BY <1>2, TotalNext, SizeOfEmpty DEF Streams
  <1>4. pc' # "read"
    BY DEF Seek
  <1> QED
    BY <1>3, <1>4, ConstantTypes DEF LiveInv, SmallAtRead, LiveBounded

LEMMA LiveRead ==
    ASSUME TypeOK, SegInv, LiveInv, Next, ReadPacket
    PROVE  LiveInv'
  <1>1. pc = "read" /\ pc' # "read" /\ pos \in Packets /\ infiniteBuffer' = infiniteBuffer
    BY MediaConstant, EndType DEF ReadPacket, TypeOK
  <1>2. \A s \in Streams : NoEnd(queue[s])
    BY <1>1, NothingEnded, EndType
  <1>3. \A s \in Streams :
            /\ queue'[s] # queue[s] => s = QueueOf(file[pos])
            /\ \/ queue'[s] = queue[s]
               \/ getSize(queue'[s]) = getSize(queue[s]) + PacketSize
    <2> SUFFICES ASSUME NEW s \in Streams
                 PROVE  \/ queue'[s] = queue[s]
                        \/ s = QueueOf(file[pos]) /\ queue'[s] = Append(queue[s], pos)
      BY <1>1, <1>2, SizeTypes, SizeAppend
    <2> QED
      BY DEF ReadPacket
  <1>4. TotalSize' <= TotalSize + PacketSize
    <2> DEFINE n == QueueOf(file[pos])
    <2> HIDE DEF n
    <2>1. CASE n \notin Streams \/ queue'[n] = queue[n]
      <3>1. \A s \in Streams : queue'[s] = queue[s]
        BY <1>3, <2>1 DEF n
      <3> QED
        BY <3>1, TotalNext, SizeTypes, ConstantTypes DEF TotalSize
    <2>2. CASE n \in Streams /\ getSize(queue'[n]) = getSize(queue[n]) + PacketSize
      <3>1. \A s \in Streams : s # n => getSize(queue'[s]) = getSize(queue[s])
        BY <1>3 DEF n
      <3>2. n = "audio" \/ n = "video" \/ n = "subtitle"
        BY <2>2 DEF Streams
      <3>3. "audio" # "video" /\ "audio" # "subtitle" /\ "video" # "subtitle"
        OBVIOUS
      <3> QED
        BY <2>2, <3>1, <3>2, <3>3, TotalNext, SizeTypes, ConstantTypes DEF TotalSize
    <2> QED
      BY <1>3, <2>1, <2>2
  <1>5. infiniteBuffer => TotalSize <= MAX_QUEUE_SIZE
    BY <1>1 DEF LiveInv, SmallAtRead
  <1>6. LiveBounded'
    <2>1. TotalSize' \in Int
      <3>1. \A s \in Streams : getSize(queue'[s]) \in Int
        BY <1>3, SizeTypes, ConstantTypes
      <3> QED
        BY <3>1, TotalNext, SizeTypes
    <2> QED
      BY <1>1, <1>4, <1>5, <2>1, SizeTypes, ConstantTypes DEF LiveBounded
  <1> QED
    BY <1>1, <1>6 DEF LiveInv, SmallAtRead

LEMMA LiveEnd ==
    ASSUME TypeOK, SegInv, LiveInv, Next, ReadEnd \/ ReadBreaks
    PROVE  LiveInv'
  <1>1. pc = "read" /\ pc' # "read" /\ infiniteBuffer' = infiniteBuffer
    BY MediaConstant DEF ReadEnd, ReadBreaks
  <1>2. infiniteBuffer => TotalSize <= MAX_QUEUE_SIZE
    BY <1>1 DEF LiveInv, SmallAtRead
  <1>3. CASE queue' = queue
    BY <1>1, <1>2, <1>3, SameTotal, SizeTypes, ConstantTypes DEF LiveInv, SmallAtRead, LiveBounded
  <1>4. CASE ~eof /\ EndsAppended
    <2>1. \A s \in Streams : NoEnd(queue[s])
      BY <1>4, NothingEnded
    <2>2. ASSUME NEW s \in Streams
          PROVE  /\ getSize(queue'[s]) \in Nat
                 /\ getSize(queue'[s]) <= getSize(queue[s]) + NodeSize
      <3>1. queue'[s] = queue[s] \/ queue'[s] = Append(queue[s], End)
        BY <1>4 DEF EndsAppended
      <3>2. queue[s] \in Queues /\ getSize(queue[s]) \in Nat
        BY SizeTypes
      <3>3. getSize(Append(queue[s], End)) = getSize(queue[s]) + NodeSize
        BY <2>1, <3>2, SizeAppend
      <3>4. getSize(queue'[s]) = getSize(queue[s]) \/ getSize(queue'[s]) = getSize(queue[s]) + NodeSize
        BY <3>1, <3>3
      <3> DEFINE a == getSize(queue[s])
                 b == getSize(queue'[s])
      <3> HIDE DEF a, b
      <3>5. a \in Nat /\ (b = a \/ b = a + NodeSize)
        BY <3>2, <3>4 DEF a, b
      <3>6. b \in Nat /\ b <= a + NodeSize
        BY <3>5, ConstantTypes
      <3> QED
        BY <3>6 DEF a, b
    <2>3. TotalSize' <= TotalSize + 3 * NodeSize /\ TotalSize' \in Nat
      BY <2>2, TotalNext, SizeTypes, ConstantTypes DEF TotalSize
    <2>4. LiveBounded'
      BY <1>1, <1>2, <2>3, SizeTypes, ConstantTypes DEF LiveBounded
    <2> QED
      BY <1>1, <2>4 DEF LiveInv, SmallAtRead
  <1> QED
    BY <1>3, <1>4, EndStep

LEMMA LiveGet ==
    ASSUME TypeOK, LiveInv, Next, NEW t \in Streams, getPacket(t)
    PROVE  LiveInv'
  <1>1. /\ queue' = [queue EXCEPT ![t] = Tail(queue[t])] /\ queue[t] # << >> /\ pc' = pc
        /\ infiniteBuffer' = infiniteBuffer /\ queue \in [Streams -> Queues]
    BY MediaConstant DEF getPacket, TypeOK, Queues
  <1>2. ASSUME NEW s \in Streams
        PROVE  getSize(queue'[s]) \in Nat /\ getSize(queue'[s]) <= getSize(queue[s])
    <2>1. CASE s = t
      <3>1. queue'[s] = Tail(queue[s]) /\ queue[s] \in Queues /\ queue[s] # << >>
        BY <1>1, <2>1
      <3> QED
        BY <3>1, SizeTail, SizeOfQueue
    <2>2. CASE s # t
      <3>1. queue'[s] = queue[s]
        BY <1>1, <2>2
      <3> QED
        BY <3>1, SizeTypes
    <2> QED
      BY <2>1, <2>2
  <1>3. TotalSize' <= TotalSize /\ TotalSize' \in Nat
    BY <1>2, TotalNext, SizeTypes DEF TotalSize
  <1>4. LiveBounded'
    BY <1>1, <1>3, SizeTypes, ConstantTypes DEF LiveInv, LiveBounded
  <1>5. SmallAtRead'
    BY <1>1, <1>3, SizeTypes, ConstantTypes DEF LiveInv, SmallAtRead
  <1> QED
    BY <1>4, <1>5 DEF LiveInv

LEMMA LiveStep ==
    ASSUME TypeOK, SegInv, LiveInv, [Next]_vars
    PROVE  LiveInv'
  <1>1. CASE UNCHANGED vars
    BY <1>1, SameTotal DEF vars, LiveInv, SmallAtRead, LiveBounded
  <1>2. CASE Next
    BY <1>2, NextCases, LiveQuiet, LiveSeek, LiveRead, LiveEnd, LiveGet
  <1> QED
    BY <1>1, <1>2

-----------------------------------------------------------------------------
(* The theorems. *)

LEMMA InvParts == Inv <=> TypeOK /\ SegInv /\ ShortInv /\ LiveInv
  BY DEF Inv, ShortInv, LiveInv

LEMMA InvAlways == Spec => []Inv
  <1>1. Init => Inv
    BY TypeInit, SegInit, ShortInit, LiveInit, InvParts
  <1>2. Inv /\ [Next]_vars => Inv'
    <2> SUFFICES ASSUME TypeOK, SegInv, ShortInv, LiveInv, [Next]_vars
                 PROVE  TypeOK' /\ SegInv' /\ ShortInv' /\ LiveInv'
      BY DEF Inv, ShortInv, LiveInv
    <2> QED
      BY TypeStep, SegStep, ShortStep, LiveStep
  <1> QED
    BY <1>1, <1>2, PTL DEF Spec

\* The variables keep their types: the file is never read past its end, and no
\* queue holds what is neither a packet of the file nor the null packet.
THEOREM DemuxerTypeCorrect == Spec => []TypeOK
  <1>1. Inv => TypeOK
    BY DEF Inv
  <1> QED
    BY <1>1, InvAlways, PTL

\* For any file, any values of the uninitialised indexes, any number of seeks
\* and errors: what a queue holds is the part of its stream, in order and
\* without gaps, from the last seek or what was taken since to where the file is
\* read, and at most one null packet at its end.
THEOREM QueuesAreSegments == Spec => []QueueIsFileSegment
  <1>1. Inv => QueueIsFileSegment
    BY DEF Inv, SegInv
  <1> QED
    BY <1>1, InvAlways, PTL

\* The throttle of a file that is not live never lets all of its queues grow, at
\* any limits and durations.
THEOREM OneQueueShort == Spec => []SomeQueueShort
  <1>1. Inv => SomeQueueShort
    BY DEF Inv
  <1> QED
    BY <1>1, InvAlways, PTL

\* The queues of a live stream exceed the limit by one packet, or three null
\* packets, at most, whatever the sizes.
THEOREM LiveQueuesBounded == Spec => []LiveBounded
  <1>1. Inv => LiveBounded
    BY DEF Inv
  <1> QED
    BY <1>1, InvAlways, PTL

-----------------------------------------------------------------------------
(* The demuxer implements PacketFeed, once for each stream.                *)

\* What PacketFeed says of stream s, its variables replaced.
Awaited(s) == {f \in PacketsOf(s) : f >= start /\ f > got[s]}

Closed == pc = "closed"

FeedGives(s) ==
    /\ \E f \in Awaited(s) : (\A g \in Awaited(s) : f <= g) /\ got'[s] = f
    /\ start' = start /\ Closed' = Closed

FeedEnds(s) ==
    /\ got[s] # End /\ got'[s] = End
    /\ Awaited(s) = {} \/ Closed
    /\ start' = start /\ Closed' = Closed

FeedSeeks(s) ==
    /\ ~Closed /\ Closed' = Closed
    /\ start' \in 1 .. End /\ got'[s] = 0

FeedBreaks(s) ==
    /\ ~Closed /\ Closed' = TRUE
    /\ start' = start /\ got'[s] = got[s]

FeedRests(s) == start' = start /\ got'[s] = got[s] /\ Closed' = Closed

\* A stream's packets are those of the file that go to its queue, for ever.
FeedStep(s) ==
    /\ (PacketsOf(s))' = PacketsOf(s)
    /\ FeedGives(s) \/ FeedEnds(s) \/ FeedSeeks(s) \/ FeedBreaks(s) \/ FeedRests(s)

\* What waits in the file or in the queue is what is due, and what is not read
\* yet.
LEMMA AwaitedFacts ==
    ASSUME TypeOK, NEW s \in Streams
    PROVE  /\ Due(s) \subseteq Awaited(s)
           /\ \A f \in Awaited(s) : f \in Due(s) \/ f >= pos
  <1>1. /\ pos \in 1 .. End /\ start \in 1 .. pos /\ got[s] \in 0 .. End
        /\ Due(s) \subseteq Packets
    BY DueFacts
  <1> QED
    BY <1>1, EndType DEF Due, Awaited, PacketsOf

\* A packet that is taken is the first that is awaited; a null packet is taken
\* when none is, or when the file is closed.
LEMMA GetFeeds ==
    ASSUME TypeOK, SegInv, Next, NEW s \in Streams, getPacket(s)
    PROVE  FeedGives(s) \/ FeedEnds(s)
  <1> DEFINE q == queue[s]
             h == Head(queue[s])
  <1>1. /\ q # << >> /\ q \in Queues /\ got'[s] = h /\ start' = start /\ Closed' = Closed
        /\ got[s] \in 0 .. End /\ pos \in 1 .. End
        /\ Due(s) \subseteq Packets /\ \A f \in Due(s) : f < pos
    BY DueFacts DEF getPacket, TypeOK, Closed
  <1>2. Len(q) \in Nat \ {0} /\ h = q[1] /\ h \in 1 .. End /\ 1 \in 1 .. Len(q)
    BY <1>1, SizeTail, HeadType DEF Queues
  <1>3. /\ IsSegment(q, Due(s)) /\ got[s] # End
        /\ \A f \in Due(s) : \E i \in 1 .. Len(q) : q[i] = f
        /\ \A i \in 1 .. Len(q) : i # 1 => q[1] < q[i]
    BY <1>1, <1>2 DEF SegInv, QueueIsFileSegment, IsSegment
  <1>4. \A f \in Due(s) : h <= f /\ f < End
    <2>1. ASSUME NEW f \in Due(s)
          PROVE  h <= f
      <3>1. PICK i \in 1 .. Len(q) : q[i] = f
        BY <1>3
      <3> QED
        BY <1>1, <1>2, <1>3, <3>1, EndType
    <2> QED
      BY <1>1, <2>1, EndType
  <1>5. CASE h # End
    <2>1. h \in Due(s)
      BY <1>2, <1>3, <1>5 DEF IsSegment
    <2>2. \A g \in Awaited(s) : h <= g
      BY <1>1, <1>4, <2>1, AwaitedFacts, EndType DEF Awaited, PacketsOf
    <2> QED
      BY <1>1, <2>1, <2>2, AwaitedFacts DEF FeedGives
  <1>6. CASE h = End
    <2>1. pos = End \/ Closed
      BY <1>2, <1>6 DEF SegInv, NullMeansEof, Closed
    <2>2. Due(s) = {}
      BY <1>1, <1>4, <1>6, EndType
    <2>3. pos = End => Awaited(s) = {}
      BY <2>2, AwaitedFacts, EndType DEF Awaited, PacketsOf
    <2> QED
      BY <1>1, <1>3, <1>6, <2>1, <2>3 DEF FeedEnds
  <1> QED
    BY <1>5, <1>6

\* The step of one decode thread is a rest for the others.
LEMMA FeedAlways ==
    ASSUME TypeOK, SegInv, [Next]_vars, NEW s \in Streams
    PROVE  FeedStep(s)
  <1>1. CASE UNCHANGED vars
    BY <1>1 DEF vars, FeedStep, FeedRests, Closed, PacketsOf, QueueOf
  <1>2. CASE Next
    <2>1. (PacketsOf(s))' = PacketsOf(s)
      BY <1>2, RouteSame DEF PacketsOf
    <2>2. CASE Quiet
      <3>1. (pc = "closed") = (pc' = "closed")
        BY <2>2 DEF Quiet, NoSeek, SeekFails, Throttle, ReadFails, WaitEnds, RequestSeek
      <3> QED
        BY <2>1, <2>2, <3>1, QuietStep DEF FeedStep, FeedRests, Closed
    <2>3. CASE Seek
      BY <2>1, <2>3 DEF Seek, SeekTo, FeedStep, FeedSeeks, Closed
    <2>4. CASE ReadPacket \/ ReadEnd
      BY <2>1, <2>4 DEF ReadPacket, ReadEnd, FeedStep, FeedRests, Closed
    <2>5. CASE ReadBreaks
      BY <2>1, <2>5 DEF ReadBreaks, FeedStep, FeedBreaks, Closed
    <2>6. CASE \E t \in Streams : getPacket(t)
      <3>1. PICK t \in Streams : getPacket(t)
        BY <2>6
      <3>2. CASE t = s
        BY <1>2, <2>1, <3>1, <3>2, GetFeeds DEF FeedStep
      <3>3. CASE t # s
        BY <2>1, <3>1, <3>3 DEF getPacket, TypeOK, FeedStep, FeedRests, Closed
      <3> QED
        BY <3>2, <3>3
    <2> QED
      BY <1>2, <2>2, <2>3, <2>4, <2>5, <2>6, NextCases
  <1> QED
    BY <1>1, <1>2

\* Whatever the file, the limits, the stream indexes, the errors and the seeks,
\* each decode thread gets the packets of its stream one after the other and none
\* left out, from the last seek on, and then one null packet, not before the end
\* of the stream unless the file is closed: queues, throttle and the reads that
\* are tried again do not show.
THEOREM DemuxerFeedsDecoders == Spec => FeedSpec
  <1>1. Init => AudioFeed!Init /\ VideoFeed!Init /\ SubtitleFeed!Init
    BY DEF Init, AudioFeed!Init, VideoFeed!Init, SubtitleFeed!Init, PacketsOf, Packets, Streams
  <1>2. ASSUME Inv, [Next]_vars
        PROVE  /\ [AudioFeed!Next]_(AudioFeed!feedVars)
               /\ [VideoFeed!Next]_(VideoFeed!feedVars)
               /\ [SubtitleFeed!Next]_(SubtitleFeed!feedVars)
    <2>1. FeedStep("audio") /\ FeedStep("video") /\ FeedStep("subtitle")
      BY <1>2, FeedAlways DEF Inv, Streams
    <2>2. [AudioFeed!Next]_(AudioFeed!feedVars)
      BY <2>1 DEF FeedStep, FeedGives, FeedEnds, FeedSeeks, FeedBreaks, FeedRests, Awaited, Closed,
        End, AudioFeed!Next, AudioFeed!Give, AudioFeed!GiveNull, AudioFeed!Seek,
        AudioFeed!Break, AudioFeed!feedVars, AudioFeed!Awaited, AudioFeed!Null
    <2>3. [VideoFeed!Next]_(VideoFeed!feedVars)
      BY <2>1 DEF FeedStep, FeedGives, FeedEnds, FeedSeeks, FeedBreaks, FeedRests, Awaited, Closed,
        End, VideoFeed!Next, VideoFeed!Give, VideoFeed!GiveNull, VideoFeed!Seek,
        VideoFeed!Break, VideoFeed!feedVars, VideoFeed!Awaited, VideoFeed!Null
    <2>4. [SubtitleFeed!Next]_(SubtitleFeed!feedVars)
      BY <2>1 DEF FeedStep, FeedGives, FeedEnds, FeedSeeks, FeedBreaks, FeedRests, Awaited, Closed,
        End, SubtitleFeed!Next, SubtitleFeed!Give, SubtitleFeed!GiveNull, SubtitleFeed!Seek,
        SubtitleFeed!Break, SubtitleFeed!feedVars, SubtitleFeed!Awaited, SubtitleFeed!Null
    <2> QED
      BY <2>2, <2>3, <2>4
  <1> QED
    BY <1>1, <1>2, InvAlways, PTL DEF Spec, FeedSpec, AudioFeed!Spec, VideoFeed!Spec, SubtitleFeed!Spec
=============================================================================
