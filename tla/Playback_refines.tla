-------------------------- MODULE Playback_refines --------------------------
(***************************************************************************)
(* Playback implements Screen, and loses nothing, for files of any length, *)
(* queues and codecs of any size and any number of seeks, errors and       *)
(* changes of serial.                                                      *)
(***************************************************************************)
EXTENDS Playback_proofs, SequenceTheorems

End == FileLen + 1
Decodable == (1 .. FileLen) \ Corrupt

(* The video queue. *)

VideoOnly ==
    /\ \A f \in 1 .. FileLen : file[f] = "video"
    /\ index["audio"] # "video" /\ index["video"] = "video" /\ ~attachedPic

\* The packet to be taken next.
Due == IF got["video"] = 0 THEN start ELSE got["video"] + 1

EndQueued == queue["video"] # << >> /\ queue["video"][Len(queue["video"])] = End

\* Where the null packet can have been put.
AtEnd == eof /\ (pos = End \/ pc = "closed")

\* The queue holds the packets from the one due up to where the file is read, and
\* after them perhaps the null packet.
QueueRuns ==
    /\ got["video"] # 0 => got["video"] >= start
    /\ \A i \in 1 .. Len(queue["video"]) :
          queue["video"][i] = Due + i - 1 \/ (i = Len(queue["video"]) /\ EndQueued)
    /\ got["video"] = End => AtEnd /\ queue["video"] = << >>
    /\ EndQueued => AtEnd /\ pos = Due + Len(queue["video"]) - 1
    /\ got["video"] # End /\ ~EndQueued => pos = Due + Len(queue["video"])

(* The frames and the packet between the video queue and the screen. *)

Hand   == IF thread = "push" THEN <<frame>> ELSE << >>
Coming == IF thread \in {"check", "send"} THEN <<pkt>> ELSE << >>

\* Nearest to the screen first.
Line == ((frames \o Hand) \o codec) \o Coming

\* What of after the last seek has left the queue.
Fetched == {g \in start .. pos - 1 : g <= got["video"]}

Current(x) == x[1] = epoch

\* Behind what is of after the last seek everything is, and of later in the file.
LineOrdered ==
    \A i, j \in 1 .. Len(Line) :
        i < j /\ Current(Line[i]) => Current(Line[j]) /\ Line[i][2] < Line[j][2]

\* It has been taken from the queue since, and comes after all that is shown.
LineCurrent ==
    /\ shown \subseteq Fetched \ Corrupt
    /\ \A i \in 1 .. Len(Line) :
          /\ Line[i][1] <= epoch
          /\ Current(Line[i]) =>
                /\ Line[i][2] \in Fetched \cup {End} /\ Line[i][2] <= got["video"]
                /\ \A g \in shown : g < Line[i][2]
          /\ shown # {} => Current(Line[i])

\* What was thrown away since has been taken, is not shown and is no longer in line.
LineThrown ==
    /\ thrown \subseteq 1 .. End /\ shown \cap thrown = {}
    /\ \A t \in thrown : t <= got["video"]
    /\ \A i \in 1 .. Len(Line) : Current(Line[i]) => Line[i][2] \notin thrown

\* What was taken since and can be shown has been, or was thrown away, or is still
\* in line.
LineKeepsAll ==
    \A g \in Fetched \ Corrupt :
        g \in shown \cup thrown \/ \E i \in 1 .. Len(Line) : Line[i] = <<epoch, g>>

\* The codec gives no frame for a corrupt packet or a null one.
FramesDecoded ==
    /\ \A i \in 1 .. Len(frames) : frames[i][2] \in Decodable
    /\ \A i \in 1 .. Len(codec) : codec[i][2] \in Decodable
    /\ thread = "push" => frame[2] \in Decodable

LineInv == LineOrdered /\ LineCurrent /\ LineThrown /\ LineKeepsAll
Refined == Inv /\ VideoOnly /\ QueueRuns /\ LineInv /\ FramesDecoded
-----------------------------------------------------------------------------
(* Sequences end to end. *)

LEMMA HeadFirst ==
    ASSUME NEW S, NEW c \in Seq(S), c # << >>
    PROVE  Head(c) \in S /\ Tail(c) \in Seq(S) /\ <<Head(c)>> \o Tail(c) = c
  <1>1. Head(c) \in S /\ Tail(c) \in Seq(S) /\ Len(Tail(c)) = Len(c) - 1
        /\ Len(c) \in Nat \ {0} /\ Head(c) = c[1]
        /\ \A i \in 1 .. Len(Tail(c)) : Tail(c)[i] = c[i + 1]
    BY Taken
  <1> DEFINE h == <<Head(c)>>
             w == h \o Tail(c)
  <1>2. h \in Seq(S) /\ Len(h) = 1 /\ h[1] = c[1]
    BY <1>1
  <1>3. /\ w \in Seq(S) /\ Len(w) = Len(h) + Len(Tail(c))
        /\ \A i \in 1 .. Len(h) + Len(Tail(c)) :
              w[i] = IF i <= Len(h) THEN h[i] ELSE Tail(c)[i - Len(h)]
    BY <1>1, <1>2, ConcatProperties
  <1> HIDE DEF h, w
  <1>4. \A i \in 1 .. Len(c) : w[i] = c[i]
    <2> SUFFICES ASSUME NEW i \in 1 .. Len(c)
                 PROVE  w[i] = c[i]
      OBVIOUS
    <2>1. i \in 1 .. Len(h) + Len(Tail(c))
      BY <1>1, <1>2
    <2>2. CASE i = 1
      BY <1>2, <1>3, <2>1, <2>2
    <2>3. CASE i # 1
      <3>1. i - 1 \in 1 .. Len(Tail(c)) /\ (i - 1) + 1 = i
        BY <1>1, <2>3
      <3>2. Tail(c)[i - 1] = c[i]
        BY <1>1, <3>1
      <3> QED
        BY <1>2, <1>3, <2>1, <2>3, <3>2
    <2> QED
      BY <2>2, <2>3
  <1>5. w = c
    BY <1>1, <1>2, <1>3, <1>4, SeqEqual
  <1> QED
    BY <1>1, <1>5 DEF h, w

\* The first of c passes from one sequence to the one before it.
LEMMA FirstPasses ==
    ASSUME NEW S, NEW f \in Seq(S), NEW c \in Seq(S), c # << >>
    PROVE  (f \o <<Head(c)>>) \o Tail(c) = f \o c
  <1>1. Head(c) \in S /\ Tail(c) \in Seq(S) /\ <<Head(c)>> \o Tail(c) = c
    BY HeadFirst
  <1>2. <<Head(c)>> \in Seq(S)
    BY <1>1
  <1> QED
    BY <1>1, <1>2, ConcatAssociative

\* The first of the whole is the first of its first part.
LEMMA FirstLeaves ==
    ASSUME NEW S, NEW f \in Seq(S), NEW r \in Seq(S), f # << >>
    PROVE  f \o r # << >> /\ Head(f \o r) = Head(f) /\ Tail(f \o r) = Tail(f) \o r
  <1>1. /\ Head(f) \in S /\ Tail(f) \in Seq(S) /\ Head(f) = f[1]
        /\ Len(f) \in Nat \ {0} /\ Len(Tail(f)) = Len(f) - 1
        /\ \A i \in 1 .. Len(Tail(f)) : Tail(f)[i] = f[i + 1]
    BY Taken
  <1> DEFINE w == f \o r
             v == Tail(f) \o r
  <1>2. /\ w \in Seq(S) /\ Len(w) = Len(f) + Len(r) /\ Len(r) \in Nat
        /\ \A i \in 1 .. Len(f) + Len(r) : w[i] = IF i <= Len(f) THEN f[i] ELSE r[i - Len(f)]
    BY ConcatProperties
  <1>3. /\ v \in Seq(S) /\ Len(v) = Len(f) - 1 + Len(r)
        /\ \A i \in 1 .. Len(f) - 1 + Len(r) :
              v[i] = IF i <= Len(f) - 1 THEN Tail(f)[i] ELSE r[i - (Len(f) - 1)]
    BY <1>1, ConcatProperties
  <1> HIDE DEF w, v
  <1>4. w # << >>
    BY <1>1, <1>2, Nothing
  <1>5. /\ Head(w) = w[1] /\ Tail(w) \in Seq(S) /\ Len(Tail(w)) = Len(w) - 1
        /\ \A i \in 1 .. Len(Tail(w)) : Tail(w)[i] = w[i + 1]
    BY <1>2, <1>4, Taken
  <1>6. w[1] = f[1]
    BY <1>1, <1>2
  <1>7. \A i \in 1 .. Len(v) : Tail(w)[i] = v[i]
    <2> SUFFICES ASSUME NEW i \in 1 .. Len(v)
                 PROVE  Tail(w)[i] = v[i]
      OBVIOUS
    <2>1. /\ i + 1 \in 1 .. Len(f) + Len(r) /\ i \in 1 .. Len(Tail(w))
          /\ i \in 1 .. Len(f) - 1 + Len(r)
      BY <1>1, <1>2, <1>3, <1>5
    <2>2. Tail(w)[i] = IF i + 1 <= Len(f) THEN f[i + 1] ELSE r[i + 1 - Len(f)]
      BY <1>2, <1>5, <2>1
    <2>3. CASE i <= Len(f) - 1
      <3>1. i \in 1 .. Len(Tail(f))
        BY <1>1, <2>3
      <3> QED
        BY <1>1, <1>3, <2>1, <2>2, <2>3, <3>1
    <2>4. CASE ~(i <= Len(f) - 1)
      <3>1. i + 1 - Len(f) = i - (Len(f) - 1) /\ ~(i + 1 <= Len(f))
        BY <1>1, <2>4
      <3> QED
        BY <1>3, <2>1, <2>2, <2>4, <3>1
    <2> QED
      BY <2>3, <2>4
  <1>8. Tail(w) = v
    BY <1>1, <1>2, <1>3, <1>5, <1>7, SeqEqual
  <1> QED
    BY <1>1, <1>4, <1>5, <1>6, <1>8 DEF w, v
-----------------------------------------------------------------------------
(* What the steps do to the line. *)

LEMMA LineParts ==
    ASSUME DecodeTypes
    PROVE  /\ Hand \in Seq(Sent) /\ Coming \in Seq(Sent)
           /\ frames \o Hand \in Seq(Sent) /\ (frames \o Hand) \o codec \in Seq(Sent)
           /\ Line \in Seq(Sent)
  <1>1. Hand \in Seq(Sent)
    BY DEF Hand, DecodeTypes
  <1>2. Coming \in Seq(Sent)
    BY DEF Coming, DecodeTypes
  <1>3. frames \in Seq(Sent) /\ codec \in Seq(Sent)
    BY DEF DecodeTypes
  <1>4. frames \o Hand \in Seq(Sent)
    BY <1>1, <1>3, ConcatProperties
  <1>5. (frames \o Hand) \o codec \in Seq(Sent)
    BY <1>3, <1>4, ConcatProperties
  <1>6. Line \in Seq(Sent)
    BY <1>2, <1>5, ConcatProperties DEF Line
  <1> QED
    BY <1>1, <1>2, <1>4, <1>5, <1>6

\* The last of the line is let go.
PacketGoes == pkt \in Sent /\ Line' \in Seq(Sent) /\ Line = Append(Line', pkt)

\* It is a corrupt or a null packet, one of before the seek, or one that does not
\* carry the serial.
LastGoes ==
    /\ PacketGoes
    /\ \/ (pkt[2] \notin Decodable \/ ~Current(pkt)) /\ thrown' = thrown
       \/ Current(pkt) /\ thrown' = thrown \cup {pkt[2]}

LEMMA ReceiveFrameLine ==
    ASSUME DecodeTypes, Decode!ReceiveFrame
    PROVE  Line' = Line
  <1>1. /\ thread = "receive" /\ thread' = "push" /\ frame' = Head(codec) /\ codec' = Tail(codec)
        /\ codec # << >> /\ frames' = frames /\ codec \in Seq(Sent) /\ frames \in Seq(Sent)
    BY DEF Decode!ReceiveFrame, Decode!HasFrame, DecodeTypes
  <1>2. Hand = << >> /\ Coming = << >> /\ Hand' = <<Head(codec)>> /\ Coming' = << >>
    BY <1>1 DEF Hand, Coming
  <1>3. (frames \o <<Head(codec)>>) \o Tail(codec) = frames \o codec
    BY <1>1, FirstPasses
  <1>4. frames \o << >> = frames
    BY <1>1, ConcatEmptySeq
  <1> QED
    BY <1>1, <1>2, <1>3, <1>4 DEF Line

LEMMA PushLine ==
    ASSUME DecodeTypes, Decode!Push
    PROVE  Line' = Line
  <1>1. /\ thread = "push" /\ thread' = "ended" /\ frames' = Append(frames, frame)
        /\ codec' = codec /\ frames \in Seq(Sent) /\ frame \in Sent
    BY DEF Decode!Push, Decode!codecVars, DecodeTypes
  <1>2. Hand = <<frame>> /\ Coming = << >> /\ Hand' = << >> /\ Coming' = << >>
    BY <1>1 DEF Hand, Coming
  <1>3. Append(frames, frame) = frames \o <<frame>> /\ Append(frames, frame) \in Seq(Sent)
    BY <1>1, AppendIsConcat, AppendProperties
  <1>4. Append(frames, frame) \o << >> = Append(frames, frame)
    BY <1>3, ConcatEmptySeq
  <1> QED
    BY <1>1, <1>2, <1>3, <1>4 DEF Line

LEMMA SendLine ==
    ASSUME DecodeTypes, Decode!Send
    PROVE  \/ Line' = Line /\ codec' = Append(codec, pkt) /\ pkt[2] \in Decodable
           \/ PacketGoes /\ pkt[2] \notin Decodable /\ codec' = codec
  <1>1. /\ thread = "send" /\ thread' = "receive" /\ frames' = frames
        /\ codec \in Seq(Sent) /\ pkt \in Sent /\ frames \in Seq(Sent)
    BY DEF Decode!Send, DecodeTypes
  <1>2. Hand = << >> /\ Coming = <<pkt>> /\ Hand' = << >> /\ Coming' = << >>
    BY <1>1 DEF Hand, Coming
  <1>3. \/ codec' = Append(codec, pkt) /\ pkt[2] \in Decodable
        \/ codec' = codec /\ pkt[2] \notin Decodable
    BY <1>1, Constants DEF Decode!Send, Decode!Accept, Decodable, Sent
  <1> DEFINE c == frames \o Hand
  <1>4. c \in Seq(Sent) /\ c \o codec \in Seq(Sent) /\ <<pkt>> \in Seq(Sent)
    BY <1>1, LineParts
  <1>5. Line = (c \o codec) \o <<pkt>> /\ Line' = (c \o codec') \o << >>
    BY <1>1, <1>2 DEF Line
  <1> HIDE DEF c
  <1>6. CASE codec' = Append(codec, pkt) /\ pkt[2] \in Decodable
    <2>1. codec' = codec \o <<pkt>> /\ codec' \in Seq(Sent)
      BY <1>1, <1>6, AppendIsConcat, AppendProperties
    <2>2. (c \o codec) \o <<pkt>> = c \o codec'
      BY <1>1, <1>4, <2>1, ConcatAssociative
    <2>3. c \o codec' \in Seq(Sent)
      BY <1>4, <2>1, ConcatProperties
    <2>4. (c \o codec') \o << >> = c \o codec'
      BY <2>3, ConcatEmptySeq
    <2> QED
      BY <1>5, <1>6, <2>2, <2>4
  <1>7. CASE codec' = codec /\ pkt[2] \notin Decodable
    <2>1. Line' = c \o codec
      BY <1>4, <1>5, <1>7, ConcatEmptySeq
    <2>2. Append(c \o codec, pkt) = (c \o codec) \o <<pkt>>
      BY <1>1, <1>4, AppendIsConcat
    <2> QED
      BY <1>1, <1>4, <1>5, <1>7, <2>1, <2>2 DEF PacketGoes
  <1> QED
    BY <1>3, <1>6, <1>7

LEMMA CheckLine ==
    ASSUME DecodeTypes, Decode!Check
    PROVE  (Line' = Line /\ ~Discarded) \/ (PacketGoes /\ Discarded)
  <1>1. /\ thread = "check"
        /\ \/ thread' = "send" /\ pkt' = pkt /\ pktSerial = currentSerial
           \/ thread' = "get" /\ pktSerial # currentSerial
        /\ UNCHANGED <<frames, codec, frame>> /\ pkt \in Sent
    BY DEF Decode!Check, Decode!validSerial, Decode!codecVars, DecodeTypes
  <1>2. CASE thread' = "send" /\ pkt' = pkt /\ pktSerial = currentSerial
    BY <1>1, <1>2 DEF Line, Hand, Coming, Discarded, Decode!validSerial
  <1>3. CASE thread' = "get" /\ pktSerial # currentSerial
    <2> DEFINE c == (frames \o Hand) \o codec
    <2>1. Hand' = Hand /\ Coming = <<pkt>> /\ Coming' = << >>
      BY <1>1, <1>3 DEF Hand, Coming
    <2>2. Line = c \o <<pkt>> /\ Line' = c \o << >>
      BY <1>1, <2>1 DEF Line
    <2>3. c \in Seq(Sent)
      BY LineParts
    <2> HIDE DEF c
    <2>4. c \o << >> = c /\ Append(c, pkt) = c \o <<pkt>>
      BY <1>1, <2>3, ConcatEmptySeq, AppendIsConcat
    <2>5. Discarded
      BY <1>1, <1>3 DEF Discarded, Decode!validSerial
    <2> QED
      BY <1>1, <2>2, <2>3, <2>4, <2>5 DEF PacketGoes
  <1> QED
    BY <1>1, <1>2, <1>3

\* The steps that leave the line as it is: at the end of the stream the codec has
\* given all it had.
LEMMA StillLine ==
    ASSUME \/ Decode!ReceiveAgain \/ Decode!ReceiveEnd \/ Decode!GetPending
           \/ Decode!Launch \/ Decode!LaunchCrashes \/ Decode!incrementSerial
    PROVE  /\ Line' = Line /\ UNCHANGED <<frames, codec>>
           /\ thread' # "push" \/ UNCHANGED <<thread, frame>>
  <1>1. CASE \/ Decode!ReceiveAgain \/ Decode!GetPending
             \/ Decode!Launch \/ Decode!LaunchCrashes
    BY <1>1 DEF Decode!ReceiveAgain, Decode!GetPending, Decode!Launch, Decode!LaunchCrashes,
                Decode!codecVars, Line, Hand, Coming
  <1>2. CASE Decode!incrementSerial
    BY <1>2 DEF Decode!incrementSerial, Decode!codecVars, Line, Hand, Coming
  <1>3. CASE Decode!ReceiveEnd
    <2>1. codec = << >>
      BY <1>3 DEF Decode!ReceiveEnd, Decode!HasFrame
    <2> QED
      BY <1>3, <2>1 DEF Decode!ReceiveEnd, Line, Hand, Coming
  <1> QED
    BY <1>1, <1>2, <1>3

LEMMA GetLine ==
    ASSUME DecodeTypes, Decode!Get, pkt' \in Sent
    PROVE  Line' = Append(Line, pkt')
  <1>1. thread = "get" /\ thread' = "check" /\ UNCHANGED <<frames, codec, frame>>
    BY DEF Decode!Get, Decode!codecVars
  <1> DEFINE c == (frames \o Hand) \o codec
  <1>2. Hand' = Hand /\ Coming = << >> /\ Coming' = <<pkt'>>
    BY <1>1 DEF Hand, Coming
  <1>3. Line = c \o << >> /\ Line' = c \o <<pkt'>>
    BY <1>1, <1>2 DEF Line
  <1>4. c \in Seq(Sent)
    BY LineParts
  <1> HIDE DEF c
  <1>5. c \o << >> = c /\ Append(c, pkt') = c \o <<pkt'>>
    BY <1>4, ConcatEmptySeq, AppendIsConcat
  <1> QED
    BY <1>3, <1>5

\* The frame shown is the first of the line.
LEMMA TakeLine ==
    ASSUME DecodeTypes, Decode!Take
    PROVE  Line # << >> /\ Head(frames) = Head(Line) /\ Line' = Tail(Line)
  <1>1. /\ frames # << >> /\ frames' = Tail(frames) /\ frames \in Seq(Sent)
        /\ UNCHANGED <<codec, thread, pkt, frame>> /\ codec \in Seq(Sent)
    BY DEF Decode!Take, Decode!codecVars, DecodeTypes
  <1> DEFINE c == frames \o Hand
             d == c \o codec
  <1>2. Hand' = Hand /\ Coming' = Coming
    BY <1>1 DEF Hand, Coming
  <1>3. Hand \in Seq(Sent) /\ Coming \in Seq(Sent) /\ c \in Seq(Sent) /\ d \in Seq(Sent)
    BY LineParts
  <1>4. Line = d \o Coming /\ Line' = ((Tail(frames) \o Hand) \o codec) \o Coming
    BY <1>1, <1>2 DEF Line
  <1>5. c # << >> /\ Head(c) = Head(frames) /\ Tail(c) = Tail(frames) \o Hand
    BY <1>1, <1>3, FirstLeaves
  <1>6. d # << >> /\ Head(d) = Head(c) /\ Tail(d) = Tail(c) \o codec
    <2> HIDE DEF c
    <2> QED
      BY <1>1, <1>3, <1>5, FirstLeaves
  <1>7. d \o Coming # << >> /\ Head(d \o Coming) = Head(d) /\ Tail(d \o Coming) = Tail(d) \o Coming
    <2> HIDE DEF d
    <2> QED
      BY <1>3, <1>6, FirstLeaves
  <1> QED
    BY <1>4, <1>5, <1>6, <1>7
-----------------------------------------------------------------------------
(* The line's invariant. *)

LEMMA Numbers ==
    ASSUME DemuxInv
    PROVE  /\ FileLen \in Nat \ {0} /\ pos \in 1 .. End /\ start \in 1 .. pos
           /\ got["video"] \in 0 .. End /\ End \in Nat /\ queue["video"] \in Seq(1 .. End)
           /\ Fetched \subseteq 1 .. FileLen
  BY Constants DEF DemuxInv, DemuxData, Demux!Streams, End, Fetched, Queues

\* The line stays, or its last goes.
LEMMA LineStays ==
    ASSUME LineInv, Line \in Seq(Sent), (Line' = Line /\ thrown' = thrown) \/ LastGoes,
           UNCHANGED <<epoch, shown, got>>, Fetched' = Fetched, Fetched \subseteq 1 .. FileLen,
           got["video"] \in Nat
    PROVE  LineInv'
  <1>1. /\ Len(Line) \in Nat /\ Len(Line') \in Nat /\ Len(Line') <= Len(Line)
        /\ \A i \in 1 .. Len(Line') : i \in 1 .. Len(Line) /\ Line'[i] = Line[i]
    <2>1. CASE Line' = Line
      BY <2>1
    <2>2. CASE LastGoes
      BY <2>2, Appended DEF LastGoes, PacketGoes
    <2> QED
      BY <2>1, <2>2
  <1>2. LineOrdered'
    BY <1>1 DEF LineInv, LineOrdered, Current
  <1>3. LineCurrent'
    BY <1>1 DEF LineInv, LineCurrent, Current, End
  <1>4. LineKeepsAll'
    <2> SUFFICES ASSUME NEW g \in Fetched \ Corrupt, g \notin shown, g \notin thrown'
                 PROVE  \E i \in 1 .. Len(Line') : Line'[i] = <<epoch, g>>
      BY DEF LineKeepsAll
    <2>0. thrown \subseteq thrown'
      BY DEF LastGoes
    <2>1. PICK i \in 1 .. Len(Line) : Line[i] = <<epoch, g>>
      BY <2>0 DEF LineInv, LineKeepsAll
    <2>2. CASE Line' = Line
      BY <2>1, <2>2
    <2>3. CASE LastGoes
      <3>1. pkt # <<epoch, g>>
        BY <2>3 DEF LastGoes, Decodable, Current
      <3>2. Len(Line) = Len(Line') + 1 /\ Line[Len(Line') + 1] = pkt
        BY <2>3, Appended DEF LastGoes, PacketGoes
      <3>3. i # Len(Line') + 1
        BY <2>1, <3>1, <3>2
      <3>4. i \in 1 .. Len(Line')
        BY <1>1, <3>2, <3>3
      <3> QED
        BY <1>1, <2>1, <3>4
    <2> QED
      BY <2>2, <2>3
  <1>5. LineThrown'
    <2>1. CASE thrown' = thrown
      BY <1>1, <2>1 DEF LineInv, LineThrown, Current, End
    <2>2. CASE LastGoes /\ Current(pkt) /\ thrown' = thrown \cup {pkt[2]}
      <3>1. /\ Len(Line) = Len(Line') + 1 /\ Line[Len(Line)] = pkt
            /\ Len(Line) \in 1 .. Len(Line) /\ pkt \in Sent
        BY <1>1, <2>2, Appended DEF LastGoes, PacketGoes
      <3>2. /\ pkt[2] <= got["video"] /\ (\A g \in shown : g < pkt[2])
            /\ pkt[2] \in 1 .. End
        BY <2>2, <3>1 DEF LineInv, LineCurrent, Sent, End
      <3>3. pkt[2] \notin shown
        BY <3>2
      <3>4. ASSUME NEW i \in 1 .. Len(Line'), Current(Line[i])
            PROVE  Line[i][2] \notin thrown /\ Line[i][2] # pkt[2]
        <4>1. i \in 1 .. Len(Line) /\ i < Len(Line)
          BY <1>1, <3>1
        <4>2. Line[i][2] < pkt[2]
          BY <3>1, <3>4, <4>1 DEF LineInv, LineOrdered
        <4>3. Line[i] \in Sent
          BY <4>1, Elements
        <4>4. Line[i][2] \in Nat
          BY <4>3 DEF Sent
        <4> QED
          BY <3>2, <3>4, <4>1, <4>2, <4>4 DEF LineInv, LineThrown
      <3> QED
        BY <1>1, <2>2, <3>2, <3>3, <3>4 DEF LineInv, LineThrown, Current, End
    <2> QED
      BY <2>1, <2>2 DEF LastGoes
  <1> QED
    BY <1>2, <1>3, <1>4, <1>5 DEF LineInv

\* A seek makes all of the line old.
LEMMA LineSeeks ==
    ASSUME LineInv, Line \in Seq(Sent), epoch \in Nat, Line' = Line,
           epoch' = epoch + 1, shown' = {}, thrown' = {}, Fetched' = {}
    PROVE  LineInv'
  <1>1. \A i \in 1 .. Len(Line) : Line[i][1] <= epoch /\ Line[i][1] \in Nat
    BY Elements DEF LineInv, LineCurrent, Sent
  <1>2. \A i \in 1 .. Len(Line) : Line'[i][1] <= epoch' /\ Line'[i][1] # epoch'
    BY <1>1
  <1>3. LineOrdered'
    BY <1>2 DEF LineOrdered, Current
  <1>4. LineCurrent'
    BY <1>2 DEF LineCurrent, Current
  <1>5. LineKeepsAll'
    BY DEF LineKeepsAll
  <1>6. LineThrown'
    BY DEF LineThrown
  <1> QED
    BY <1>3, <1>4, <1>5, <1>6 DEF LineInv

\* A packet joins that comes after all that was taken before.
LEMMA LineGets ==
    ASSUME LineInv, Line \in Seq(Sent), epoch \in Nat, got["video"] \in Nat,
           Fetched \subseteq 1 .. FileLen, FileLen \in Nat,
           NEW x \in 1 .. End, Line' = Append(Line, <<epoch, x>>),
           Fetched' = Fetched \cup ({x} \ {End}), got'["video"] = x, x > got["video"],
           UNCHANGED <<epoch, shown, thrown>>
    PROVE  LineInv'
  <1> DEFINE p == <<epoch, x>>
             n == Len(Line) + 1
  <1>1. p \in Sent /\ p[1] = epoch /\ p[2] = x
    BY DEF Sent, End
  <1>2. /\ Len(Line) \in Nat /\ n \in Nat /\ Len(Line') = n /\ Line'[n] = p
        /\ \A i \in 1 .. Len(Line) : Line'[i] = Line[i]
    BY <1>1, Appended
  <1>3. \A i \in 1 .. n : i = n \/ i \in 1 .. Len(Line)
    BY <1>2
  <1>4. \A g \in Fetched : g < x
    BY DEF Fetched
  <1>5. \A i \in 1 .. Len(Line) : Current(Line[i]) => Line[i][2] < x
    <2> SUFFICES ASSUME NEW i \in 1 .. Len(Line), Current(Line[i])
                 PROVE  Line[i][2] < x
      OBVIOUS
    <2>1. Line[i][2] <= got["video"]
      BY DEF LineInv, LineCurrent
    <2>2. Line[i] \in Sent
      BY Elements
    <2>3. Line[i][2] \in Nat
      BY <2>2 DEF Sent
    <2> QED
      BY <2>1, <2>3
  <1> HIDE DEF p, n
  <1>6. LineOrdered'
    <2> SUFFICES ASSUME NEW i \in 1 .. n, NEW j \in 1 .. n, i < j, Line'[i][1] = epoch
                 PROVE  Line'[j][1] = epoch /\ Line'[i][2] < Line'[j][2]
      BY <1>2 DEF LineOrdered, Current
    <2>1. i \in 1 .. Len(Line) /\ Line'[i] = Line[i]
      BY <1>2, <1>3
    <2>2. CASE j = n
      BY <1>1, <1>2, <1>5, <2>1, <2>2 DEF Current
    <2>3. CASE j \in 1 .. Len(Line)
      BY <1>2, <2>1, <2>3 DEF LineInv, LineOrdered, Current
    <2> QED
      BY <1>3, <2>2, <2>3
  <1>7. LineCurrent'
    <2>1. shown' \subseteq Fetched' \ Corrupt
      BY <1>4 DEF LineInv, LineCurrent
    <2>2. ASSUME NEW i \in 1 .. n
          PROVE  /\ Line'[i][1] <= epoch
                 /\ Line'[i][1] = epoch =>
                       /\ Line'[i][2] \in Fetched' \cup {End} /\ Line'[i][2] <= x
                       /\ \A g \in shown : g < Line'[i][2]
                 /\ shown # {} => Line'[i][1] = epoch
      <3>1. CASE i = n
        <4>1. \A g \in shown : g < x
          BY <1>4 DEF LineInv, LineCurrent
        <4> QED
          BY <1>1, <1>2, <3>1, <4>1
      <3>2. CASE i \in 1 .. Len(Line)
        <4>1. Line'[i] = Line[i] /\ Line[i][2] \in Nat
          BY <1>2, <3>2, Elements DEF Sent
        <4> QED
          BY <1>5, <3>2, <4>1 DEF LineInv, LineCurrent, Current
      <3> QED
        BY <1>3, <2>2, <3>1, <3>2
    <2> QED
      BY <1>2, <2>1, <2>2 DEF LineCurrent, Current, End
  <1>8. LineKeepsAll'
    <2> SUFFICES ASSUME NEW g \in Fetched' \ Corrupt, g \notin shown \cup thrown
                 PROVE  \E i \in 1 .. n : Line'[i] = <<epoch, g>>
      BY <1>2 DEF LineKeepsAll
    <2>1. CASE g = x
      <3>1. n \in 1 .. n /\ Line'[n] = <<epoch, g>>
        BY <1>2, <2>1 DEF p
      <3> QED
        BY <3>1
    <2>2. CASE g \in Fetched
      <3>1. PICK i \in 1 .. Len(Line) : Line[i] = <<epoch, g>>
        BY <2>2 DEF LineInv, LineKeepsAll
      <3>2. i \in 1 .. n
        BY <1>2 DEF n
      <3> QED
        BY <1>2, <3>1, <3>2
    <2> QED
      BY <2>1, <2>2
  <1>9. LineThrown'
    <2>1. x \notin thrown /\ \A t \in thrown : t <= x
      BY DEF LineInv, LineThrown, End
    <2>2. ASSUME NEW i \in 1 .. n, Line'[i][1] = epoch
          PROVE  Line'[i][2] \notin thrown
      <3>1. CASE i = n
        BY <1>1, <1>2, <2>1, <3>1
      <3>2. CASE i \in 1 .. Len(Line)
        BY <1>2, <2>2, <3>2 DEF LineInv, LineThrown, Current
      <3> QED
        BY <1>3, <3>1, <3>2
    <2> QED
      BY <1>2, <2>1, <2>2 DEF LineInv, LineThrown, Current, End
  <1> QED
    BY <1>6, <1>7, <1>8, <1>9 DEF LineInv

\* The first of the line is shown.
LEMMA LineShows ==
    ASSUME LineInv, Line \in Seq(Sent), Line # << >>, Line' = Tail(Line),
           Head(Line)[2] \in Decodable, Fetched \subseteq 1 .. FileLen, FileLen \in Nat,
           UNCHANGED <<epoch, got, thrown>>, Fetched' = Fetched,
           IF Head(Line)[1] = epoch THEN shown' = shown \cup {Head(Line)[2]} ELSE shown' = shown
    PROVE  LineInv'
  <1> DEFINE x == Line[1]
             n == Len(Line')
  <1>1. /\ Head(Line) = x /\ x \in Sent /\ Len(Line) \in Nat \ {0} /\ n = Len(Line) - 1
        /\ \A i \in 1 .. n : Line'[i] = Line[i + 1]
    BY Taken
  <1>2. /\ 1 \in 1 .. Len(Line) /\ n \in Nat
        /\ \A i \in 1 .. n : i \in Nat /\ i + 1 \in 1 .. Len(Line) /\ 1 < i + 1
    BY <1>1
  <1> HIDE DEF n
  <1>3. LineOrdered'
    <2> SUFFICES ASSUME NEW i \in 1 .. n, NEW j \in 1 .. n, i < j, Line'[i][1] = epoch
                 PROVE  Line'[j][1] = epoch /\ Line'[i][2] < Line'[j][2]
      BY DEF LineOrdered, Current, n
    <2>1. i + 1 < j + 1
      OBVIOUS
    <2> QED
      BY <1>1, <1>2, <2>1 DEF LineInv, LineOrdered, Current
  <1>4. ASSUME x[1] = epoch
        PROVE  /\ x[2] \in Fetched \ Corrupt
               /\ \A i \in 1 .. n : Line'[i][1] = epoch /\ x[2] < Line'[i][2]
    <2>1. x[2] \in Fetched \cup {End}
      BY <1>1, <1>2, <1>4 DEF LineInv, LineCurrent, Current
    <2>2. x[2] \in Decodable
      BY <1>1
    <2>3. x[2] \in Fetched \ Corrupt
      BY <2>1, <2>2 DEF Decodable, End
    <2>4. \A i \in 1 .. n : Line'[i][1] = epoch /\ x[2] < Line'[i][2]
      BY <1>1, <1>2, <1>4 DEF LineInv, LineOrdered, Current
    <2> QED
      BY <2>3, <2>4
  <1>5. LineCurrent'
    <2>1. shown' \subseteq Fetched \ Corrupt
      <3>1. shown \subseteq Fetched \ Corrupt
        BY DEF LineInv, LineCurrent
      <3>2. CASE x[1] = epoch
        BY <1>1, <1>4, <3>1, <3>2
      <3>3. CASE x[1] # epoch
        BY <1>1, <3>1, <3>3
      <3> QED
        BY <3>2, <3>3
    <2>2. ASSUME NEW i \in 1 .. n
          PROVE  /\ Line'[i][1] <= epoch
                 /\ Line'[i][1] = epoch =>
                       /\ Line'[i][2] \in Fetched \cup {End} /\ Line'[i][2] <= got["video"]
                       /\ \A g \in shown' : g < Line'[i][2]
                 /\ shown' # {} => Line'[i][1] = epoch
      <3>1. CASE x[1] = epoch
        <4>1. shown' = shown \cup {x[2]}
          BY <1>1, <3>1
        <4>2. Line'[i] = Line[i + 1] /\ i + 1 \in 1 .. Len(Line)
          BY <1>1, <1>2
        <4> QED
          BY <1>4, <3>1, <4>1, <4>2 DEF LineInv, LineCurrent, Current
      <3>2. CASE x[1] # epoch
        <4>1. shown' = shown
          BY <1>1, <3>2
        <4>2. Line'[i] = Line[i + 1] /\ i + 1 \in 1 .. Len(Line)
          BY <1>1, <1>2
        <4> QED
          BY <4>1, <4>2 DEF LineInv, LineCurrent, Current
      <3> QED
        BY <3>1, <3>2
    <2> QED
      BY <2>1, <2>2 DEF LineCurrent, Current, End, n
  <1>6. LineKeepsAll'
    <2> SUFFICES ASSUME NEW g \in Fetched \ Corrupt, g \notin shown' \cup thrown
                 PROVE  \E i \in 1 .. n : Line'[i] = <<epoch, g>>
      BY DEF LineKeepsAll, n
    <2>1. g \notin shown
      BY <1>1
    <2>2. PICK i \in 1 .. Len(Line) : Line[i] = <<epoch, g>>
      BY <2>1 DEF LineInv, LineKeepsAll
    <2>3. i # 1
      BY <1>1, <2>2
    <2>4. i - 1 \in 1 .. n /\ (i - 1) + 1 = i
      BY <1>1, <2>3
    <2> QED
      BY <1>1, <2>2, <2>4
  <1>7. LineThrown'
    <2>1. \A i \in 1 .. n : Line'[i][1] = epoch => Line'[i][2] \notin thrown
      BY <1>1, <1>2 DEF LineInv, LineThrown, Current
    <2>2. shown' \cap thrown = {}
      BY <1>1, <1>2 DEF LineInv, LineThrown, Current
    <2> QED
      BY <2>1, <2>2 DEF LineInv, LineThrown, Current, End, n
  <1> QED
    BY <1>3, <1>5, <1>6, <1>7 DEF LineInv
-----------------------------------------------------------------------------
(* The video queue's invariant. *)

LEMMA FileStays ==
    ASSUME DemuxInv, VideoOnly, DemuxStep
    PROVE  VideoOnly'
  <1>1. file' = file
    BY QuietStep DEF DemuxStep, Demux!Seek, Demux!ReadPacket, Demux!ReadEnd, Demux!ReadBreaks,
                     Demux!getPacket, Demux!media
  <1> QED
    BY <1>1, MediaStep DEF DemuxInv, VideoOnly

LEMMA QuietQueue ==
    ASSUME QueueRuns, Quiet
    PROVE  QueueRuns' /\ UNCHANGED <<pos, start, got>>
  <1>1. UNCHANGED <<pos, queue, start, got>>
    BY QuietStep
  <1>2. eof' = eof /\ (pc = "closed" => pc' = "closed")
    BY DEF Quiet, Demux!NoSeek, Demux!SeekFails, Demux!Throttle, Demux!ReadFails,
           Demux!WaitEnds, Demux!RequestSeek
  <1>3. AtEnd => AtEnd'
    BY <1>1, <1>2 DEF AtEnd
  <1> QED
    BY <1>1, <1>3 DEF QueueRuns, Due, EndQueued

\* A packet is put behind those before it in the file: no null packet is there.
LEMMA ReadPacketQueue ==
    ASSUME DemuxInv, VideoOnly, QueueRuns, Demux!ReadPacket
    PROVE  QueueRuns' /\ Fetched' = Fetched /\ UNCHANGED <<start, got>>
  <1> DEFINE q == queue["video"]
             r == queue'["video"]
             n == Len(q) + 1
  <1>1. pc = "read" /\ pos # End /\ UNCHANGED <<start, got>>
    BY DEF Demux!ReadPacket, Demux!End, End
  <1>2. ~AtEnd /\ ~EndQueued /\ got["video"] # End /\ pos = Due + Len(q)
    BY <1>1 DEF AtEnd, QueueRuns
  <1>3. /\ Due \in Nat /\ Len(q) \in Nat /\ q \in Seq(1 .. End) /\ pos \in 1 .. End
        /\ Due >= start /\ start \in Nat /\ End \in Nat
        /\ \A i \in 1 .. Len(q) : q[i] = Due + i - 1
    <2>1. q \in Seq(1 .. End) /\ Len(q) \in Nat /\ pos \in 1 .. End /\ start \in Nat /\ End \in Nat
      BY Numbers
    <2>2. Due \in Nat /\ Due >= start
      BY Numbers DEF Due, QueueRuns
    <2>3. \A i \in 1 .. Len(q) : q[i] = Due + i - 1
      BY <1>2 DEF QueueRuns
    <2> QED
      BY <2>1, <2>2, <2>3
  <1>4. Due' = Due
    BY <1>1 DEF Due
  <1>5. \/ pos' = pos /\ queue' = queue
        \/ pos' = pos + 1 /\ r = Append(q, pos)
    <2>1. pos \in 1 .. FileLen
      BY <1>1, Numbers DEF End
    <2>2. Demux!QueueOf(file[pos]) = "video"
      BY <2>1 DEF VideoOnly, Demux!QueueOf
    <2> QED
      BY <2>2 DEF Demux!ReadPacket, Demux!Streams, DemuxInv, DemuxData
  <1> HIDE DEF q, r, n
  <1>6. CASE pos' = pos /\ queue' = queue
    BY <1>1, <1>2, <1>4, <1>6 DEF QueueRuns, EndQueued, Fetched
  <1>7. CASE pos' = pos + 1 /\ r = Append(q, pos)
    <2>1. /\ Len(r) = n /\ n \in Nat \ {0} /\ r[n] = pos
          /\ \A i \in 1 .. Len(q) : r[i] = q[i]
      BY <1>3, <1>7, Appended DEF n
    <2>2. ~EndQueued'
      BY <1>1, <2>1 DEF EndQueued, r, End
    <2>3. \A i \in 1 .. n : r[i] = Due + i - 1
      <3> SUFFICES ASSUME NEW i \in 1 .. n
                   PROVE  r[i] = Due + i - 1
        OBVIOUS
      <3>1. i = n \/ i \in 1 .. Len(q)
        BY <1>3 DEF n
      <3>2. CASE i = n
        BY <1>2, <1>3, <2>1, <3>2 DEF n
      <3>3. CASE i \in 1 .. Len(q)
        BY <1>3, <2>1, <3>3
      <3> QED
        BY <3>1, <3>2, <3>3
    <2>4. pos' = Due + n
      BY <1>2, <1>3, <1>7 DEF n
    <2>5. got["video"] < pos
      BY <1>2, <1>3, Numbers DEF Due
    <2>6. Fetched' = Fetched
      BY <1>1, <1>3, <1>7, <2>5, Numbers DEF Fetched
    <2>7. QueueRuns'
      BY <1>1, <1>2, <1>4, <2>1, <2>2, <2>3, <2>4 DEF QueueRuns, r, End
    <2> QED
      BY <1>1, <2>6, <2>7
  <1> QED
    BY <1>5, <1>6, <1>7

\* The null packet is put behind all, and only once.
LEMMA ReadEndQueue ==
    ASSUME DemuxInv, VideoOnly, QueueRuns, Demux!ReadEnd \/ Demux!ReadBreaks
    PROVE  QueueRuns' /\ UNCHANGED <<pos, start, got>>
  <1> DEFINE q == queue["video"]
             r == queue'["video"]
             n == Len(q) + 1
  <1>1. pc = "read" /\ UNCHANGED <<pos, start, got>> /\ (pc' = "closed" \/ pos' = End)
    BY DEF Demux!ReadEnd, Demux!ReadBreaks, Demux!End, End
  <1>2. \/ r = q /\ (eof => eof')
        \/ r = Append(q, End) /\ ~eof /\ eof'
    BY PlaybackAssumption
       DEF Demux!ReadEnd, Demux!ReadBreaks, Demux!PutEnd, Demux!PutsEnd, Demux!End, End,
           Demux!Streams, VideoOnly, PlaybackAssumption
  <1>3. Due' = Due /\ Due \in Nat /\ q \in Seq(1 .. End) /\ End \in 1 .. End
    BY <1>1, Numbers DEF Due, End
  <1> HIDE DEF q, r, n
  <1>4. CASE r = q /\ (eof => eof')
    <2>1. AtEnd => AtEnd'
      BY <1>1, <1>4 DEF AtEnd, End
    <2> QED
      BY <1>1, <1>3, <1>4, <2>1 DEF QueueRuns, EndQueued, End, q, r
  <1>5. CASE r = Append(q, End) /\ ~eof /\ eof'
    <2>1. /\ Len(r) = n /\ n \in Nat \ {0} /\ r[n] = End /\ n = Len(q) + 1 /\ Len(q) \in Nat
          /\ \A i \in 1 .. Len(q) : r[i] = q[i]
      BY <1>3, <1>5, Appended DEF n
    <2>2. AtEnd'
      BY <1>1, <1>5 DEF AtEnd, End
    <2>3. ~AtEnd /\ ~EndQueued /\ got["video"] # End /\ pos = Due + Len(q)
      BY <1>5 DEF AtEnd, QueueRuns, q
    <2>4. EndQueued'
      BY <2>1, Nothing DEF EndQueued, End, r
    <2>5. pos' = Due + Len(r) - 1
      BY <1>1, <1>3, <2>1, <2>3
    <2>6. \A i \in 1 .. n : r[i] = Due + i - 1 \/ i = n
      <3> SUFFICES ASSUME NEW i \in 1 .. Len(q)
                   PROVE  r[i] = Due + i - 1
        BY <2>1
      <3> QED
        BY <2>1, <2>3 DEF QueueRuns, q
    <2> QED
      BY <1>1, <1>3, <2>1, <2>2, <2>3, <2>4, <2>5, <2>6 DEF QueueRuns, End, r
  <1> QED
    BY <1>2, <1>4, <1>5

LEMMA SeekQueue ==
    ASSUME DemuxInv, VideoOnly, Demux!Seek
    PROVE  QueueRuns' /\ Fetched' = {} /\ start' \in 1 .. FileLen + 1
  <1>1. PICK target \in 1 .. FileLen + 1 : Demux!SeekTo(target)
    BY DEF Demux!Seek, Demux!End
  <1>2. None # "video" /\ "video" \in Demux!Streams
    BY PlaybackAssumption DEF PlaybackAssumption, Demux!Streams
  <1>3. /\ pos' = target /\ start' = target /\ got'["video"] = 0 /\ queue'["video"] = << >>
    BY <1>1, <1>2 DEF Demux!SeekTo, VideoOnly
  <1>4. Len(queue'["video"]) = 0 /\ End # 0 /\ FileLen \in Nat
    BY <1>3, Nothing, Constants DEF End
  <1>5. Due' = target /\ ~EndQueued'
    BY <1>3 DEF Due, EndQueued
  <1>6. QueueRuns'
    BY <1>3, <1>4, <1>5 DEF QueueRuns, End
  <1>7. Fetched' = {}
    BY <1>3, <1>4 DEF Fetched
  <1> QED
    BY <1>3, <1>6, <1>7

\* The packet taken is the next one, or the null packet after all.
LEMMA GetQueue ==
    ASSUME DemuxInv, VideoOnly, QueueRuns, Demux!getPacket("video"),
           NEW x, x = queue["video"][1]
    PROVE  /\ QueueRuns' /\ x \in 1 .. End /\ x > got["video"] /\ got'["video"] = x
           /\ Fetched' = Fetched \cup ({x} \ {End})
  <1> DEFINE q == queue["video"]
             r == queue'["video"]
             n == Len(q) - 1
  <1>1. /\ q # << >> /\ r = Tail(q) /\ got'["video"] = Head(q)
        /\ UNCHANGED <<eof, pos, pc, start>>
    BY DEF Demux!getPacket, DemuxInv, DemuxData, Demux!Streams
  <1>2. q \in Seq(1 .. End)
    BY Numbers
  <1>3. /\ Head(q) = x /\ x \in 1 .. End /\ Len(r) = n /\ n \in Nat
        /\ Len(q) = n + 1 /\ q[1] = x
        /\ r \in Seq(1 .. End)
        /\ \A i \in 1 .. n : r[i] = q[i + 1] /\ i + 1 \in 1 .. Len(q)
    <2>1. /\ Len(q) \in Nat \ {0} /\ Head(q) = q[1] /\ Head(q) \in 1 .. End
          /\ Tail(q) \in Seq(1 .. End) /\ Len(Tail(q)) = Len(q) - 1
          /\ \A i \in 1 .. Len(Tail(q)) : Tail(q)[i] = q[i + 1]
      BY <1>1, <1>2, Taken
    <2>2. x = q[1]
      OBVIOUS
    <2> HIDE DEF q, r
    <2> QED
      BY <1>1, <2>1, <2>2 DEF n
  <1>4. \A i \in 1 .. Len(q) : q[i] = Due + i - 1 \/ (i = Len(q) /\ EndQueued)
    BY DEF QueueRuns
  <1>5. got["video"] # End
    BY <1>1 DEF QueueRuns
  <1>6. EndQueued => q[Len(q)] = End /\ AtEnd /\ pos = Due + Len(q) - 1
    BY DEF QueueRuns, EndQueued
  <1>7. ~EndQueued => pos = Due + Len(q)
    BY <1>5 DEF QueueRuns
  <1>8. /\ FileLen \in Nat \ {0} /\ pos \in 1 .. End /\ start \in 1 .. pos /\ End = FileLen + 1
        /\ got["video"] \in 0 .. End /\ Due \in Nat /\ Due >= start
        /\ Due = (IF got["video"] = 0 THEN start ELSE got["video"] + 1)
        /\ (got["video"] # 0 => got["video"] >= start)
    BY Numbers DEF Due, QueueRuns, End
  <1>9. got'["video"] = x /\ got'["video"] # 0
    BY <1>1, <1>3
  <1>10. EndQueued <=> q[Len(q)] = End
    BY <1>1 DEF EndQueued
  <1>11. EndQueued' <=> n # 0 /\ EndQueued
    <2>1. r = << >> <=> n = 0
      BY <1>3, Nothing, EmptySeq
    <2>2. n # 0 => r[n] = q[Len(q)]
      <3> HIDE DEF q, r, n
      <3>1. n # 0 => n \in 1 .. n /\ n + 1 = Len(q)
        BY <1>3
      <3> QED
        BY <1>3, <3>1
    <2>3. EndQueued' <=> r # << >> /\ r[Len(r)] = End
      BY DEF EndQueued, End
    <2> QED
      BY <1>3, <1>10, <2>1, <2>2, <2>3
  <1> HIDE DEF q, r, n
  <1>12. n \in Nat /\ Len(q) = n + 1 /\ Due \in Nat
    BY <1>3, <1>8
  <1>13. CASE x = Due /\ x # End
    <2>1. Due' = Due + 1
      BY <1>8, <1>9, <1>13 DEF Due
    <2>2. \A i \in 1 .. n : r[i] = Due' + i - 1 \/ (i = n /\ EndQueued')
      <3> SUFFICES ASSUME NEW i \in 1 .. n
                   PROVE  r[i] = Due' + i - 1 \/ (i = n /\ EndQueued')
        OBVIOUS
      <3>1. q[i + 1] = Due + (i + 1) - 1 \/ (i + 1 = Len(q) /\ EndQueued)
        BY <1>3, <1>4
      <3>2. r[i] = q[i + 1]
        BY <1>3
      <3> QED
        BY <1>3, <1>8, <1>11, <2>1, <3>1, <3>2
    <2>3. n = 0 => ~EndQueued
      <3>1. n = 0 => Len(q) = 1
        BY <1>3
      <3> QED
        BY <1>3, <1>6, <1>13, <3>1
    <2>4. QueueRuns'
      <3>1. EndQueued' => AtEnd' /\ pos' = Due' + n - 1
        <4>1. AtEnd => AtEnd'
          BY <1>1 DEF AtEnd, End
        <4> QED
          BY <1>1, <1>6, <1>8, <1>11, <1>12, <2>1, <4>1
      <3>2. ~EndQueued' => pos' = Due' + n
        <4>1. ~EndQueued' => pos = Due + (n + 1)
          BY <1>7, <1>11, <1>12, <2>3
        <4>2. pos' = pos
          BY <1>1
        <4>3. Due + (n + 1) = (Due + 1) + n
          BY <1>12
        <4> QED
          BY <2>1, <4>1, <4>2, <4>3
      <3>3. got'["video"] >= start' /\ got'["video"] # End
        BY <1>1, <1>8, <1>9, <1>13
      <3> QED
        BY <1>3, <2>2, <3>1, <3>2, <3>3 DEF QueueRuns, r, End
    <2>5. x < pos /\ x > got["video"] /\ x >= start
      BY <1>3, <1>6, <1>7, <1>8, <1>13, <2>3
    <2>6. \A g \in start .. pos - 1 : g <= x <=> g <= got["video"] \/ g = x
      BY <1>8, <1>13, <2>5
    <2>7. Fetched' = Fetched \cup {x}
      BY <1>1, <1>3, <1>8, <1>9, <2>5, <2>6 DEF Fetched
    <2> QED
      BY <1>3, <1>9, <1>13, <2>4, <2>5, <2>7
  <1>14. CASE x = End
    <2>1. n = 0 /\ EndQueued /\ pos = Due
      <3>1. CASE n = 0
        <4>1. EndQueued
          BY <1>3, <1>10, <1>14, <3>1
        <4>2. pos = Due + 1 - 1
          BY <1>6, <1>12, <3>1, <4>1
        <4> QED
          BY <1>12, <3>1, <4>1, <4>2
      <3>2. CASE n # 0
        <4>1. x = Due
          BY <1>3, <1>4, <1>8, <3>2
        <4>2. pos > End
          BY <1>3, <1>6, <1>7, <1>8, <1>14, <3>2, <4>1
        <4> QED
          BY <1>8, <4>2
      <3> QED
        BY <3>1, <3>2
    <2>2. r = << >>
      BY <1>1, <1>2, <1>3, <2>1, Taken, EmptySeq
    <2>3. AtEnd'
      BY <1>1, <1>6, <2>1 DEF AtEnd, End
    <2>4. QueueRuns'
      BY <1>1, <1>3, <1>8, <1>9, <1>11, <1>14, <2>1, <2>2, <2>3 DEF QueueRuns, r, End
    <2>5. x > got["video"]
      BY <1>5, <1>8, <1>14
    <2>6. \A g \in start .. pos - 1 : g <= x /\ g <= got["video"]
      BY <1>8, <1>14, <2>1
    <2>7. Fetched' = Fetched
      BY <1>1, <1>9, <2>6 DEF Fetched
    <2> QED
      BY <1>3, <1>9, <1>14, <2>4, <2>5, <2>7
  <1>15. x = Due \/ x = End
    <2>1. x = Due + 1 - 1 \/ (1 = Len(q) /\ EndQueued)
      BY <1>3, <1>4
    <2> QED
      BY <1>3, <1>6, <1>8, <2>1
  <1> QED
    BY <1>13, <1>14, <1>15
-----------------------------------------------------------------------------
(* The invariant, step by step. *)

\* Frames only come from packets that can be decoded.
LEMMA DecodedStep ==
    ASSUME DecodeTypes, FramesDecoded,
           \/ Decode!DecodeStep \/ Decode!Get \/ Decode!Take \/ Decode!Launch
           \/ Decode!LaunchCrashes \/ Decode!incrementSerial \/ UNCHANGED decodeVars
    PROVE  FramesDecoded'
  <1>1. frames \in Seq(Sent) /\ codec \in Seq(Sent)
    BY DEF DecodeTypes
  <1>2. CASE Decode!ReceiveFrame
    <2>1. /\ codec # << >> /\ frame' = Head(codec) /\ codec' = Tail(codec) /\ frames' = frames
      BY <1>2 DEF Decode!ReceiveFrame, Decode!HasFrame
    <2>2. /\ Len(codec) \in Nat \ {0} /\ Head(codec) = codec[1]
          /\ Len(codec') = Len(codec) - 1
          /\ \A i \in 1 .. Len(codec') : codec'[i] = codec[i + 1]
      BY <1>1, <2>1, Taken
    <2>3. frame'[2] \in Decodable
      BY <2>1, <2>2 DEF FramesDecoded
    <2>4. \A i \in 1 .. Len(codec') : codec'[i][2] \in Decodable
      BY <2>2 DEF FramesDecoded
    <2> QED
      BY <2>1, <2>3, <2>4 DEF FramesDecoded, Decodable
  <1>3. CASE Decode!Push
    <2>1. /\ thread = "push" /\ thread' = "ended" /\ frames' = Append(frames, frame)
          /\ codec' = codec /\ frame \in Sent
      BY <1>3 DEF Decode!Push, Decode!codecVars, DecodeTypes
    <2>2. /\ Len(frames) \in Nat /\ Len(frames') = Len(frames) + 1
          /\ frames'[Len(frames) + 1] = frame
          /\ \A i \in 1 .. Len(frames) : frames'[i] = frames[i]
      BY <1>1, <2>1, Appended
    <2>3. ASSUME NEW i \in 1 .. Len(frames')
          PROVE  frames'[i][2] \in Decodable
      <3>1. i = Len(frames) + 1 \/ i \in 1 .. Len(frames)
        BY <2>2
      <3> QED
        BY <2>1, <2>2, <3>1 DEF FramesDecoded
    <2> QED
      BY <2>1, <2>3 DEF FramesDecoded, Decodable
  <1>4. CASE Decode!Send
    <2>1. frames' = frames /\ thread' # "push" /\ thread = "send" /\ pkt \in Sent
      BY <1>4 DEF Decode!Send, DecodeTypes
    <2>2. CASE codec' = codec
      BY <2>1, <2>2 DEF FramesDecoded, Decodable
    <2>3. CASE codec' = Append(codec, pkt) /\ pkt[2] \in Decodable
      <3>1. /\ Len(codec) \in Nat /\ Len(codec') = Len(codec) + 1
            /\ codec'[Len(codec) + 1] = pkt
            /\ \A i \in 1 .. Len(codec) : codec'[i] = codec[i]
        BY <1>1, <2>1, <2>3, Appended
      <3>2. ASSUME NEW i \in 1 .. Len(codec')
            PROVE  codec'[i][2] \in Decodable
        <4>1. i = Len(codec) + 1 \/ i \in 1 .. Len(codec)
          BY <3>1
        <4> QED
          BY <2>3, <3>1, <4>1 DEF FramesDecoded
      <3> QED
        BY <2>1, <3>2 DEF FramesDecoded, Decodable
    <2> QED
      BY <1>4, <2>2, <2>3, SendLine
  <1>5. CASE Decode!Take
    <2>1. /\ frames # << >> /\ frames' = Tail(frames) /\ UNCHANGED <<codec, thread, frame>>
      BY <1>5 DEF Decode!Take, Decode!codecVars
    <2>2. /\ Len(frames) \in Nat \ {0} /\ Len(frames') = Len(frames) - 1
          /\ \A i \in 1 .. Len(frames') : frames'[i] = frames[i + 1]
      BY <1>1, <2>1, Taken
    <2>3. \A i \in 1 .. Len(frames') : frames'[i][2] \in Decodable
      BY <2>2 DEF FramesDecoded
    <2> QED
      BY <2>1, <2>3 DEF FramesDecoded, Decodable
  <1>6. CASE Decode!Check \/ Decode!Get
    <2>1. UNCHANGED <<frames, codec>> /\ thread' # "push"
      BY <1>6 DEF Decode!Check, Decode!Get, Decode!codecVars
    <2> QED
      BY <2>1 DEF FramesDecoded, Decodable
  <1>7. CASE \/ Decode!ReceiveAgain \/ Decode!ReceiveEnd \/ Decode!GetPending
             \/ Decode!Launch \/ Decode!LaunchCrashes \/ Decode!incrementSerial
    BY <1>7, StillLine DEF FramesDecoded, Decodable
  <1>8. CASE UNCHANGED decodeVars
    BY <1>8 DEF decodeVars, FramesDecoded, Decodable
  <1> QED
    BY <1>2, <1>3, <1>4, <1>5, <1>6, <1>7, <1>8 DEF Decode!DecodeStep

LEMMA RefinedInit == Init => Refined
  <1> SUFFICES ASSUME Init
               PROVE  Refined
    OBVIOUS
  <1>1. Inv
    BY InvInit
  <1>2. VideoOnly
    <2>1. None # "video" /\ None # "audio"
      BY PlaybackAssumption DEF PlaybackAssumption, Demux!Streams
    <2>2. index = [s \in Demux!Streams |-> Demux!Found(s)] /\ present = {"video"}
      BY DEF Init, Demux!Init
    <2>3. index["video"] = "video" /\ index["audio"] = None
      BY <2>2 DEF Demux!Found, Demux!Streams
    <2> QED
      BY <2>1, <2>3 DEF Init, VideoOnly
  <1>3. /\ queue["video"] = << >> /\ got["video"] = 0 /\ pos = 1 /\ start = 1
        /\ frames = << >> /\ codec = << >> /\ thread = "ended" /\ shown = {} /\ thrown = {}
    BY DEF Init, Demux!Init, Decode!Init, Demux!Streams
  <1>4. FileLen \in Nat /\ Len(<< >>) = 0 /\ Fetched = {}
    BY <1>3, Constants, Nothing DEF Fetched
  <1>5. QueueRuns
    BY <1>3, <1>4 DEF QueueRuns, Due, EndQueued, End
  <1>6. Line = << >>
    <2>1. << >> \o << >> = << >>
      OBVIOUS
    <2> QED
      BY <1>3, <2>1 DEF Line, Hand, Coming
  <1>7. LineInv
    BY <1>3, <1>4, <1>6 DEF LineInv, LineOrdered, LineCurrent, LineThrown, LineKeepsAll
  <1>8. FramesDecoded
    BY <1>3, <1>4 DEF FramesDecoded
  <1> QED
    BY <1>1, <1>2, <1>5, <1>7, <1>8 DEF Refined

\* What each kind of step of the decode thread, its starter and the serial's owner
\* means for the line.
LEMMA DecodesLine ==
    ASSUME DecodeTypes, Decodes \/ Launch \/ NewSerial
    PROVE  (Line' = Line /\ thrown' = thrown) \/ LastGoes
  <1>1. CASE Decodes
    <2>1. thrown' = IF Discarded /\ pkt[1] = epoch THEN thrown \cup {pkt[2]} ELSE thrown
      BY <1>1 DEF Decodes
    <2>2. CASE Decode!Check
      BY <2>1, <2>2, CheckLine DEF LastGoes, Current
    <2>3. CASE \/ Decode!ReceiveFrame \/ Decode!ReceiveEnd \/ Decode!ReceiveAgain
               \/ Decode!Push \/ Decode!GetPending \/ Decode!Send
      <3>1. ~Discarded
        BY <2>3 DEF Discarded, Decode!ReceiveFrame, Decode!ReceiveEnd, Decode!ReceiveAgain,
                    Decode!Push, Decode!GetPending, Decode!Send
      <3>2. Line' = Line \/ (PacketGoes /\ pkt[2] \notin Decodable)
        BY <2>3, ReceiveFrameLine, PushLine, SendLine, StillLine
      <3> QED
        BY <2>1, <3>1, <3>2 DEF LastGoes
    <2> QED
      BY <1>1, <2>2, <2>3 DEF Decodes, Decode!DecodeStep
  <1>2. CASE Launch \/ NewSerial
    BY <1>2, StillLine DEF Launch, NewSerial, history
  <1> QED
    BY <1>1, <1>2

LEMMA ReadsRefined ==
    ASSUME Refined, Reads
    PROVE  VideoOnly' /\ QueueRuns' /\ Fetched' = Fetched /\ UNCHANGED <<start, got>>
  <1>1. DemuxInv /\ VideoOnly /\ QueueRuns
    BY DEF Refined, Inv
  <1>2. VideoOnly'
    BY <1>1, FileStays DEF Reads, DemuxStep, Quiet
  <1>3. CASE Quiet \/ Demux!ReadEnd \/ Demux!ReadBreaks
    BY <1>1, <1>2, <1>3, QuietQueue, ReadEndQueue DEF Fetched
  <1>4. CASE Demux!ReadPacket
    BY <1>1, <1>2, <1>4, ReadPacketQueue
  <1> QED
    BY <1>3, <1>4 DEF Reads, Quiet

LEMMA RefinedStep ==
    ASSUME Refined, [Next]_vars
    PROVE  Refined'
  <1>1. /\ Inv /\ DemuxInv /\ DecodeTypes /\ FreshQueue /\ epoch \in Nat
        /\ VideoOnly /\ QueueRuns /\ LineInv /\ FramesDecoded
    BY DEF Refined, Inv, DecodeInv, FreshQueue
  <1>2. Inv'
    BY <1>1, InvStep
  <1>3. Line \in Seq(Sent)
    BY <1>1, LineParts
  <1>4. Fetched \subseteq 1 .. FileLen /\ FileLen \in Nat /\ got["video"] \in Nat
    BY <1>1, Numbers
  <1>5. CASE Reads
    <2>1. Line' = Line /\ UNCHANGED <<epoch, shown, thrown>> /\ UNCHANGED decodeVars
      BY <1>5 DEF Reads, decodeVars, Line, Hand, Coming
    <2>2. VideoOnly' /\ QueueRuns' /\ Fetched' = Fetched /\ got' = got
      BY <1>5, ReadsRefined
    <2>3. LineInv'
      BY <1>1, <1>2, <1>3, <1>4, <2>1, <2>2, LineStays
    <2> QED
      BY <1>1, <1>2, <2>1, <2>2, <2>3, DecodedStep DEF Refined
  <1>6. CASE Seeks
    <2>1. /\ Line' = Line /\ epoch' = epoch + 1 /\ shown' = {} /\ thrown' = {}
          /\ UNCHANGED decodeVars
      BY <1>6 DEF Seeks, decodeVars, Line, Hand, Coming
    <2>2. VideoOnly' /\ QueueRuns' /\ Fetched' = {}
      BY <1>1, <1>6, FileStays, SeekQueue DEF Seeks, DemuxStep
    <2>3. LineInv'
      BY <1>1, <1>3, <2>1, <2>2, LineSeeks
    <2> QED
      BY <1>1, <1>2, <2>1, <2>2, <2>3, DecodedStep DEF Refined
  <1>7. CASE RequestSeek
    <2>1. Line' = Line /\ UNCHANGED <<epoch, shown, thrown>> /\ UNCHANGED decodeVars
      BY <1>7 DEF RequestSeek, history, decodeVars, Line, Hand, Coming
    <2>2. VideoOnly' /\ QueueRuns' /\ UNCHANGED <<pos, start, got>>
      BY <1>1, <1>7, FileStays, QuietQueue DEF RequestSeek, DemuxStep, Quiet
    <2>3. LineInv'
      BY <1>1, <1>2, <1>3, <1>4, <2>1, <2>2, LineStays DEF Fetched
    <2> QED
      BY <1>1, <1>2, <2>1, <2>2, <2>3, DecodedStep DEF Refined
  <1>8. CASE GetPacket
    <2> DEFINE x == queue["video"][1]
    <2>1. Demux!getPacket("video") /\ Decode!Get /\ UNCHANGED <<epoch, shown, thrown>>
      BY <1>8 DEF GetPacket
    <2>2. pkt' = <<epoch, x>> /\ pkt' \in Sent
      BY <1>1, <1>8, FreshGet
    <2>3. Line' = Append(Line, <<epoch, x>>)
      BY <1>1, <2>1, <2>2, GetLine
    <2>4. /\ QueueRuns' /\ x \in 1 .. End /\ x > got["video"] /\ got'["video"] = x
          /\ Fetched' = Fetched \cup ({x} \ {End})
      BY <1>1, <2>1, GetQueue
    <2>5. VideoOnly'
      BY <1>1, <2>1, FileStays DEF DemuxStep
    <2> HIDE DEF x
    <2>6. LineInv'
      BY <1>1, <1>2, <1>3, <1>4, <2>1, <2>3, <2>4, LineGets
    <2> QED
      BY <1>1, <1>2, <2>1, <2>4, <2>5, <2>6, DecodedStep DEF Refined
  <1>9. CASE Decodes \/ Launch \/ NewSerial
    <2>1. UNCHANGED <<demuxVars, epoch, shown>>
      BY <1>9 DEF Decodes, Launch, NewSerial, history
    <2>2. \/ Decode!DecodeStep \/ Decode!Launch \/ Decode!LaunchCrashes
          \/ Decode!incrementSerial
      BY <1>9 DEF Decodes, Launch, NewSerial
    <2>3. UNCHANGED <<file, index, attachedPic, eof, pc, pos, start, got, queue, epoch, shown>>
      BY <2>1 DEF demuxVars
    <2>4. VideoOnly' /\ QueueRuns' /\ Fetched' = Fetched
      BY <1>1, <2>3 DEF VideoOnly, QueueRuns, Due, EndQueued, AtEnd, End, Fetched
    <2>5. LineInv'
      BY <1>1, <1>3, <1>4, <1>9, <2>3, <2>4, DecodesLine, LineStays
    <2> QED
      BY <1>1, <1>2, <2>2, <2>4, <2>5, DecodedStep DEF Refined
  <1>10. CASE Shows
    <2>1. /\ Decode!Take /\ UNCHANGED <<demuxVars, epoch, thrown>> /\ frames # << >>
          /\ IF Head(frames)[1] = epoch THEN shown' = shown \cup {Head(frames)[2]}
                                        ELSE shown' = shown
      BY <1>10 DEF Shows, Decode!Take
    <2>2. Line # << >> /\ Head(frames) = Head(Line) /\ Line' = Tail(Line)
      BY <1>1, <2>1, TakeLine
    <2>3. Head(frames)[2] \in Decodable
      <3>1. Len(frames) \in Nat \ {0} /\ Head(frames) = frames[1]
        BY <1>1, <2>1, Taken DEF DecodeTypes
      <3> QED
        BY <1>1, <3>1 DEF FramesDecoded
    <2>4. UNCHANGED <<file, index, attachedPic, eof, pc, pos, start, got, queue, epoch>>
      BY <2>1 DEF demuxVars
    <2>5. VideoOnly' /\ QueueRuns' /\ Fetched' = Fetched
      BY <1>1, <2>4 DEF VideoOnly, QueueRuns, Due, EndQueued, AtEnd, End, Fetched
    <2>6. LineInv'
      BY <1>1, <1>2, <1>3, <1>4, <2>1, <2>2, <2>3, <2>4, <2>5, LineShows
    <2> QED
      BY <1>1, <1>2, <2>1, <2>5, <2>6, DecodedStep DEF Refined
  <1>11. CASE UNCHANGED vars
    <2>1. /\ thrown' = thrown
          /\ UNCHANGED <<file, index, attachedPic, eof, pc, pos, start, got, queue, epoch, shown>>
      BY <1>11 DEF vars, demuxVars, history
    <2>2. Line' = Line /\ UNCHANGED decodeVars
      BY <1>11 DEF vars, decodeVars, Line, Hand, Coming
    <2>3. VideoOnly' /\ QueueRuns' /\ Fetched' = Fetched
      BY <1>1, <2>1 DEF VideoOnly, QueueRuns, Due, EndQueued, AtEnd, End, Fetched
    <2>4. LineInv'
      BY <1>1, <1>2, <1>3, <1>4, <2>1, <2>2, <2>3, LineStays
    <2> QED
      BY <1>1, <1>2, <2>2, <2>3, <2>4, DecodedStep DEF Refined
  <1> QED
    BY <1>5, <1>6, <1>7, <1>8, <1>9, <1>10, <1>11 DEF Next

LEMMA RefinedAlways == Spec => []Refined
  BY RefinedInit, RefinedStep, PTL DEF Spec
-----------------------------------------------------------------------------
(* The theorems. *)

\* A step that shows a frame is the abstract ShowNext or ShowOld.
LEMMA ShowsOnScreen ==
    ASSUME Refined, Shows
    PROVE  ViewerSees!ShowNext \/ ViewerSees!ShowOld
  <1> DEFINE f == Head(frames)
  <1>1. DecodeTypes /\ OldAhead /\ LineInv /\ FramesDecoded /\ DemuxInv
    BY DEF Refined, Inv, DecodeInv
  <1>2. /\ Decode!Take /\ frames # << >> /\ UNCHANGED <<start, thrown>>
        /\ IF f[1] = epoch THEN shown' = shown \cup {f[2]} /\ oldShown' = oldShown
                           ELSE oldShown' = oldShown + 1 /\ shown' = shown
    BY DEF Shows, Decode!Take, demuxVars
  <1>4. Len(frames) \in Nat \ {0} /\ f = frames[1]
    BY <1>1, <1>2, Taken DEF DecodeTypes
  <1>5. f[2] \in Decodable
    BY <1>1, <1>4 DEF FramesDecoded
  <1>6. Line \in Seq(Sent) /\ Line # << >> /\ f = Head(Line)
    BY <1>1, <1>2, LineParts, TakeLine
  <1>7. f = Line[1] /\ 1 \in 1 .. Len(Line) /\ Len(Line) \in Nat
    BY <1>6, Taken
  <1> HIDE DEF f
  <1>8. CASE f[1] = epoch
    <2>1. f[2] \in Fetched \cup {End} /\ (\A g \in shown : g < f[2])
      BY <1>1, <1>7, <1>8 DEF LineInv, LineCurrent, Current
    <2>2. f[2] \in Fetched /\ Fetched \subseteq 1 .. FileLen
      BY <1>1, <1>5, <2>1, Numbers DEF Decodable, End
    <2>3. f[2] \in ViewerSees!Wanted \ thrown
      BY <1>1, <1>5, <1>7, <1>8, <2>2, Numbers
         DEF ViewerSees!Wanted, Fetched, Decodable, LineInv, LineThrown, Current
    <2>4. ASSUME NEW g \in ViewerSees!Wanted, g < f[2]
          PROVE  g \in shown \cup thrown
      <3>1. g \in Fetched \ Corrupt
        BY <1>1, <2>2, <2>4, Numbers DEF ViewerSees!Wanted, Fetched
      <3>2. g \in Int /\ f[2] \in Int /\ ~(f[2] < g) /\ g # f[2]
        <4>1. FileLen \in Nat /\ g \in 1 .. FileLen /\ f[2] \in 1 .. FileLen
          BY <1>1, <2>2, <3>1, Numbers
        <4>2. g \in Int /\ f[2] \in Int
          BY <4>1
        <4> QED
          BY <2>4, <4>2
      <3>3. SUFFICES ASSUME NEW i \in 1 .. Len(Line), Line[i] = <<epoch, g>>
                     PROVE  FALSE
        BY <1>1, <2>4, <3>1 DEF LineInv, LineKeepsAll
      <3>4. CASE i = 1
        BY <1>7, <3>2, <3>3, <3>4
      <3>5. CASE i # 1
        <4>1. 1 < i
          BY <3>5
        <4>2. f[2] < g
          BY <1>1, <1>7, <1>8, <3>3, <4>1 DEF LineInv, LineOrdered, Current
        <4> QED
          BY <3>2, <4>2
      <3> QED
        BY <3>4, <3>5
    <2>5. shown' = shown \cup {f[2]} /\ UNCHANGED <<start, oldShown, thrown>>
      BY <1>2, <1>8
    <2> QED
      BY <2>1, <2>3, <2>4, <2>5 DEF ViewerSees!ShowNext
  <1>9. CASE f[1] # epoch
    <2>1. shown = {}
      BY <1>1, <1>7, <1>9 DEF LineInv, LineCurrent, Current
    <2>2. MayBeOld(1) /\ oldShown \in Nat
      BY <1>1, <1>4, <1>9 DEF OldAhead
    <2>3. oldShown < Capacity + Delay + 1
      BY <2>2, Constants DEF MayBeOld, Bound
    <2> QED
      BY <1>2, <1>9, <2>1, <2>3 DEF ViewerSees!ShowOld
  <1> QED
    BY <1>8, <1>9

\* A packet of after the seek that is thrown away is the abstract Lose.
LEMMA LosesOnScreen ==
    ASSUME Refined, Decodes
    PROVE  ViewerSees!Lose \/ UNCHANGED <<start, shown, oldShown, thrown>>
  <1>1. DecodeTypes /\ LineInv /\ DemuxInv
    BY DEF Refined, Inv, DecodeInv
  <1>2. UNCHANGED <<start, shown, oldShown>>
    BY DEF Decodes, demuxVars
  <1>3. (Line' = Line /\ thrown' = thrown) \/ LastGoes
    BY <1>1, DecodesLine
  <1>4. CASE LastGoes /\ Current(pkt) /\ thrown' = thrown \cup {pkt[2]}
    <2>1. Line[Len(Line)] = pkt /\ Len(Line) \in 1 .. Len(Line)
      <3>1. Line = Append(Line', pkt) /\ Line' \in Seq(Sent) /\ pkt \in Sent
        BY <1>4 DEF LastGoes, PacketGoes
      <3>2. Len(Line) = Len(Line') + 1 /\ Line[Len(Line') + 1] = pkt /\ Len(Line') \in Nat
        BY <3>1, Appended
      <3> QED
        BY <3>2
    <2>2. pkt[2] \in Fetched \cup {End} /\ (\A g \in shown : g < pkt[2])
      BY <1>1, <1>4, <2>1 DEF LineInv, LineCurrent
    <2>3. pkt[2] \notin thrown
      BY <1>1, <1>4, <2>1 DEF LineInv, LineThrown
    <2>4. pkt[2] \in start .. FileLen + 1
      <3>1. FileLen \in Nat /\ pos \in 1 .. End /\ start \in 1 .. pos
        BY <1>1, Numbers
      <3>2. CASE pkt[2] = End
        BY <3>1, <3>2 DEF End
      <3>3. CASE pkt[2] \in Fetched
        BY <3>1, <3>3 DEF End, Fetched
      <3> QED
        BY <2>2, <3>2, <3>3
    <2> QED
      BY <1>2, <1>4, <2>2, <2>3, <2>4 DEF ViewerSees!Lose
  <1> QED
    BY <1>2, <1>3, <1>4 DEF LastGoes

\* What reaches the screen after a seek is a bounded number of frames of before it,
\* then those from the place of the seek on, in order, each once, and none before
\* all that precede it, but for those whose packets the check of the serial threw
\* away: for any file, any serials of packets, any codec delay and frame queue, and
\* any order of seeks, faults and steps.
THEOREM PlaybackImplementsScreen == Spec => ScreenSpec
  <1>1. Init => ViewerSees!Init
    BY DEF Init, Demux!Init, ViewerSees!Init
  <1>2. ASSUME Refined, [Next]_vars
        PROVE  [ViewerSees!Next]_(ViewerSees!screenVars)
    <2> SUFFICES \/ ViewerSees!Next
                 \/ UNCHANGED <<start, shown, oldShown, thrown>>
      BY DEF ViewerSees!screenVars
    <2>1. DemuxInv /\ VideoOnly /\ DecodeTypes
      BY <1>2 DEF Refined, Inv, DecodeInv
    <2>2. CASE Reads
      BY <1>2, <2>2, ReadsRefined DEF Reads
    <2>3. CASE Seeks
      <3>1. start' \in 1 .. FileLen + 1
        BY <2>1, <2>3, SeekQueue DEF Seeks
      <3>2. shown' = {} /\ oldShown' = 0 /\ thrown' = {}
        BY <2>3 DEF Seeks
      <3> QED
        BY <3>1, <3>2 DEF ViewerSees!Seek, ViewerSees!Next
    <2>4. CASE RequestSeek
      BY <2>4 DEF RequestSeek, Demux!RequestSeek, history
    <2>5. CASE GetPacket
      BY <2>5 DEF GetPacket, Demux!getPacket
    <2>6. CASE Decodes
      BY <1>2, <2>6, LosesOnScreen DEF ViewerSees!Next
    <2>7. CASE Launch \/ NewSerial
      BY <2>7 DEF Launch, NewSerial, demuxVars, history
    <2>8. CASE Shows
      BY <1>2, <2>8, ShowsOnScreen DEF ViewerSees!Next
    <2>9. CASE UNCHANGED vars
      BY <2>9 DEF vars, demuxVars, history
    <2> QED
      BY <1>2, <2>2, <2>3, <2>4, <2>5, <2>6, <2>7, <2>8, <2>9 DEF Next
  <1> QED
    BY <1>1, <1>2, RefinedAlways, PTL DEF Spec, ScreenSpec, ViewerSees!Spec

\* Whatever was read since the last seek and can be decoded is on the screen once
\* queues, codec and thread are empty, but for what the check of the serial threw
\* away: the frames a codec holds back until the null packet are not forgotten,
\* whatever its delay and whatever serials packets carry.
THEOREM NothingIsLost == Spec => []NothingLost
  <1>1. Refined => NothingLost
    <2> SUFFICES ASSUME Refined, Drained
                 PROVE  shown = ((start .. pos - 1) \ Corrupt) \ thrown
      BY DEF NothingLost
    <2>1. DemuxInv /\ QueueRuns /\ LineInv
      BY DEF Refined, Inv
    <2>2. queue["video"] = << >> /\ Len(queue["video"]) = 0 /\ ~EndQueued
      BY Nothing DEF Drained, EndQueued
    <2>3. Line = << >> /\ Len(Line) = 0
      <3>1. << >> \o << >> = << >>
        OBVIOUS
      <3>2. Line = << >>
        BY <3>1 DEF Drained, Line, Hand, Coming
      <3> QED
        BY <3>2, Nothing
    <2>4. Fetched = start .. pos - 1
      <3>1. CASE got["video"] = End
        BY <2>1, <3>1, Numbers DEF Fetched, End
      <3>2. CASE got["video"] # End
        <4>1. pos = Due + 0 /\ Due \in Nat
          BY <2>1, <2>2, <3>2, Numbers DEF QueueRuns, Due
        <4> QED
          BY <2>1, <4>1, Numbers DEF Fetched, Due
      <3> QED
        BY <3>1, <3>2
    <2>5. shown \subseteq (Fetched \ Corrupt) \ thrown
      BY <2>1 DEF LineInv, LineCurrent, LineThrown
    <2>6. \A g \in Fetched \ Corrupt : g \in shown \cup thrown
      BY <2>1, <2>3 DEF LineInv, LineKeepsAll
    <2> QED
      BY <2>4, <2>5, <2>6
  <1> QED
    BY <1>1, RefinedAlways, PTL
=============================================================================
