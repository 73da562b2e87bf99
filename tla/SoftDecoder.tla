----------------------------- MODULE SoftDecoder -----------------------------
(***************************************************************************)
(* The decode thread (SoftDecoder::decodeThread,                           *)
(* src/src/decoder/SoftDecoder.cpp) between a packet queue and a frame     *)
(* queue, and the serial of DataStreamContext that it compares packets     *)
(* with.  A packet, and the frame it decodes to, is a pair of the seek it  *)
(* belongs to and its number in the file; the frame queue is the bounded   *)
(* FIFO that FrameQueue implements.                                        *)
(*                                                                         *)
(* The codec keeps FFmpeg's contract: it holds back up to Delay frames,    *)
(* gives all of them after a null packet and then reports the end, and     *)
(* takes a packet whenever it has no frame to give.                        *)
(***************************************************************************)
EXTENDS Naturals, Sequences

CONSTANTS
    FileLen,        \* packets in the file; the null packet's number is the next
    Corrupt,        \* packets the codec refuses
    Delay,          \* frames the codec holds back
    Capacity,       \* frames the frame queue holds
    NodeSerials,    \* what the serial of a packet may happen to be
    MaxSerial       \* bound: increments of the serial

DecoderAssumption ==
    /\ FileLen \in Nat \ {0} /\ Corrupt \subseteq 1 .. FileLen
    /\ Delay \in Nat /\ Capacity \in Nat \ {0}
    /\ NodeSerials \subseteq Nat /\ MaxSerial \in Nat

VARIABLES
    source,         \* the packet queue
    frames,         \* the frame queue
    codec,          \* frames the codec holds
    draining,       \* has the codec had the null packet?
    thread,         \* where the decode thread is
    pkt, pktSerial, \* its locals
    frame,
    packetPending,
    currentSerial,  \* DataStreamContext
    staleSent       \* packets of another serial sent since the serial last
                    \* changed  (history)

codecVars == <<codec, draining>>

none == <<0, 0>>
Items == Nat \X (0 .. FileLen + 1)

TypeOK ==
    /\ source \in Seq(Items) /\ frames \in Seq(Items) /\ Len(frames) <= Capacity
    /\ codec \in Seq(Items) /\ Len(codec) <= Delay + 1
    /\ draining \in BOOLEAN /\ packetPending \in BOOLEAN
    /\ thread \in {"ended", "receive", "push", "get", "check", "send", "crashed"}
    /\ pkt \in Items /\ frame \in Items
    /\ (pkt # none) = (thread \in {"check", "send"})
    /\ (frame # none) = (thread = "push")
    /\ pktSerial \in NodeSerials \cup {0}
    /\ currentSerial \in 0 .. MaxSerial /\ staleSent \in Nat

\* packetPending is never initialised.
Init ==
    /\ frames = << >> /\ codec = << >> /\ draining = FALSE
    /\ thread = "ended" /\ pkt = none /\ pktSerial = 0 /\ frame = none
    /\ packetPending \in BOOLEAN
    /\ currentSerial = 0 /\ staleSent = 0

-----------------------------------------------------------------------------
(* The decode thread. *)

\* The thread is started, or started again after it has returned; its locals
\* are new.  The repository has nothing that does so yet: start() tests
\* decodeThreadPtr the wrong way round.
Launch ==
    /\ thread = "ended"
    /\ thread' = "receive" /\ pktSerial' = 0
    /\ UNCHANGED <<source, frames, codecVars, pkt, frame, packetPending, currentSerial, staleSent>>

\* It reads the stream and its context before anything else, which the demuxer
\* has freed once it has closed the file.
LaunchCrashes ==
    /\ thread = "ended"
    /\ thread' = "crashed"
    /\ UNCHANGED <<source, frames, codecVars, pkt, pktSerial, frame, packetPending, currentSerial, staleSent>>

HasFrame == codec # << >> /\ (draining \/ Len(codec) > Delay)

ReceiveFrame ==
    /\ thread = "receive" /\ HasFrame
    /\ frame' = Head(codec) /\ codec' = Tail(codec)
    /\ thread' = "push"
    /\ UNCHANGED <<source, frames, draining, pkt, pktSerial, packetPending, currentSerial, staleSent>>

\* Mutant: the flush is forgotten, so the codec stays at its end.
EndUnflushed ==
    /\ thread = "receive" /\ ~HasFrame /\ draining
    /\ thread' = "ended"
    /\ UNCHANGED <<source, frames, codecVars, pkt, pktSerial, frame, packetPending, currentSerial, staleSent>>

\* Mutant: the codec is flushed as soon as it has the null packet.
EndAtOnce ==
    /\ thread = "receive" /\ draining
    /\ codec' = << >> /\ draining' = FALSE
    /\ thread' = "ended"
    /\ UNCHANGED <<source, frames, pkt, pktSerial, frame, packetPending, currentSerial, staleSent>>

\* The end of the stream: the codec is made ready for another, and the thread
\* returns.
ReceiveEnd ==
    /\ thread = "receive" /\ ~HasFrame /\ draining
    /\ codec' = << >> /\ draining' = FALSE
    /\ thread' = "ended"
    /\ UNCHANGED <<source, frames, pkt, pktSerial, frame, packetPending, currentSerial, staleSent>>

ReceiveAgain ==
    /\ thread = "receive" /\ ~HasFrame /\ ~draining
    /\ thread' = "get"
    /\ UNCHANGED <<source, frames, codecVars, pkt, pktSerial, frame, packetPending, currentSerial, staleSent>>

\* Mutant: the slot is not waited for.
PushAtOnce ==
    /\ thread = "push"
    /\ frames' = Append(frames, frame)
    /\ frame' = none /\ thread' = "ended"
    /\ UNCHANGED <<source, codecVars, pkt, pktSerial, packetPending, currentSerial, staleSent>>

\* Mutant: without a free slot the frame is dropped.
PushOrDrop ==
    /\ thread = "push"
    /\ frames' = IF Len(frames) < Capacity THEN Append(frames, frame) ELSE frames
    /\ frame' = none /\ thread' = "ended"
    /\ UNCHANGED <<source, codecVars, pkt, pktSerial, packetPending, currentSerial, staleSent>>

\* peekWritable() waits for a free slot; after the push the thread returns.
Push ==
    /\ thread = "push" /\ Len(frames) < Capacity
    /\ frames' = Append(frames, frame)
    /\ frame' = none /\ thread' = "ended"
    /\ UNCHANGED <<source, codecVars, pkt, pktSerial, packetPending, currentSerial, staleSent>>

\* pendingPkt is never set either, so a pending packet is none at all.
GetPending ==
    /\ thread = "get" /\ packetPending
    /\ thread' = "crashed"
    /\ UNCHANGED <<source, frames, codecVars, pkt, pktSerial, frame, packetPending, currentSerial, staleSent>>

\* getPacket waits for a packet.  Nothing sets the serial that comes with it, so
\* that it is whatever the memory of the list node held.
Get ==
    /\ thread = "get" /\ ~packetPending /\ source # << >>
    /\ pkt' = Head(source) /\ source' = Tail(source)
    /\ pktSerial' \in NodeSerials
    /\ thread' = "check"
    /\ UNCHANGED <<frames, codecVars, frame, packetPending, currentSerial, staleSent>>

\* Mutant: every serial will do.
AnySerial(serial) == TRUE

validSerial(serial) == serial = currentSerial

Check ==
    /\ thread = "check"
    /\ IF validSerial(pktSerial)
       THEN thread' = "send" /\ UNCHANGED pkt
       ELSE thread' = "get" /\ pkt' = none
    /\ UNCHANGED <<source, frames, codecVars, pktSerial, frame, packetPending, currentSerial, staleSent>>

\* What a codec does with a packet: a null one ends the stream, a corrupt one
\* is refused, which nobody looks at.
Accept(p) ==
    IF p[2] = FileLen + 1 THEN draining' = TRUE /\ UNCHANGED codec
    ELSE /\ codec' = IF p[2] \in Corrupt THEN codec ELSE Append(codec, p)
         /\ UNCHANGED draining

\* The serial may have changed since Check.
Send ==
    /\ thread = "send"
    /\ Accept(pkt)
    /\ staleSent' = IF pktSerial # currentSerial THEN staleSent + 1 ELSE staleSent
    /\ pkt' = none /\ thread' = "receive"
    /\ UNCHANGED <<source, frames, pktSerial, frame, packetPending, currentSerial>>

\* The thread's steps that leave the packet queue alone.
DecodeStep ==
    \/ ReceiveFrame \/ ReceiveEnd \/ ReceiveAgain \/ Push \/ GetPending
    \/ Check \/ Send

-----------------------------------------------------------------------------
(* The others. *)

\* A public method that nothing in the repository calls yet.  The queue and the
\* clocks, its listeners, do nothing.
incrementSerial ==
    /\ currentSerial < MaxSerial /\ currentSerial' = currentSerial + 1
    /\ staleSent' = 0
    /\ UNCHANGED <<source, frames, codecVars, thread, pkt, pktSerial, frame, packetPending>>

\* The showing thread takes a frame.
Take ==
    /\ frames # << >> /\ frames' = Tail(frames)
    /\ UNCHANGED <<source, codecVars, thread, pkt, pktSerial, frame, packetPending, currentSerial, staleSent>>

-----------------------------------------------------------------------------
(* Properties. *)

\* The check of the serial and the use of the packet are two steps; all the
\* same no more than one packet of another serial reaches the codec after the
\* serial has changed.
OneStaleSent == staleSent <= 1
=============================================================================
