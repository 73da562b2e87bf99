----------------------------- MODULE PacketFeed -----------------------------
(***************************************************************************)
(* What the demuxer promises the decode thread of one stream: the packets  *)
(* of the stream, one after the other and none left out, from the place of *)
(* the last seek on; then one null packet, at the end of the stream or     *)
(* when the file cannot be read any further.                               *)
(***************************************************************************)
EXTENDS Integers

CONSTANT FileLen      \* packets of the file; the null packet is the next number

VARIABLES own,        \* the packets of the stream
          from,       \* where the last seek went to
          last,       \* what was given last since, or 0
          broken      \* can the file not be read any further?

feedVars == <<own, from, last, broken>>

Null == FileLen + 1

\* What the decode thread waits for.
Awaited == {f \in own : f >= from /\ f > last}

Init ==
    /\ own \subseteq 1 .. FileLen
    /\ from = 1 /\ last = 0 /\ broken = FALSE

Give ==
    /\ \E f \in Awaited :
          /\ \A g \in Awaited : f <= g
          /\ last' = f
    /\ UNCHANGED <<own, from, broken>>

GiveNull ==
    /\ last # Null
    /\ Awaited = {} \/ broken
    /\ last' = Null
    /\ UNCHANGED <<own, from, broken>>

Seek ==
    /\ ~broken
    /\ from' \in 1 .. Null /\ last' = 0
    /\ UNCHANGED <<own, broken>>

Break ==
    /\ ~broken /\ broken' = TRUE
    /\ UNCHANGED <<own, from, last>>

Next == Give \/ GiveNull \/ Seek \/ Break

Spec == Init /\ [][Next]_feedVars
=============================================================================
