----------------------------- MODULE PacketQueue -----------------------------
(***************************************************************************)
(* The queue of undecoded packets (src/src/utils/PacketQueue.cpp): a       *)
(* linked list under one mutex, filled by the demuxer thread, drained by   *)
(* the decode thread, which may block, and flushed or aborted by whoever   *)
(* controls the player.  Every method holds qmutex from its first to its   *)
(* last access, so each is one action; waiting on the condition variable   *)
(* splits getPacket().                                                     *)
(*                                                                         *)
(* Packets are numbered in the order they are put and stand for their list *)
(* node too.  Byte size and duration move with nbPackets and are left out. *)
(***************************************************************************)
EXTENDS Integers

CONSTANTS MaxPackets,   \* bound: packets the demuxer puts
          Null          \* the null pointer

VARIABLES
    firstPacket, lastPacket, nbPackets,   \* the object's fields
    nextOf,     \* the next pointer of each node
    puts,       \* packets put so far
    getter,     \* where the decode thread is
    crashed     \* has a method written through a null pointer?

list == <<firstPacket, lastPacket, nbPackets, nextOf>>
vars == <<firstPacket, lastPacket, nbPackets, nextOf, puts, getter, crashed>>

Nodes == 1 .. MaxPackets

TypeOK ==
    /\ firstPacket \in Nodes \cup {Null} /\ lastPacket \in Nodes \cup {Null}
    /\ nbPackets \in 0 .. MaxPackets
    /\ nextOf \in [Nodes -> Nodes \cup {Null}]
    /\ puts \in 0 .. MaxPackets
    /\ getter \in {"idle", "waiting", "recheck"}
    /\ crashed \in BOOLEAN

Init ==
    /\ firstPacket = Null /\ lastPacket = Null /\ nbPackets = 0
    /\ nextOf = [n \in Nodes |-> Null]
    /\ puts = 0 /\ getter = "idle" /\ crashed = FALSE

-----------------------------------------------------------------------------
\* putPrivate() tests lastPacket the wrong way round: with a last packet it
\* replaces the first one, and without one it stores through the null pointer.
PutLinks ==
    /\ lastPacket # Null
    /\ firstPacket' = puts + 1
    /\ lastPacket' = puts + 1
    /\ nbPackets' = nbPackets + 1
    /\ getter' = IF getter = "waiting" THEN "recheck" ELSE getter
    /\ nextOf' = [nextOf EXCEPT ![puts + 1] = Null]
    /\ UNCHANGED crashed

PutCrashes ==
    /\ lastPacket = Null
    /\ crashed' = TRUE
    /\ UNCHANGED <<list, getter>>

\* Without memory for the node the packet is let go.
PutFails == UNCHANGED <<list, getter, crashed>>

put ==
    /\ puts < MaxPackets
    /\ puts' = puts + 1
    /\ PutLinks \/ PutCrashes \/ PutFails

\* getPacket() takes the first node, or returns 0 at once unless it may block.
getPacket ==
    /\ getter \in {"idle", "recheck"}
    /\ \/ /\ firstPacket # Null
          /\ firstPacket' = nextOf[firstPacket]
          /\ lastPacket' = IF nextOf[firstPacket] = Null THEN Null ELSE lastPacket
          /\ nbPackets' = nbPackets - 1
          /\ getter' = "idle"
       \/ /\ firstPacket = Null
          /\ getter' \in IF getter = "recheck" THEN {"waiting"} ELSE {"idle", "waiting"}
          /\ UNCHANGED <<firstPacket, lastPacket, nbPackets>>
    /\ UNCHANGED <<nextOf, puts, crashed>>

SpuriousWakeup ==
    /\ getter = "waiting"
    /\ getter' = "recheck"
    /\ UNCHANGED <<list, puts, crashed>>

flush ==
    /\ firstPacket' = Null /\ lastPacket' = Null /\ nbPackets' = 0
    /\ UNCHANGED <<nextOf, puts, getter, crashed>>

\* abort() takes and drops the lock: neither a flag nor a signal, so that a
\* thread that waits in getPacket() goes on waiting.
abort == UNCHANGED vars

Next == ~crashed /\ (put \/ getPacket \/ SpuriousWakeup \/ flush \/ abort)

Spec == Init /\ [][Next]_vars

-----------------------------------------------------------------------------
\* Putting a packet into the queue succeeds: tests/PacketQueueTest.cpp puts one
\* into a new queue and expects 0.
PutSucceeds == ~crashed
=============================================================================
