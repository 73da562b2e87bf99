---------------------------- MODULE PlayerManager ----------------------------
(***************************************************************************)
(* The SDK's entry points (src/src/api/YPlayerSDK.cpp) and the manager     *)
(* behind them (src/src/control/PlayerManager.cpp): a lazily created       *)
(* singleton that maps ports to players.  Every client is a thread of the  *)
(* application; it asks for a port, uses it and gives it back.             *)
(*                                                                         *)
(* Each manager method holds playerMapMutex throughout and is one action.  *)
(* instance() holds nothing and is up to three steps.  What a Player does  *)
(* in open and start (src/src/control/Player.cpp) is reduced to whether    *)
(* the call returns or dereferences a null pointer, which ends the         *)
(* process.                                                                *)
(***************************************************************************)
EXTENDS Integers, FiniteSets

CONSTANTS Clients,        \* threads of the application that call the SDK
          MAX_PORT_NUM,   \* ports 0 .. MAX_PORT_NUM - 1
          MaxPlayers,     \* bound: Player objects ever created
          None            \* no port, no manager, no player

ASSUME ManagerAssumption ==
    /\ IsFiniteSet(Clients)
    /\ MAX_PORT_NUM \in Nat \ {0} /\ MaxPlayers \in Nat
    /\ None \notin Nat

Ports    == 0 .. MAX_PORT_NUM - 1
Managers == 1 .. Cardinality(Clients) + 1
Players  == 1 .. MaxPlayers

VARIABLES
    pInstance,   \* PlayerManager::pInstance
    managers,    \* number of managers constructed
    playerMap,   \* _playerMap of each manager: port -> player or None
    allocated,   \* number of players constructed
    live,        \* players not deleted
    portOf,      \* the port each player was told
    pc,          \* where each client is
    mgr,         \* the manager instance() gave each client
    held,        \* the port each client got and still considers its own, or None
    kept,        \* history: has a client considered a port its own after closing it?
    crashed      \* "no", or the call that ended the process

singleton == <<pInstance, managers>>
players == <<playerMap, allocated, live, portOf>>
vars == <<pInstance, managers, playerMap, allocated, live, portOf,
          pc, mgr, held, kept, crashed>>

TypeOK ==
    /\ pInstance \in Managers \cup {None} /\ managers \in 0 .. Cardinality(Clients) + 1
    /\ playerMap \in [Managers -> [Ports -> Players \cup {None}]]
    /\ allocated \in 0 .. MaxPlayers
    /\ live \subseteq Players
    /\ portOf \in [Players -> Ports \cup {None}]
    /\ pc \in [Clients -> {"idle", "creating", "returning", "call"}]
    /\ mgr \in [Clients -> Managers \cup {None}]
    /\ held \in [Clients -> Ports \cup {None}] /\ kept \in BOOLEAN
    /\ crashed \in {"no", "openFile", "play"}

Init ==
    /\ pInstance = None /\ managers = 0
    /\ playerMap = [m \in Managers |-> [p \in Ports |-> None]]
    /\ allocated = 0 /\ live = {} /\ portOf = [x \in Players |-> None]
    /\ pc = [c \in Clients |-> "idle"] /\ mgr = [c \in Clients |-> None]
    /\ held = [c \in Clients |-> None] /\ kept = FALSE
    /\ crashed = "no"

-----------------------------------------------------------------------------
(* PlayerManager::instance(), called by every entry point. *)

TestInstance(c) ==
    /\ pc[c] = "idle"
    /\ pc' = [pc EXCEPT ![c] = IF pInstance = None THEN "creating" ELSE "returning"]
    /\ UNCHANGED <<singleton, players, mgr, held, kept, crashed>>

CreateInstance(c) ==
    /\ pc[c] = "creating"
    /\ managers' = managers + 1
    /\ pInstance' = managers + 1
    /\ pc' = [pc EXCEPT ![c] = "returning"]
    /\ UNCHANGED <<players, mgr, held, kept, crashed>>

\* The return statement reads pInstance again.
ReturnInstance(c) ==
    /\ pc[c] = "returning"
    /\ mgr' = [mgr EXCEPT ![c] = pInstance]
    /\ pc' = [pc EXCEPT ![c] = "call"]
    /\ UNCHANGED <<singleton, players, held, kept, crashed>>

-----------------------------------------------------------------------------
(* The methods of the manager. *)

Mapped(m) == {p \in Ports : playerMap[m][p] # None}

\* Mutant: the map is not asked.
AnyPorts(m) == Ports

FreePorts(m) == Ports \ Mapped(m)

\* The client is back from the entry point.
Returns(c) ==
    /\ pc[c] = "call"
    /\ pc' = [pc EXCEPT ![c] = "idle"]
    /\ UNCHANGED <<singleton, mgr>>

\* Mutant: the number before the player's own.
PlayerBefore(m, p) == allocated + Cardinality({q \in FreePorts(m) : q < p})

\* The loop over the ports does not stop at the first free one: every free
\* port gets a player, and the caller gets the last.  Which player gets which
\* number is immaterial; they are created in the order of the ports.
NewPlayer(m, p) == allocated + Cardinality({q \in FreePorts(m) : q <= p})

IsLastFree(m, p) == p \in FreePorts(m) /\ \A q \in FreePorts(m) : q <= p

\* Mutant: no setPort.
FillUntold(m) ==
    /\ playerMap' = [playerMap EXCEPT ![m] =
                        [p \in Ports |-> IF p \in FreePorts(m) THEN NewPlayer(m, p) ELSE @[p]]]
    /\ allocated' = allocated + Cardinality(FreePorts(m))
    /\ live' = live \cup {NewPlayer(m, p) : p \in FreePorts(m)}
    /\ UNCHANGED portOf

FillFreePorts(m) ==
    LET new == {NewPlayer(m, p) : p \in FreePorts(m)} IN
    /\ playerMap' = [playerMap EXCEPT ![m] =
                        [p \in Ports |-> IF p \in FreePorts(m) THEN NewPlayer(m, p) ELSE @[p]]]
    /\ allocated' = allocated + Cardinality(FreePorts(m))
    /\ live' = live \cup new
    /\ portOf' = [x \in Players |->
                    IF x \in new THEN CHOOSE p \in FreePorts(m) : x = NewPlayer(m, p)
                                 ELSE portOf[x]]

getFreePort(c) ==
    LET m == mgr[c] IN
    /\ Returns(c)
    /\ held[c] = None
    /\ allocated + Cardinality(FreePorts(m)) <= MaxPlayers
    /\ \/ /\ FreePorts(m) = {}
          /\ UNCHANGED <<players, held>>
       \/ \E p \in Ports :
          /\ IsLastFree(m, p)
          /\ FillFreePorts(m)
          /\ held' = [held EXCEPT ![c] = p]
    /\ UNCHANGED <<kept, crashed>>

\* Mutant: the player is deleted and its entry stays.
releaseDangling(c) ==
    /\ Returns(c)
    /\ held[c] # None
    /\ live' = live \ {playerMap[mgr[c]][held[c]]}
    /\ held' = [held EXCEPT ![c] = None]
    /\ UNCHANGED <<playerMap, allocated, portOf, kept, crashed>>

\* releasePort deletes the player and erases the entry, if there is one; the
\* client no longer uses the port either way.
releasePort(c) ==
    LET m == mgr[c]  p == held[c] IN
    /\ Returns(c)
    /\ p # None
    /\ playerMap' = [playerMap EXCEPT ![m][p] = None]
    /\ live' = live \ {playerMap[m][p]}
    /\ held' = [held EXCEPT ![c] = None]
    /\ UNCHANGED <<allocated, portOf, kept, crashed>>

\* Demuxer::init() opens the url only to check it and closes it again.  A url
\* that cannot be opened is reported; for one that can, the streams are then
\* asked of the context that the close took away.
DemuxerInitCrashes(valid) == valid

\* openFile of an unmapped port changes nothing.
openFile(c, valid) ==
    /\ Returns(c)
    /\ held[c] # None
    /\ crashed' = IF held[c] \in Mapped(mgr[c]) /\ DemuxerInitCrashes(valid)
                  THEN "openFile" ELSE crashed
    /\ UNCHANGED <<players, held, kept>>

\* closeFile erases the entry and forgets the player without deleting it.  The
\* client may consider the port gone, or go on using it until it releases it.
closeFile(c) ==
    LET m == mgr[c]  p == held[c] IN
    /\ Returns(c)
    /\ p # None
    /\ playerMap' = [playerMap EXCEPT ![m][p] = None]
    /\ \/ held' = [held EXCEPT ![c] = None] /\ UNCHANGED kept
       \/ kept' = TRUE /\ UNCHANGED held
    /\ UNCHANGED <<allocated, live, portOf, crashed>>

\* play starts the player; start() asks the demuxer's context for a flag
\* before it tests whether there is a demuxer.  A new player has none, and
\* after a failed openFile the demuxer has no context.
play(c) ==
    /\ Returns(c)
    /\ held[c] # None
    /\ crashed' = IF held[c] \in Mapped(mgr[c]) THEN "play" ELSE crashed
    /\ UNCHANGED <<players, held, kept>>

\* pause, seek, speed and OneByOne look the port up and change nothing;
\* setDecodeCallback stores a pointer nobody reads.
Inert(c) ==
    /\ Returns(c)
    /\ UNCHANGED <<players, held, kept, crashed>>

-----------------------------------------------------------------------------
ClientStep(c) ==
    \/ TestInstance(c) \/ CreateInstance(c) \/ ReturnInstance(c)
    \/ getFreePort(c) \/ releasePort(c) \/ closeFile(c)
    \/ \E valid \in BOOLEAN : openFile(c, valid)
    \/ play(c) \/ Inert(c)

Next == crashed = "no" /\ \E c \in Clients : ClientStep(c)

Spec == Init /\ [][Next]_vars

-----------------------------------------------------------------------------
(* Safety. *)

\* instance() has constructed one manager, whoever called first.
OneManager == managers <= 1

NoPortShared ==
    \A c, d \in Clients : c # d /\ held[c] # None => held[c] # held[d]

\* Two clients never use the same port at once: what one got from getFreePort
\* stays out of the free ports until it gives it back, unless the first calls
\* constructed two managers or some client went on with a port it had closed.
PortExclusive == OneManager /\ ~kept => NoPortShared

\* The port a client uses is mapped, by the manager its next call will reach,
\* to a player that nobody deleted and that was told this port; with the same
\* two exceptions.
UsedPortHasPlayer ==
    OneManager /\ ~kept => \A c \in Clients : held[c] # None =>
        LET player == playerMap[pInstance][held[c]] IN
        player \in live /\ portOf[player] = held[c]

\* However the first calls race and in whatever order ports are closed and
\* released, the maps stay sound: no entry points to a deleted player, and no
\* player is in two entries or was told another port.
MapsSound ==
    \A m \in Managers, p \in Ports : playerMap[m][p] # None =>
        /\ playerMap[m][p] \in live
        /\ portOf[playerMap[m][p]] = p
        /\ \A n \in Managers \ {m} : playerMap[n][p] # playerMap[m][p]

\* Why: as long as only one manager was constructed every call reaches it, and
\* the ports in use are mapped there and differ.
FirstManagerReached ==
    /\ pInstance = IF managers = 0 THEN None ELSE 1
    /\ \A c \in Clients :
          /\ pc[c] \in {"returning", "call"} \/ held[c] # None => pInstance = 1
          /\ pc[c] = "call" => mgr[c] = 1

OwnedPorts ==
    /\ NoPortShared
    /\ \A c \in Clients : held[c] # None => playerMap[1][held[c]] # None

-----------------------------------------------------------------------------
(* What the interface says and the code does not keep: that there is one     *)
(* manager (OneManager), and the following.                                  *)

\* A port belongs to the client that got it until releasePort, whether or not
\* its file is closed.
HeldUntilReleased == OneManager => NoPortShared
=============================================================================
