------------------------ MODULE PlayerManager_proofs ------------------------
(***************************************************************************)
(* For any number of clients and ports: however the first calls race and   *)
(* whatever clients do with ports they closed, the maps stay sound; and as *)
(* long as one manager was constructed and nobody goes on with a port it   *)
(* closed, no two clients use the same port.                               *)
(***************************************************************************)
EXTENDS PlayerManager, FiniteSetTheorems, TLAPS

\* The types the argument needs; players are any natural numbers.
Typed ==
    /\ managers \in Nat /\ allocated \in Nat
    /\ playerMap \in [Managers -> [Ports -> Nat \cup {None}]]
    /\ held \in [Clients -> Ports \cup {None}] /\ kept \in BOOLEAN
    /\ DOMAIN pc = Clients /\ DOMAIN mgr = Clients

Inv ==
    /\ Typed
    /\ OneManager => FirstManagerReached
    /\ OneManager /\ ~kept => OwnedPorts

\* Manager 1 is a manager, and None is neither a port nor a player.
LEMMA Basics ==
    /\ 1 \in Managers
    /\ Ports \subseteq Nat /\ None \notin Ports /\ None \notin Nat
    /\ \A S : S \subseteq Ports => IsFiniteSet(S) /\ Cardinality(S) \in Nat
  <1>1. Cardinality(Clients) \in Nat
    BY ManagerAssumption, FS_CardinalityType DEF ManagerAssumption
  <1>2. IsFiniteSet(Ports)
    BY ManagerAssumption, FS_Interval DEF ManagerAssumption, Ports
  <1>3. \A S : S \subseteq Ports => IsFiniteSet(S) /\ Cardinality(S) \in Nat
    BY <1>2, FS_Subset, FS_CardinalityType
  <1> QED
    BY <1>1, <1>3, ManagerAssumption DEF ManagerAssumption, Managers, Ports

\* Every free port gets a player, so afterwards every port has one.
LEMMA FillMapsAll ==
    ASSUME Typed, NEW m \in Managers, FillFreePorts(m)
    PROVE  /\ playerMap' \in [Managers -> [Ports -> Nat \cup {None}]]
           /\ allocated' \in Nat
           /\ \A p \in Ports : playerMap'[m][p] # None
  <1>1. \A p \in FreePorts(m) : NewPlayer(m, p) \in Nat
    <2> SUFFICES ASSUME NEW p \in FreePorts(m)
                 PROVE  NewPlayer(m, p) \in Nat
      OBVIOUS
    <2>1. {q \in FreePorts(m) : q <= p} \subseteq Ports
      BY DEF FreePorts
    <2> QED
      BY <2>1, Basics DEF NewPlayer, Typed
  <1>2. Cardinality(FreePorts(m)) \in Nat
    BY Basics DEF FreePorts
  <1>3. playerMap' = [playerMap EXCEPT ![m] =
            [p \in Ports |-> IF p \in FreePorts(m) THEN NewPlayer(m, p) ELSE playerMap[m][p]]]
    BY DEF FillFreePorts, Typed
  <1>4. \A p \in Ports : p \notin FreePorts(m) => playerMap[m][p] \in Nat
    BY DEF FreePorts, Mapped, Typed
  <1> QED
    BY <1>1, <1>2, <1>3, <1>4, Basics DEF FillFreePorts, Typed

-----------------------------------------------------------------------------
(* Inv is inductive. *)

LEMMA InitInv == Init => Inv
  <1> SUFFICES ASSUME Init
               PROVE  Inv
    OBVIOUS
  <1>1. Typed
    BY Basics DEF Init, Typed
  <1>2. FirstManagerReached
    BY Basics DEF Init, FirstManagerReached
  <1>3. OwnedPorts
    BY DEF Init, OwnedPorts, NoPortShared
  <1> QED
    BY <1>1, <1>2, <1>3 DEF Inv

\* instance() returns the one manager, or constructs the first or a second.
LEMMA InstanceInv ==
    ASSUME Inv, NEW c \in Clients, TestInstance(c) \/ CreateInstance(c) \/ ReturnInstance(c)
    PROVE  Inv'
  <1>1. /\ UNCHANGED <<playerMap, allocated, held, kept>>
        /\ DOMAIN pc' = Clients /\ DOMAIN mgr' = Clients
        /\ \/ managers' = managers /\ pInstance' = pInstance
           \/ managers' = managers + 1 /\ pInstance' = managers + 1
    BY DEF Inv, Typed, TestInstance, CreateInstance, ReturnInstance, players, singleton
  <1>2. Typed'
    BY <1>1 DEF Inv, Typed
  <1>3. OneManager' => OneManager
    BY <1>1 DEF Inv, Typed, OneManager
  <1>4. ASSUME OneManager'
        PROVE  FirstManagerReached'
    <2>1. FirstManagerReached
      BY <1>3, <1>4 DEF Inv
    <2>2. CASE TestInstance(c)
      BY <1>1, <2>1, <2>2 DEF TestInstance, singleton, FirstManagerReached, Inv, Typed
    <2>3. CASE CreateInstance(c)
      <3>1. managers' = 1 /\ pInstance' = 1 /\ mgr' = mgr
            /\ pc' = [pc EXCEPT ![c] = "returning"]
        BY <1>4, <2>3 DEF CreateInstance, OneManager, Inv, Typed
      <3> QED
        BY <2>1, <3>1 DEF FirstManagerReached, Inv, Typed
    <2>4. CASE ReturnInstance(c)
      BY <1>1, <2>1, <2>4 DEF ReturnInstance, singleton, FirstManagerReached, Inv, Typed
    <2> QED
      BY <2>2, <2>3, <2>4
  <1>5. OneManager' /\ ~kept' => OwnedPorts'
    BY <1>1, <1>3 DEF Inv, OwnedPorts, NoPortShared
  <1> QED
    BY <1>2, <1>4, <1>5 DEF Inv

\* A method gives its caller back and leaves the singleton alone.
LEMMA ReturnKeepsManager ==
    ASSUME Inv, NEW c \in Clients, Returns(c), held'[c] # None /\ OneManager => pInstance = 1,
           \A d \in Clients \ {c} : held'[d] = held[d]
    PROVE  /\ OneManager' = OneManager
           /\ OneManager => mgr[c] = 1
           /\ DOMAIN pc' = Clients /\ DOMAIN mgr' = Clients /\ managers' \in Nat
           /\ OneManager' => FirstManagerReached'
  <1>1. /\ pc[c] = "call" /\ pc' = [pc EXCEPT ![c] = "idle"]
        /\ managers' = managers /\ pInstance' = pInstance /\ mgr' = mgr
    BY DEF Returns, singleton
  <1>2. OneManager => mgr[c] = 1 /\ pInstance = 1
    BY <1>1 DEF Inv, FirstManagerReached
  <1>3. OneManager => FirstManagerReached'
    BY <1>1, <1>2 DEF Inv, Typed, FirstManagerReached
  <1> QED
    BY <1>1, <1>2, <1>3 DEF OneManager, Inv, Typed

\* The port getFreePort hands out was free, so nobody used it.
LEMMA GetFreePortInv ==
    ASSUME Inv, NEW c \in Clients, getFreePort(c), mgr[c] \in Managers
    PROVE  Inv'
  <1>1. OneManager => pInstance = 1
    BY DEF getFreePort, Returns, Inv, FirstManagerReached
  <1>2. /\ held' \in [Clients -> Ports \cup {None}]
        /\ \A d \in Clients \ {c} : held'[d] = held[d]
    BY Basics DEF getFreePort, Inv, Typed
  <1>3. /\ OneManager' = OneManager
        /\ OneManager => mgr[c] = 1
        /\ DOMAIN pc' = Clients /\ DOMAIN mgr' = Clients /\ managers' \in Nat
        /\ OneManager' => FirstManagerReached'
    BY <1>1, <1>2, ReturnKeepsManager DEF getFreePort
  <1>4. kept' = kept
    BY DEF getFreePort
  <1>5. CASE UNCHANGED <<players, held>>
    BY <1>3, <1>4, <1>5 DEF Inv, Typed, OwnedPorts, NoPortShared, players
  <1>6. ASSUME NEW p \in Ports, IsLastFree(mgr[c], p), FillFreePorts(mgr[c]),
               held' = [held EXCEPT ![c] = p]
        PROVE  Inv'
    <2>1. /\ playerMap' \in [Managers -> [Ports -> Nat \cup {None}]]
          /\ allocated' \in Nat
          /\ \A q \in Ports : playerMap'[mgr[c]][q] # None
      BY <1>6, FillMapsAll DEF Inv
    <2>2. Typed'
      BY <1>2, <1>3, <1>4, <2>1 DEF Inv, Typed
    <2>3. ASSUME OneManager', ~kept'
          PROVE  OwnedPorts'
      <3>1. mgr[c] = 1 /\ OwnedPorts
        BY <1>3, <1>4, <2>3 DEF Inv
      <3>2. playerMap[1][p] = None
        BY <1>6, <3>1 DEF IsLastFree, FreePorts, Mapped
      <3>3. \A d \in Clients : held[d] # p
        BY <3>1, <3>2, Basics DEF OwnedPorts
      <3>4. NoPortShared'
        BY <1>6, <3>1, <3>3 DEF Inv, Typed, OwnedPorts, NoPortShared
      <3>5. \A d \in Clients : held'[d] # None => playerMap'[1][held'[d]] # None
        BY <2>1, <2>2, <3>1 DEF Typed
      <3> QED
        BY <3>4, <3>5 DEF OwnedPorts
    <2> QED
      BY <1>3, <2>2, <2>3 DEF Inv
  <1> QED
    BY <1>5, <1>6 DEF getFreePort

\* releasePort and closeFile unmap a port that only its client used, and that it
\* uses no more, unless a port was kept.
LEMMA GiveBackInv ==
    ASSUME Inv, NEW c \in Clients, releasePort(c) \/ closeFile(c), mgr[c] \in Managers
    PROVE  Inv'
  <1>1. /\ held[c] # None /\ held[c] \in Ports
        /\ \/ held' = [held EXCEPT ![c] = None] /\ kept' = kept
           \/ held' = held /\ kept' = TRUE
        /\ playerMap' = [playerMap EXCEPT ![mgr[c]][held[c]] = None]
        /\ allocated' = allocated /\ Returns(c)
    BY DEF Inv, Typed, releasePort, closeFile
  <1>2. /\ held'[c] # None /\ OneManager => pInstance = 1
        /\ \A d \in Clients \ {c} : held'[d] = held[d]
    BY <1>1 DEF Inv, Typed, Returns, FirstManagerReached
  <1>3. /\ OneManager' = OneManager
        /\ OneManager => mgr[c] = 1
        /\ DOMAIN pc' = Clients /\ DOMAIN mgr' = Clients /\ managers' \in Nat
        /\ OneManager' => FirstManagerReached'
    BY <1>1, <1>2, ReturnKeepsManager
  <1>4. Typed'
    BY <1>1, <1>3, Basics DEF Inv, Typed
  <1>5. ASSUME OneManager', ~kept'
        PROVE  OwnedPorts'
    <2>1. /\ mgr[c] = 1 /\ OwnedPorts /\ held' = [held EXCEPT ![c] = None]
          /\ playerMap' = [playerMap EXCEPT ![1][held[c]] = None]
      <3>1. OneManager /\ mgr[c] = 1
        BY <1>3, <1>5
      <3>2. kept' = kept /\ held' = [held EXCEPT ![c] = None]
        BY <1>1, <1>5
      <3>3. ~kept
        BY <1>5, <3>2
      <3>4. OwnedPorts
        BY <3>1, <3>3 DEF Inv
      <3> QED
        BY <1>1, <3>1, <3>2, <3>4
    <2>2. NoPortShared'
      BY <2>1 DEF Inv, Typed, OwnedPorts, NoPortShared
    <2>3. ASSUME NEW d \in Clients, held'[d] # None
          PROVE  playerMap'[1][held'[d]] # None
      <3>1. d # c /\ held'[d] = held[d] /\ held[d] # held[c] /\ held[d] \in Ports
        BY <1>1, <2>1, <2>3 DEF Inv, Typed, OwnedPorts, NoPortShared
      <3>2. playerMap'[1][held[d]] = playerMap[1][held[d]]
        <4>1. playerMap \in [Managers -> [Ports -> Nat \cup {None}]] /\ 1 \in Managers
          BY Basics DEF Inv, Typed
        <4>2. playerMap'[1] = [playerMap[1] EXCEPT ![held[c]] = None]
          BY <2>1, <4>1
        <4> QED
          BY <3>1, <4>1, <4>2
      <3> QED
        BY <2>1, <2>3, <3>1, <3>2 DEF OwnedPorts
    <2> QED
      BY <2>2, <2>3 DEF OwnedPorts
  <1> QED
    BY <1>3, <1>4, <1>5 DEF Inv

LEMMA OtherInv ==
    ASSUME Inv, NEW c \in Clients,
           (\E valid \in BOOLEAN : openFile(c, valid)) \/ play(c) \/ Inert(c)
    PROVE  Inv'
  <1>1. UNCHANGED <<players, held, kept>> /\ Returns(c)
    BY DEF openFile, play, Inert
  <1>2. /\ OneManager' = OneManager
        /\ DOMAIN pc' = Clients /\ DOMAIN mgr' = Clients /\ managers' \in Nat
        /\ OneManager' => FirstManagerReached'
    <2>1. held'[c] # None /\ OneManager => pInstance = 1
      BY <1>1 DEF Inv, FirstManagerReached
    <2> QED
      BY <1>1, <2>1, ReturnKeepsManager
  <1> QED
    BY <1>1, <1>2 DEF Inv, Typed, OwnedPorts, NoPortShared, players

-----------------------------------------------------------------------------
(* Types and maps. *)

Creating == {c \in Clients : pc[c] = "creating"}

\* Each manager was or is going to be constructed by a client of its own, which
\* found none; later calls reach one that exists.
ManagersCounted ==
    /\ managers + Cardinality(Creating) <= Cardinality(Clients) + 1
    /\ pInstance = None => managers = 0
    /\ \A c \in Clients :
          /\ pc[c] = "returning" => pInstance # None
          /\ pc[c] = "call" => mgr[c] \in Managers

LiveAllocated == \A x \in live : x <= allocated

MapInv == TypeOK /\ ManagersCounted /\ LiveAllocated /\ MapsSound

LEMMA ClientsFinite ==
    /\ Cardinality(Clients) \in Nat /\ MaxPlayers \in Nat
    /\ \A S : S \subseteq Clients => /\ IsFiniteSet(S) /\ Cardinality(S) \in Nat
                                     /\ Cardinality(S) <= Cardinality(Clients)
  BY ManagerAssumption, FS_CardinalityType, FS_Subset DEF ManagerAssumption

\* New players have numbers of their own, greater than all before.
LEMMA NewPlayers ==
    ASSUME allocated \in Nat, NEW m \in Managers
    PROVE  /\ Cardinality(FreePorts(m)) \in Nat
           /\ \A p \in FreePorts(m) :
                 /\ NewPlayer(m, p) \in Nat
                 /\ NewPlayer(m, p) > allocated
                 /\ NewPlayer(m, p) <= allocated + Cardinality(FreePorts(m))
           /\ \A p, q \in FreePorts(m) : NewPlayer(m, p) = NewPlayer(m, q) => p = q
  <1> DEFINE F == FreePorts(m)
             upTo(p) == {q \in F : q <= p}
  <1>1. F \subseteq Ports /\ F \subseteq Nat
    BY Basics DEF FreePorts
  <1>2. \A S : S \subseteq F => IsFiniteSet(S) /\ Cardinality(S) \in Nat
    BY <1>1, Basics
  <1> HIDE DEF F
  <1>3. ASSUME NEW p \in F
        PROVE  Cardinality(upTo(p)) > 0 /\ Cardinality(upTo(p)) <= Cardinality(F)
    <2>1. upTo(p) \subseteq F /\ p \in upTo(p)
      BY <1>1
    <2>2. Cardinality(upTo(p)) <= Cardinality(F)
      BY <1>2, <2>1, FS_Subset
    <2>3. Cardinality(upTo(p)) # 0
      BY <1>2, <2>1, FS_EmptySet
    <2> QED
      BY <1>2, <2>1, <2>2, <2>3
  <1>4. ASSUME NEW p \in F, NEW q \in F, p < q
        PROVE  Cardinality(upTo(p)) < Cardinality(upTo(q))
    <2>1. upTo(p) \subseteq F /\ upTo(q) \subseteq F /\ q \notin upTo(p) /\ q \in upTo(q)
          /\ upTo(p) \subseteq upTo(q)
      <3>1. p \in Nat /\ q \in Nat /\ ~(q <= p) /\ q <= q
        BY <1>1, <1>4
      <3>2. \A r \in F : r <= p => r <= q
        BY <1>1, <1>4, <3>1
      <3> QED
        BY <3>1, <3>2
    <2>2. Cardinality(upTo(p)) <= Cardinality(upTo(q))
      BY <1>2, <2>1, FS_Subset
    <2>3. Cardinality(upTo(p)) # Cardinality(upTo(q))
      BY <1>2, <2>1, FS_Subset
    <2> QED
      BY <1>2, <2>1, <2>2, <2>3
  <1>5. ASSUME NEW p \in F, NEW q \in F, NewPlayer(m, p) = NewPlayer(m, q)
        PROVE  p = q
    <2>1. Cardinality(upTo(p)) \in Nat /\ Cardinality(upTo(q)) \in Nat
      BY <1>2
    <2>2. Cardinality(upTo(p)) = Cardinality(upTo(q))
      BY <1>5, <2>1 DEF NewPlayer, F
    <2> QED
      BY <1>1, <1>4, <2>1, <2>2
  <1>6. ASSUME NEW p \in F
        PROVE  /\ NewPlayer(m, p) \in Nat /\ NewPlayer(m, p) > allocated
               /\ NewPlayer(m, p) <= allocated + Cardinality(F)
    <2>1. NewPlayer(m, p) = allocated + Cardinality(upTo(p)) /\ Cardinality(upTo(p)) \in Nat
      BY <1>2 DEF NewPlayer, F
    <2> QED
      BY <1>2, <1>3, <2>1
  <1> QED
    BY <1>2, <1>5, <1>6 DEF F

LEMMA MapInit == Init => MapInv
  <1> SUFFICES ASSUME Init
               PROVE  MapInv
    OBVIOUS
  <1>1. Creating = {}
    BY DEF Init, Creating
  <1>2. Cardinality(Creating) = 0 /\ Cardinality(Clients) \in Nat
    BY <1>1, FS_EmptySet, ClientsFinite
  <1>3. TypeOK
    <2>1. /\ pInstance = None /\ managers \in 0 .. Cardinality(Clients) + 1
          /\ allocated \in 0 .. MaxPlayers /\ live = {} /\ crashed = "no"
      BY <1>2, ManagerAssumption DEF Init, ManagerAssumption
    <2>2. /\ playerMap \in [Managers -> [Ports -> Players \cup {None}]]
          /\ portOf \in [Players -> Ports \cup {None}]
          /\ pc \in [Clients -> {"idle", "creating", "returning", "call"}]
          /\ mgr \in [Clients -> Managers \cup {None}]
          /\ held \in [Clients -> Ports \cup {None}] /\ kept \in BOOLEAN
      BY DEF Init
    <2> QED
      BY <2>1, <2>2 DEF TypeOK
  <1>4. ManagersCounted
    BY <1>2, ManagerAssumption DEF Init, ManagersCounted, ManagerAssumption
  <1> QED
    BY <1>3, <1>4 DEF Init, MapInv, LiveAllocated, MapsSound

LEMMA MapInstance ==
    ASSUME MapInv, NEW c \in Clients, TestInstance(c) \/ CreateInstance(c) \/ ReturnInstance(c)
    PROVE  MapInv'
  <1>1. UNCHANGED players /\ UNCHANGED <<held, kept, crashed>>
    BY DEF TestInstance, CreateInstance, ReturnInstance
  <1>2. LiveAllocated' /\ MapsSound'
    BY <1>1 DEF players, MapInv, LiveAllocated, MapsSound
  <1>3. /\ Cardinality(Clients) \in Nat /\ managers \in Nat
        /\ Creating \subseteq Clients /\ Creating' \subseteq Clients
        /\ IsFiniteSet(Creating) /\ Cardinality(Creating) \in Nat
        /\ Cardinality(Creating') \in Nat /\ Cardinality(Creating') <= Cardinality(Clients)
    BY ClientsFinite DEF Creating, MapInv, TypeOK
  <1>4. CASE TestInstance(c)
    <2>1. managers' = managers /\ pInstance' = pInstance /\ mgr' = mgr
      BY <1>4 DEF TestInstance, singleton
    <2>2. managers' + Cardinality(Creating') <= Cardinality(Clients) + 1
      <3>1. CASE pInstance = None
        BY <1>3, <2>1, <3>1 DEF MapInv, ManagersCounted
      <3>2. CASE pInstance # None
        <4>1. Creating' = Creating
          BY <1>4, <3>2 DEF TestInstance, Creating, MapInv, TypeOK
        <4> QED
          BY <2>1, <4>1 DEF MapInv, ManagersCounted
      <3> QED
        BY <3>1, <3>2
    <2>3. ManagersCounted'
      BY <1>4, <2>1, <2>2 DEF TestInstance, MapInv, ManagersCounted, TypeOK
    <2>4. TypeOK'
      BY <1>1, <1>4, <2>1 DEF TestInstance, MapInv, TypeOK, players
    <2> QED
      BY <1>2, <2>3, <2>4 DEF MapInv
  <1>5. CASE CreateInstance(c)
    <2>1. managers' = managers + 1 /\ pInstance' = managers + 1 /\ mgr' = mgr
      BY <1>5 DEF CreateInstance
    <2>2. Creating' = Creating \ {c} /\ c \in Creating
      BY <1>5 DEF CreateInstance, Creating, MapInv, TypeOK
    <2>3. Cardinality(Creating') = Cardinality(Creating) - 1
      BY <1>3, <2>2, FS_RemoveElement
    <2>4. managers' + Cardinality(Creating') <= Cardinality(Clients) + 1
      BY <1>3, <2>1, <2>3 DEF MapInv, ManagersCounted
    <2>5. managers' \in 0 .. Cardinality(Clients) + 1 /\ pInstance' \in Managers
          /\ pInstance' # None
      BY <1>3, <2>1, <2>4, Basics DEF Managers
    <2>6. ManagersCounted'
      BY <1>5, <2>1, <2>4, <2>5 DEF CreateInstance, MapInv, ManagersCounted, TypeOK
    <2>7. TypeOK'
      BY <1>1, <1>5, <2>1, <2>5 DEF CreateInstance, MapInv, TypeOK, players
    <2> QED
      BY <1>2, <2>6, <2>7 DEF MapInv
  <1>6. CASE ReturnInstance(c)
    <2>1. managers' = managers /\ pInstance' = pInstance /\ pInstance # None
      BY <1>6 DEF ReturnInstance, singleton, MapInv, ManagersCounted
    <2>2. Creating' = Creating
      BY <1>6 DEF ReturnInstance, Creating, MapInv, TypeOK
    <2>3. ManagersCounted'
      BY <1>6, <2>1, <2>2 DEF ReturnInstance, MapInv, ManagersCounted, TypeOK
    <2>4. TypeOK'
      BY <1>1, <1>6, <2>1 DEF ReturnInstance, MapInv, TypeOK, players
    <2> QED
      BY <1>2, <2>3, <2>4 DEF MapInv
  <1> QED
    BY <1>4, <1>5, <1>6

\* What every method does to the caller's place.
LEMMA CallReturns ==
    ASSUME MapInv, NEW c \in Clients, Returns(c)
    PROVE  /\ mgr[c] \in Managers
           /\ ManagersCounted'
           /\ pInstance' = pInstance /\ managers' = managers /\ mgr' = mgr
           /\ pc' \in [Clients -> {"idle", "creating", "returning", "call"}]
  <1>1. /\ mgr[c] \in Managers /\ UNCHANGED <<pInstance, managers, mgr>>
        /\ pc' = [pc EXCEPT ![c] = "idle"] /\ pc[c] = "call"
        /\ pc \in [Clients -> {"idle", "creating", "returning", "call"}]
    BY DEF Returns, singleton, MapInv, ManagersCounted, TypeOK
  <1>2. Creating' = Creating
    BY <1>1 DEF Creating
  <1>3. ManagersCounted'
    BY <1>1, <1>2 DEF MapInv, ManagersCounted
  <1> QED
    BY <1>1, <1>3

\* The players that getFreePort creates are in their own entries only.
LEMMA MapFill ==
    ASSUME MapInv, NEW m \in Managers, FillFreePorts(m),
           allocated + Cardinality(FreePorts(m)) <= MaxPlayers
    PROVE  /\ playerMap' \in [Managers -> [Ports -> Players \cup {None}]]
           /\ allocated' \in 0 .. MaxPlayers /\ live' \subseteq Players
           /\ portOf' \in [Players -> Ports \cup {None}]
           /\ LiveAllocated' /\ MapsSound'
  <1> DEFINE F == FreePorts(m)
             N(p) == NewPlayer(m, p)
             new == {N(p) : p \in F}
  <1>1. /\ allocated \in Nat /\ MaxPlayers \in Nat /\ live \subseteq Players /\ Players \subseteq Nat
        /\ playerMap \in [Managers -> [Ports -> Players \cup {None}]]
        /\ portOf \in [Players -> Ports \cup {None}]
        /\ None \notin Nat /\ F \subseteq Ports
    BY Basics, ClientsFinite DEF MapInv, TypeOK, Players, FreePorts
  <1>2. /\ Cardinality(F) \in Nat
        /\ \A p \in F : N(p) \in Nat /\ N(p) > allocated /\ N(p) <= allocated + Cardinality(F)
        /\ \A p, q \in F : N(p) = N(q) => p = q
    BY <1>1, NewPlayers
  <1>3. \A p \in F : N(p) \in Players
    <2> SUFFICES ASSUME NEW p \in F
                 PROVE  N(p) \in Players
      OBVIOUS
    <2>1. N(p) \in Nat /\ N(p) > allocated /\ N(p) <= allocated + Cardinality(F)
      BY <1>2
    <2> QED
      BY <1>1, <1>2, <2>1 DEF Players
  <1>4. /\ playerMap' = [playerMap EXCEPT ![m] =
                            [p \in Ports |-> IF p \in F THEN N(p) ELSE playerMap[m][p]]]
        /\ allocated' = allocated + Cardinality(F)
        /\ live' = live \cup new
        /\ portOf' = [x \in Players |->
                        IF x \in new THEN CHOOSE p \in F : x = N(p) ELSE portOf[x]]
    BY DEF FillFreePorts
  <1>5. \A n \in Managers, p \in Ports :
            playerMap'[n][p] = IF n = m /\ p \in F THEN N(p) ELSE playerMap[n][p]
    BY <1>1, <1>4
  <1>6. \A p \in F : playerMap[m][p] = None
    BY DEF FreePorts, Mapped
  <1>7. playerMap' \in [Managers -> [Ports -> Players \cup {None}]]
    BY <1>1, <1>3, <1>4
  <1>8. /\ allocated' \in 0 .. MaxPlayers
        /\ live' \subseteq Players
    <2>1. allocated + Cardinality(F) \in 0 .. MaxPlayers
      BY <1>1, <1>2
    <2>2. live \cup new \subseteq Players
      BY <1>1, <1>3
    <2> QED
      BY <1>4, <2>1, <2>2
  <1> HIDE DEF F, N
  <1>9. \A p \in F : N(p) \in new /\ portOf'[N(p)] = p
    BY <1>2, <1>3, <1>4
  <1>10. portOf' \in [Players -> Ports \cup {None}]
    <2>1. \A x \in new : (CHOOSE p \in F : x = N(p)) \in Ports
      BY <1>1
    <2> QED
      BY <1>1, <1>4, <2>1
  <1>11. \A n \in Managers, p \in Ports : playerMap[n][p] # None =>
            /\ playerMap[n][p] \in live /\ playerMap[n][p] \in Players
            /\ playerMap[n][p] \notin new
            /\ portOf[playerMap[n][p]] = p
    <2> SUFFICES ASSUME NEW n \in Managers, NEW p \in Ports, playerMap[n][p] # None
                 PROVE  /\ playerMap[n][p] \in live /\ playerMap[n][p] \in Players
                        /\ playerMap[n][p] \notin new
                        /\ portOf[playerMap[n][p]] = p
      OBVIOUS
    <2>1. playerMap[n][p] \in live /\ portOf[playerMap[n][p]] = p
      BY DEF MapInv, MapsSound
    <2>2. playerMap[n][p] <= allocated /\ playerMap[n][p] \in Nat /\ playerMap[n][p] \in Players
      BY <1>1, <2>1 DEF MapInv, LiveAllocated
    <2>3. \A q \in F : N(q) # playerMap[n][p]
      BY <1>1, <1>2, <2>2
    <2> QED
      BY <2>1, <2>2, <2>3
  <1>12. LiveAllocated'
    <2>1. \A x \in live : x \in Nat /\ x <= allocated
      BY <1>1 DEF MapInv, LiveAllocated
    <2>2. \A x \in live : x <= allocated + Cardinality(F)
      BY <1>1, <1>2, <2>1
    <2> QED
      BY <1>2, <1>4, <2>2 DEF LiveAllocated
  <1>13. MapsSound'
    <2> SUFFICES ASSUME NEW n \in Managers, NEW p \in Ports, playerMap'[n][p] # None
                 PROVE  /\ playerMap'[n][p] \in live'
                        /\ portOf'[playerMap'[n][p]] = p
                        /\ \A k \in Managers \ {n} : playerMap'[k][p] # playerMap'[n][p]
      BY DEF MapsSound
    <2>1. CASE n = m /\ p \in F
      <3>1. playerMap'[n][p] = N(p) /\ N(p) \in new /\ portOf'[N(p)] = p /\ N(p) \in Nat
        BY <1>2, <1>5, <1>9, <2>1
      <3>2. \A k \in Managers \ {n} : playerMap'[k][p] = playerMap[k][p]
        BY <1>5, <2>1
      <3>3. \A k \in Managers \ {n} : playerMap[k][p] # N(p)
        BY <1>1, <1>11, <3>1
      <3> QED
        BY <1>4, <3>1, <3>2, <3>3
    <2>2. CASE ~(n = m /\ p \in F)
      <3>1. playerMap'[n][p] = playerMap[n][p] /\ playerMap[n][p] # None
        BY <1>5, <2>2
      <3>2. /\ playerMap[n][p] \in live /\ playerMap[n][p] \in Players
            /\ playerMap[n][p] \notin new /\ portOf[playerMap[n][p]] = p
        BY <1>11, <3>1
      <3>3. portOf'[playerMap[n][p]] = p
        BY <1>4, <3>2
      <3>4. ASSUME NEW k \in Managers \ {n}
            PROVE  playerMap'[k][p] # playerMap[n][p]
        <4>1. CASE k = m /\ p \in F
          BY <1>5, <1>9, <3>2, <4>1
        <4>2. CASE ~(k = m /\ p \in F)
          BY <1>5, <3>1, <4>2 DEF MapInv, MapsSound
        <4> QED
          BY <4>1, <4>2
      <3> QED
        BY <1>4, <3>1, <3>2, <3>3, <3>4
    <2> QED
      BY <2>1, <2>2
  <1> QED
    BY <1>7, <1>8, <1>10, <1>12, <1>13

LEMMA MapGetFreePort ==
    ASSUME MapInv, NEW c \in Clients, getFreePort(c)
    PROVE  MapInv'
  <1>1. /\ mgr[c] \in Managers /\ ManagersCounted'
        /\ pInstance' = pInstance /\ managers' = managers /\ mgr' = mgr
        /\ pc' \in [Clients -> {"idle", "creating", "returning", "call"}]
    BY CallReturns DEF getFreePort
  <1>2. CASE UNCHANGED <<players, held, kept>>
    <2>1. TypeOK'
      BY <1>1, <1>2 DEF MapInv, TypeOK, players, getFreePort
    <2> QED
      BY <1>1, <1>2, <2>1 DEF MapInv, LiveAllocated, MapsSound, players
  <1>3. ASSUME NEW p \in Ports, FillFreePorts(mgr[c]), held' = [held EXCEPT ![c] = p]
        PROVE  MapInv'
    <2>1. /\ playerMap' \in [Managers -> [Ports -> Players \cup {None}]]
          /\ allocated' \in 0 .. MaxPlayers /\ live' \subseteq Players
          /\ portOf' \in [Players -> Ports \cup {None}]
          /\ LiveAllocated' /\ MapsSound'
      BY <1>1, <1>3, MapFill DEF getFreePort
    <2>2. TypeOK'
      BY <1>1, <1>3, <2>1 DEF MapInv, TypeOK, getFreePort
    <2> QED
      BY <1>1, <2>1, <2>2 DEF MapInv
  <1> QED
    BY <1>2, <1>3 DEF getFreePort

\* An entry is erased, and its player, if it is deleted, is in no other.
LEMMA MapGiveBack ==
    ASSUME MapInv, NEW c \in Clients, releasePort(c) \/ closeFile(c)
    PROVE  MapInv'
  <1> DEFINE m == mgr[c]
             p == held[c]
  <1>1. /\ m \in Managers /\ ManagersCounted'
        /\ pInstance' = pInstance /\ managers' = managers /\ mgr' = mgr
        /\ pc' \in [Clients -> {"idle", "creating", "returning", "call"}]
    BY CallReturns DEF releasePort, closeFile
  <1>2. /\ p \in Ports /\ playerMap' = [playerMap EXCEPT ![m][p] = None]
        /\ live' = live \/ live' = live \ {playerMap[m][p]}
        /\ held' \in [Clients -> Ports \cup {None}] /\ kept' \in BOOLEAN
        /\ UNCHANGED <<allocated, portOf, crashed>>
    BY DEF releasePort, closeFile, MapInv, TypeOK
  <1>3. playerMap \in [Managers -> [Ports -> Players \cup {None}]]
    BY DEF MapInv, TypeOK
  <1>4. playerMap' \in [Managers -> [Ports -> Players \cup {None}]]
    BY <1>1, <1>2, <1>3
  <1>5. \A n \in Managers, q \in Ports :
            playerMap'[n][q] = IF n = m /\ q = p THEN None ELSE playerMap[n][q]
    BY <1>1, <1>2, <1>3
  <1>6. TypeOK'
    BY <1>1, <1>2, <1>4 DEF MapInv, TypeOK
  <1>7. LiveAllocated'
    BY <1>2 DEF MapInv, LiveAllocated
  <1>8. MapsSound'
    <2> SUFFICES ASSUME NEW n \in Managers, NEW q \in Ports, playerMap'[n][q] # None
                 PROVE  /\ playerMap'[n][q] \in live'
                        /\ portOf[playerMap'[n][q]] = q
                        /\ \A k \in Managers \ {n} : playerMap'[k][q] # playerMap'[n][q]
      BY <1>2 DEF MapsSound
    <2>1. ~(n = m /\ q = p) /\ playerMap'[n][q] = playerMap[n][q] /\ playerMap[n][q] # None
      BY <1>5
    <2>2. /\ playerMap[n][q] \in live /\ portOf[playerMap[n][q]] = q
          /\ \A k \in Managers \ {n} : playerMap[k][q] # playerMap[n][q]
      BY <2>1 DEF MapInv, MapsSound
    <2>3. playerMap[n][q] # playerMap[m][p]
      <3>1. CASE playerMap[m][p] = None
        BY <2>1, <3>1
      <3>2. CASE playerMap[m][p] # None /\ q # p
        <4>1. portOf[playerMap[m][p]] = p
          BY <1>1, <1>2, <3>2 DEF MapInv, MapsSound
        <4> QED
          BY <2>2, <3>2, <4>1
      <3>3. CASE q = p
        BY <1>1, <2>1, <2>2, <3>3
      <3> QED
        BY <3>1, <3>2, <3>3
    <2>4. \A k \in Managers \ {n} : playerMap'[k][q] # playerMap[n][q]
      BY <1>5, <2>1, <2>2
    <2> QED
      BY <1>2, <2>1, <2>2, <2>3, <2>4
  <1> QED
    BY <1>1, <1>6, <1>7, <1>8 DEF MapInv

LEMMA MapOther ==
    ASSUME MapInv, NEW c \in Clients,
           (\E valid \in BOOLEAN : openFile(c, valid)) \/ play(c) \/ Inert(c)
    PROVE  MapInv'
  <1>1. Returns(c) /\ UNCHANGED <<players, held, kept>> /\ crashed' \in {"no", "openFile", "play"}
    BY DEF openFile, play, Inert, MapInv, TypeOK
  <1>2. /\ ManagersCounted' /\ pInstance' = pInstance /\ managers' = managers /\ mgr' = mgr
        /\ pc' \in [Clients -> {"idle", "creating", "returning", "call"}]
    BY <1>1, CallReturns
  <1>3. TypeOK'
    BY <1>1, <1>2 DEF MapInv, TypeOK, players
  <1> QED
    BY <1>1, <1>2, <1>3 DEF MapInv, LiveAllocated, MapsSound, players

LEMMA MapStep ==
    ASSUME MapInv, [Next]_vars
    PROVE  MapInv'
  <1>1. CASE UNCHANGED vars
    BY <1>1 DEF vars, MapInv, TypeOK, ManagersCounted, Creating, LiveAllocated, MapsSound
  <1>2. CASE Next
    BY <1>2, MapInstance, MapGetFreePort, MapGiveBack, MapOther DEF Next, ClientStep
  <1> QED
    BY <1>1, <1>2

LEMMA MapAlways == Spec => []MapInv
  <1>1. MapInv /\ [Next]_vars => MapInv'
    BY MapStep
  <1> QED
    BY <1>1, MapInit, PTL DEF Spec

\* The variables keep their types; above all, no more managers are constructed
\* than there are clients, and one before them.
THEOREM ManagerTypeCorrect == Spec => []TypeOK
  <1>1. MapInv => TypeOK
    BY DEF MapInv
  <1> QED
    BY <1>1, MapAlways, PTL

\* However the first calls race and in whatever order ports are closed and
\* released: every entry of a map is a live player, told this port, and in no
\* other map.
THEOREM MapsAlwaysSound == Spec => []MapsSound
  <1>1. MapInv => MapsSound
    BY DEF MapInv
  <1> QED
    BY <1>1, MapAlways, PTL

-----------------------------------------------------------------------------
(* Ports.  MapInv says which manager a call is made of, whoever made it. *)

LEMMA StepInv ==
    ASSUME Inv, MapInv, [Next]_vars
    PROVE  Inv'
  <1>1. CASE UNCHANGED vars
    BY <1>1 DEF vars, Inv, Typed, OneManager, FirstManagerReached, OwnedPorts, NoPortShared
  <1>2. CASE Next
    <2>1. PICK c \in Clients : ClientStep(c)
      BY <1>2 DEF Next
    <2>2. getFreePort(c) \/ releasePort(c) \/ closeFile(c) => mgr[c] \in Managers
      BY DEF getFreePort, releasePort, closeFile, Returns, MapInv, ManagersCounted
    <2> QED
      BY <2>1, <2>2, InstanceInv, GetFreePortInv, GiveBackInv, OtherInv DEF ClientStep
  <1> QED
    BY <1>1, <1>2

LEMMA InvAlways == Spec => []Inv
  <1>1. Inv /\ MapInv /\ [Next]_vars => Inv'
    BY StepInv
  <1> QED
    BY <1>1, InitInv, MapAlways, PTL DEF Spec

\* No two clients ever use the same port, unless two managers were constructed
\* or a client went on with a port after closing its file.
THEOREM PortsNeverShared == Spec => []PortExclusive
  <1>1. Inv => PortExclusive
    BY DEF Inv, OwnedPorts, PortExclusive
  <1> QED
    BY <1>1, InvAlways, PTL

\* With the same two exceptions, the port that a client uses has a live player
\* that was told this port, in the manager that the client's next call reaches.
THEOREM UsedPortsHavePlayers == Spec => []UsedPortHasPlayer
  <1>1. Inv /\ MapInv => UsedPortHasPlayer
    <2> SUFFICES ASSUME Inv, MapInv, OneManager, ~kept, NEW c \in Clients, held[c] # None
                 PROVE  /\ playerMap[pInstance][held[c]] \in live
                        /\ portOf[playerMap[pInstance][held[c]]] = held[c]
      BY DEF UsedPortHasPlayer
    <2>1. pInstance = 1 /\ held[c] \in Ports /\ playerMap[1][held[c]] # None
      BY DEF Inv, Typed, FirstManagerReached, OwnedPorts
    <2> QED
      BY <2>1, Basics DEF MapInv, MapsSound
  <1> QED
    BY <1>1, InvAlways, MapAlways, PTL
=============================================================================
