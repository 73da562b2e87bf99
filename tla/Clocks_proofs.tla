---------------------------- MODULE Clocks_proofs ----------------------------
(***************************************************************************)
(* The external clock is an ideal clock of media time, and a pause costs   *)
(* no pace, for all pts, delays, speeds and thresholds.                    *)
(***************************************************************************)
EXTENDS Clocks, TLAPS

Inv == TypeOK /\ ClocksInv

-----------------------------------------------------------------------------
(* Readings. *)

\* The term the code computes, for a clock that was set at u and one tick on.
LEMMA Distributes ==
    \A n, u, s \in Int : /\ (n + 1 - u) * (1 - s) = (n - u) * (1 - s) + (1 - s)
                         /\ (n - n) * (1 - s) = 0
                         /\ (n - u) * (1 - s) \in Int
  OBVIOUS

\* The same with the fields after the tick under names of their own.
LEMMA TickDistributes ==
    ASSUME NEW n \in Int, NEW u \in Int, NEW s \in Int, NEW n1, NEW u1, NEW s1,
           n1 = n + 1, u1 = u, s1 = s
    PROVE  /\ (n1 - u1) * (1 - s1) = (n - u) * (1 - s) + (1 - s)
           /\ (n - u) * (1 - s) \in Int
  <1>1. /\ (n + 1 - u) * (1 - s) = (n - u) * (1 - s) + (1 - s)
        /\ (n - u) * (1 - s) \in Int
    BY Distributes
  <1>2. (n1 - u1) * (1 - s1) = (n + 1 - u) * (1 - s)
    OBVIOUS
  <1> QED
    BY <1>1, <1>2

LEMMA SpeedsInt == \A s \in Speeds \cup {1} : s \in Int
  <1>1. Speeds \subseteq Nat
    BY ClocksAssumption DEF ClocksAssumption
  <1> QED
    BY <1>1

LEMMA ReadingTyped ==
    ASSUME TypeOK, NEW c \in ClockTypes
    PROVE  runningTime(c) \in Int /\ getClock(c) \in Int
  <1>1. /\ now \in Int /\ lastUpdated[c] \in Int /\ speed[c] \in Int
        /\ ptsDrift[c] \in Int /\ pts[c] \in Int
    <2>1. now \in Int
      BY ClocksAssumption DEF ClocksAssumption, TypeOK
    <2>2. speed[c] \in Speeds \cup {1}
      BY DEF TypeOK
    <2>3. speed[c] \in Int
      BY <2>2, SpeedsInt
    <2>4. lastUpdated[c] \in 0 .. now /\ ptsDrift[c] \in Int /\ pts[c] \in Int
      BY DEF TypeOK
    <2> QED
      BY <2>1, <2>3, <2>4
  <1>2. (now - lastUpdated[c]) * (1 - speed[c]) \in Int
    BY <1>1, Distributes
  <1> QED
    BY <1>1, <1>2 DEF runningTime, getClock

\* A set clock shows what it was set to.
LEMMA SetReads ==
    ASSUME TypeOK, NEW c \in ClockTypes, NEW v, setClocks(v), now' = now,
           c \in DOMAIN v, v[c] \in Int, speed'[c] \in Int
    PROVE  getClock(c)' = v[c]
  <1>1. /\ pts'[c] = v[c] /\ lastUpdated'[c] = now /\ ptsDrift'[c] = v[c] - now
    BY DEF setClocks
  <1>2. (now - now) * (1 - speed'[c]) = 0 /\ now \in Int
    BY Distributes, ClocksAssumption DEF ClocksAssumption, TypeOK
  <1>3. runningTime(c)' = v[c]
    BY <1>1, <1>2 DEF runningTime
  <1> QED
    BY <1>1, <1>3 DEF getClock

-----------------------------------------------------------------------------
(* Inv is inductive. *)

LEMMA InitInv == Init => Inv
  <1> SUFFICES ASSUME Init
               PROVE  Inv
    OBVIOUS
  <1>1. StartTime \in Nat /\ 0 \in 0 .. StartTime /\ frameTimer \in Int
    BY ClocksAssumption DEF ClocksAssumption, Init
  <1>2. TypeOK
    <2>1. now \in 0 .. MaxTime \cup {StartTime} /\ 0 \in 0 .. now
      BY <1>1 DEF Init
    <2>2. /\ pts \in [ClockTypes -> Int] /\ ptsDrift \in [ClockTypes -> Int]
          /\ lastUpdated \in [ClockTypes -> 0 .. now]
      BY <2>1 DEF Init
    <2>3. /\ speed \in [ClockTypes -> Speeds \cup {1}]
          /\ clockPaused \in [ClockTypes -> BOOLEAN]
      BY DEF Init
    <2> QED
      BY <1>1, <2>1, <2>2, <2>3 DEF Init, TypeOK
  <1>3. ClocksInv
    <2>1. timed = FALSE
      BY DEF Init
    <2>2. ASSUME NEW c \in ClockTypes
          PROVE  ptsDrift[c] = pts[c] - lastUpdated[c] /\ (clockPaused[c] => paused)
      <3>1. ptsDrift[c] = 0 /\ pts[c] = 0 /\ lastUpdated[c] = 0
        BY DEF Init
      <3>2. clockPaused[c] = FALSE
        BY DEF Init
      <3>3. 0 = 0 - 0
        OBVIOUS
      <3> QED
        BY <3>1, <3>2, <3>3, Zenon
    <2> QED
      BY <2>1, <2>2 DEF ClocksInv, SetWithFrame, ClocksSound
  <1> QED
    BY <1>2, <1>3 DEF Inv

\* Setting clocks to numbers keeps their fields consistent.
LEMMA SetTyped ==
    ASSUME TypeOK, \A c \in ClockTypes : ptsDrift[c] = pts[c] - lastUpdated[c],
           NEW v, setClocks(v), \A c \in DOMAIN v : v[c] \in Int
    PROVE  /\ pts' \in [ClockTypes -> Int] /\ ptsDrift' \in [ClockTypes -> Int]
           /\ lastUpdated' \in [ClockTypes -> 0 .. now]
           /\ \A c \in ClockTypes : ptsDrift'[c] = pts'[c] - lastUpdated'[c]
           /\ \A c \in ClockTypes : lastUpdated'[c] = IF c \in DOMAIN v THEN now ELSE lastUpdated[c]
  BY ClocksAssumption DEF ClocksAssumption, TypeOK, setClocks

LEMMA ShowInv ==
    ASSUME Inv, NEW p \in PtsValues, NEW d \in Delays, NEW otherSerial \in BOOLEAN,
           ShowFrame(p, d, otherSerial)
    PROVE  Inv'
  <1> USE DEF Inv, ClocksInv
  <1>1. d \in Nat /\ now \in Int /\ frameTimer \in Int
    BY ClocksAssumption DEF ClocksAssumption, TypeOK
  <1>2. frameTimer' \in Int /\ lagShown' = now - frameTimer' /\ lagShown' \in Nat
    BY <1>1 DEF ShowFrame, frameTimerFor, frameTimerShown
  <1>3. CASE p = NaN
    BY <1>2, <1>3 DEF ShowFrame, TypeOK, SetWithFrame, ClocksSound
  <1>4. CASE p # NaN
    <2>1. p \in Int
      BY <1>4, ClocksAssumption DEF ClocksAssumption
    <2> DEFINE v == [c \in {"VIDEO", "EXTERNAL"} |-> p]
    <2>2. setClocks(v)
      BY <1>4 DEF ShowFrame, syncClockToSlave
    <2>3. \A c \in DOMAIN v : v[c] \in Int
      BY <2>1
    <2>4. "VIDEO" \in DOMAIN v /\ "VIDEO" \in ClockTypes
      BY DEF ClockTypes
    <2> HIDE DEF v
    <2>5. /\ pts' \in [ClockTypes -> Int] /\ ptsDrift' \in [ClockTypes -> Int]
          /\ lastUpdated' \in [ClockTypes -> 0 .. now]
          /\ \A c \in ClockTypes : ptsDrift'[c] = pts'[c] - lastUpdated'[c]
          /\ lastUpdated'["VIDEO"] = now
      BY <2>2, <2>3, <2>4, SetTyped DEF ClocksSound
    <2> QED
      BY <1>2, <2>5 DEF ShowFrame, TypeOK, SetWithFrame, ClocksSound
  <1> QED
    BY <1>3, <1>4

LEMMA ToggleInv ==
    ASSUME Inv, streamTogglePause, pc' \in {"loop", "shown"}
    PROVE  /\ Inv'
           /\ paused /\ timed => now - frameTimer' = lagShown
  <1> USE DEF Inv, ClocksInv
  <1>1. /\ now \in Int /\ frameTimer \in Int
        /\ lastUpdated["VIDEO"] \in Int /\ "VIDEO" \in ClockTypes
    BY ClocksAssumption DEF ClocksAssumption, TypeOK, ClockTypes
  <1>2. PICK v : /\ setClocks(v)
                 /\ \A c \in DOMAIN v : v[c] \in Int
                 /\ "VIDEO" \in DOMAIN v <=> paused
    <2>1. CASE paused
      <3> DEFINE v == [c \in {"VIDEO", "EXTERNAL"} |->
                          IF c = "VIDEO" THEN runningTime(c) ELSE getClock(c)]
      <3>1. setClocks(v)
        BY <2>1 DEF streamTogglePause
      <3>2. \A c \in DOMAIN v : v[c] \in Int
        BY ReadingTyped DEF ClockTypes
      <3> QED
        BY <2>1, <3>1, <3>2
    <2>2. CASE ~paused
      <3> DEFINE v == [c \in {"EXTERNAL"} |-> getClock(c)]
      <3>1. setClocks(v)
        BY <2>2 DEF streamTogglePause
      <3>2. \A c \in DOMAIN v : v[c] \in Int
        BY ReadingTyped DEF ClockTypes
      <3>3. "VIDEO" \notin DOMAIN v
        OBVIOUS
      <3> QED
        BY <2>2, <3>1, <3>2, <3>3
    <2> QED
      BY <2>1, <2>2 DEF TypeOK
  <1>3. /\ pts' \in [ClockTypes -> Int] /\ ptsDrift' \in [ClockTypes -> Int]
        /\ lastUpdated' \in [ClockTypes -> 0 .. now]
        /\ \A c \in ClockTypes : ptsDrift'[c] = pts'[c] - lastUpdated'[c]
        /\ lastUpdated'["VIDEO"] = IF paused THEN now ELSE lastUpdated["VIDEO"]
    BY <1>1, <1>2, SetTyped DEF ClocksSound
  <1>4. frameTimer' = IF paused THEN frameTimer + (now - lastUpdated["VIDEO"]) ELSE frameTimer
    BY DEF streamTogglePause, frameTimerResumed, getLastUpdated
  <1>5. /\ now' = now /\ UNCHANGED lastShown /\ step' = step /\ speed' = speed
        /\ paused' = ~paused /\ clockPaused' = [c \in ClockTypes |-> ~paused]
    BY DEF streamTogglePause, setClocksPasuse
  <1>6. TypeOK'
    BY <1>1, <1>3, <1>4, <1>5 DEF TypeOK, lastShown
  <1>7. lastUpdated'["VIDEO"] - frameTimer' = lastUpdated["VIDEO"] - frameTimer
    BY <1>1, <1>3, <1>4
  <1>8. ClocksInv'
    BY <1>3, <1>5, <1>7 DEF SetWithFrame, ClocksSound, lastShown
  <1>9. paused /\ timed => now - frameTimer' = lagShown
    BY <1>1, <1>3, <1>7 DEF SetWithFrame
  <1> QED
    BY <1>6, <1>8, <1>9

LEMMA SpeedInv ==
    ASSUME Inv, NEW s \in Speeds, setClockSpeed(s)
    PROVE  Inv'
  <1> USE DEF Inv, ClocksInv
  <1> DEFINE v == [c \in {"EXTERNAL"} |-> getClock(c)]
  <1>1. setClocks(v)
    BY DEF setClockSpeed
  <1>2. \A c \in DOMAIN v : v[c] \in Int
    BY ReadingTyped DEF ClockTypes
  <1>3. "VIDEO" \notin DOMAIN v /\ "VIDEO" \in ClockTypes
    BY DEF ClockTypes
  <1> HIDE DEF v
  <1>4. /\ pts' \in [ClockTypes -> Int] /\ ptsDrift' \in [ClockTypes -> Int]
        /\ lastUpdated' \in [ClockTypes -> 0 .. now]
        /\ \A c \in ClockTypes : ptsDrift'[c] = pts'[c] - lastUpdated'[c]
        /\ lastUpdated'["VIDEO"] = lastUpdated["VIDEO"]
    BY <1>1, <1>2, <1>3, SetTyped DEF ClocksSound
  <1> QED
    BY <1>4 DEF setClockSpeed, player, lastShown, TypeOK, SetWithFrame, ClocksSound

LEMMA TickInv == Inv /\ (Tick \/ UNCHANGED vars) => Inv'
  BY ClocksAssumption DEF ClocksAssumption, Tick, Inv, TypeOK, ClocksInv, SetWithFrame,
     ClocksSound, vars, clocks, player, lastShown

\* AfterFrame toggles the pause or returns to the loop.
LEMMA AfterFrameInv == Inv /\ AfterFrame => Inv'
  <1> SUFFICES ASSUME Inv, AfterFrame
               PROVE  Inv'
    OBVIOUS
  <1>1. CASE step /\ ~paused
    BY <1>1, ToggleInv DEF AfterFrame
  <1>2. CASE ~(step /\ ~paused)
    BY <1>2 DEF AfterFrame, Inv, TypeOK, ClocksInv, SetWithFrame, ClocksSound, clocks, player, lastShown
  <1> QED
    BY <1>1, <1>2

LEMMA NextInv == Inv /\ [Next]_vars => Inv'
  <1> SUFFICES ASSUME Inv, [Next]_vars
               PROVE  Inv'
    OBVIOUS
  <1>1. CASE CallTogglePause
    BY <1>1, ToggleInv DEF CallTogglePause, Inv, TypeOK
  <1> QED
    BY <1>1, ShowInv, SpeedInv, TickInv, AfterFrameInv DEF Next

LEMMA InvAlways == Spec => []Inv
  BY InitInv, NextInv, PTL DEF Spec

\* Every field keeps its type, and no clock is set in the future.
THEOREM ClocksTypeCorrect == Spec => []TypeOK
  BY InvAlways, PTL DEF Inv

\* The clocks stay consistent with each other, with the pause and with the
\* frame on show.
THEOREM ClocksConsistent == Spec => []ClocksInv
  BY InvAlways, PTL DEF Inv

-----------------------------------------------------------------------------
(* A resume keeps the pace. *)

LEMMA ResumeStep ==
    Inv /\ [Next]_vars =>
        [paused /\ ~paused' /\ timed => now - frameTimer' = lagShown]_vars
  <1> SUFFICES ASSUME Inv, Next, paused, ~paused', timed
               PROVE  now - frameTimer' = lagShown
    OBVIOUS
  <1>1. CASE CallTogglePause
    BY <1>1, ToggleInv DEF CallTogglePause, Inv, TypeOK
  <1>2. CASE AfterFrame
    BY <1>2 DEF AfterFrame, player
  <1> QED
    BY <1>1, <1>2 DEF Next, ShowFrame, setClockSpeed, Tick, player

\* After a resume, frameTimer is behind the system time by exactly what it was
\* when the frame on show was shown, however long the pause was.
THEOREM PaceSurvivesPause == Spec => ResumeKeepsPace
  BY InvAlways, ResumeStep, PTL DEF Spec, ResumeKeepsPace

-----------------------------------------------------------------------------
(* The external clock is a media clock. *)

LEMMA InitMedia == Init => ExternalClock!Init
  <1> SUFFICES ASSUME Init
               PROVE  ExternalClock!Init
    OBVIOUS
  <1>1. TypeOK /\ "EXTERNAL" \in ClockTypes
    BY InitInv DEF Inv, ClockTypes
  <1> QED
    BY <1>1, ReadingTyped DEF Init, ExternalClock!Init, TypeOK

\* Whatever sets the external clock to a number gives it that reading.
LEMMA SetExternal ==
    ASSUME Inv, NEW v, setClocks(v), now' = now, v["EXTERNAL"] \in Int,
           "EXTERNAL" \in DOMAIN v, speed'["EXTERNAL"] \in Int
    PROVE  getClock("EXTERNAL")' = v["EXTERNAL"]
  BY SetReads DEF Inv, ClockTypes

LEMMA SpeedTyped == Inv => "EXTERNAL" \in ClockTypes /\ speed["EXTERNAL"] \in Int
  BY SpeedsInt DEF Inv, TypeOK, ClockTypes

LEMMA ShowMedia ==
    ASSUME Inv, NEW p \in PtsValues, NEW d \in Delays, NEW otherSerial \in BOOLEAN,
           ShowFrame(p, d, otherSerial)
    PROVE  ExternalClock!Set
  <1>1. /\ now' = now /\ speed' = speed /\ clockPaused' = clockPaused
        /\ pc # "shown" /\ pc' = "shown"
    BY DEF ShowFrame
  <1>2. getClock("EXTERNAL")' \in Int
    <2>1. CASE p = NaN
      <3>1. UNCHANGED <<pts, ptsDrift, lastUpdated>>
        BY <2>1 DEF ShowFrame
      <3>2. getClock("EXTERNAL")' = getClock("EXTERNAL")
        BY <1>1, <3>1 DEF getClock, runningTime
      <3> QED
        BY <3>2, ReadingTyped, SpeedTyped DEF Inv
    <2>2. CASE p # NaN
      <3>1. p \in Int
        BY <2>2, ClocksAssumption DEF ClocksAssumption
      <3> DEFINE v == [c \in {"VIDEO", "EXTERNAL"} |-> p]
      <3>2. setClocks(v)
        BY <2>2 DEF ShowFrame, syncClockToSlave
      <3>3. v["EXTERNAL"] = p /\ "EXTERNAL" \in DOMAIN v
        OBVIOUS
      <3> HIDE DEF v
      <3> QED
        BY <1>1, <3>1, <3>2, <3>3, SetExternal, SpeedTyped
    <2> QED
      BY <2>1, <2>2
  <1> QED
    BY <1>1, <1>2 DEF ExternalClock!Set

LEMMA ToggleMedia ==
    ASSUME Inv, streamTogglePause, pc' = pc \/ (pc = "shown" /\ pc' = "loop")
    PROVE  ExternalClock!Next \/ UNCHANGED ExternalClock!clockVars
  <1>1. PICK v : /\ setClocks(v)
                 /\ "EXTERNAL" \in DOMAIN v
                 /\ v["EXTERNAL"] = getClock("EXTERNAL")
    <2>1. CASE paused
      BY <2>1 DEF streamTogglePause
    <2>2. CASE ~paused
      BY <2>2 DEF streamTogglePause
    <2> QED
      BY <2>1, <2>2
  <1>2. now' = now /\ speed' = speed
    BY DEF streamTogglePause
  <1>3. getClock("EXTERNAL") \in Int
    BY ReadingTyped, SpeedTyped DEF Inv
  <1>4. getClock("EXTERNAL")' = getClock("EXTERNAL")
    BY <1>1, <1>2, <1>3, SetExternal, SpeedTyped
  <1>5. /\ clockPaused["EXTERNAL"] \in BOOLEAN /\ paused \in BOOLEAN
        /\ clockPaused["EXTERNAL"] => paused
        /\ clockPaused'["EXTERNAL"] = ~paused
    BY SpeedTyped DEF Inv, TypeOK, ClocksInv, ClocksSound, streamTogglePause, setClocksPasuse
  <1>6. \/ (~clockPaused["EXTERNAL"])' = ~(~clockPaused["EXTERNAL"])
        \/ (~clockPaused["EXTERNAL"])' = (~clockPaused["EXTERNAL"])
    BY <1>5
  <1>7. speed'["EXTERNAL"] = speed["EXTERNAL"]
    BY <1>2
  <1> QED
    BY <1>2, <1>4, <1>6, <1>7 DEF ExternalClock!Next, ExternalClock!Toggle,
       ExternalClock!NoFrame, ExternalClock!FrameDone, ExternalClock!clockVars

LEMMA SpeedMedia ==
    ASSUME Inv, NEW s \in Speeds, setClockSpeed(s)
    PROVE  ExternalClock!SetRate
  <1> DEFINE v == [c \in {"EXTERNAL"} |-> getClock(c)]
  <1>1. setClocks(v) /\ now' = now /\ clockPaused' = clockPaused /\ pc' = pc
    BY DEF setClockSpeed
  <1>2. v["EXTERNAL"] = getClock("EXTERNAL") /\ "EXTERNAL" \in DOMAIN v
    OBVIOUS
  <1>3. s \in Int
    BY ClocksAssumption DEF ClocksAssumption
  <1>4. speed'["EXTERNAL"] = s
    BY SpeedTyped DEF setClockSpeed, Inv, TypeOK
  <1> HIDE DEF v
  <1>5. getClock("EXTERNAL")' = getClock("EXTERNAL")
    BY <1>1, <1>2, <1>3, <1>4, SetExternal, SpeedTyped, ReadingTyped DEF Inv
  <1> QED
    BY <1>1, <1>3, <1>4, <1>5 DEF ExternalClock!SetRate, ExternalClock!NoFrame

\* One tick moves a running clock by its speed.
LEMMA TickMedia ==
    ASSUME Inv, Tick
    PROVE  ExternalClock!Advance
  <1> DEFINE u == lastUpdated["EXTERNAL"]
             s == speed["EXTERNAL"]
  <1>1. /\ now' = now + 1 /\ pc' = pc
        /\ UNCHANGED <<pts, ptsDrift, lastUpdated, speed, clockPaused>>
    BY DEF Tick, clocks
  <1>2. now \in Int /\ u \in Int /\ s \in Int /\ ptsDrift["EXTERNAL"] \in Int
    BY SpeedTyped, ClocksAssumption DEF ClocksAssumption, Inv, TypeOK
  <1>3. runningTime("EXTERNAL")' = runningTime("EXTERNAL") + s
    <2> DEFINE x == (now - u) * (1 - s)
               y == (now' - lastUpdated'["EXTERNAL"]) * (1 - speed'["EXTERNAL"])
    <2>1. now' = now + 1 /\ lastUpdated'["EXTERNAL"] = u /\ speed'["EXTERNAL"] = s
      BY <1>1
    <2>2. y = x + (1 - s) /\ x \in Int
      <3> HIDE DEF u, s
      <3> QED
        BY <1>2, <2>1, TickDistributes
    <2>3. runningTime("EXTERNAL") = ptsDrift["EXTERNAL"] + now - x
      BY DEF runningTime
    <2>4. runningTime("EXTERNAL")' = ptsDrift["EXTERNAL"] + (now + 1) - y
      <3>1. runningTime("EXTERNAL")' = ptsDrift'["EXTERNAL"] + now' - y
        BY DEF runningTime
      <3> HIDE DEF y
      <3> QED
        BY <1>1, <3>1, Zenon
    <2>5. ptsDrift["EXTERNAL"] + (now + 1) - y = (ptsDrift["EXTERNAL"] + now - x) + s
      <3> HIDE DEF x, y, u, s
      <3> QED
        BY <1>2, <2>2
    <2> HIDE DEF x, y, u, s
    <2> QED
      BY <2>3, <2>4, <2>5
  <1>4. getClock("EXTERNAL")' = IF ~clockPaused["EXTERNAL"]
                                THEN getClock("EXTERNAL") + s ELSE getClock("EXTERNAL")
    BY <1>1, <1>3 DEF getClock
  <1> QED
    BY <1>1, <1>4 DEF ExternalClock!Advance

LEMMA StutterMedia ==
    UNCHANGED <<now, clocks>> /\ (pc' = pc \/ (pc = "shown" /\ pc' = "loop"))
        => ExternalClock!FrameDone \/ UNCHANGED ExternalClock!clockVars
  BY DEF clocks, getClock, runningTime, ExternalClock!FrameDone, ExternalClock!clockVars

LEMMA NextMedia == Inv /\ [Next]_vars => [ExternalClock!Next]_(ExternalClock!clockVars)
  <1> SUFFICES ASSUME Inv, [Next]_vars
               PROVE  ExternalClock!Next \/ UNCHANGED ExternalClock!clockVars
    OBVIOUS
  <1>1. CASE CallTogglePause \/ AfterFrame
    <2>1. /\ streamTogglePause \/ UNCHANGED <<now, clocks>>
          /\ pc' = pc \/ (pc = "shown" /\ pc' = "loop")
      BY <1>1 DEF CallTogglePause, AfterFrame
    <2> QED
      BY <2>1, ToggleMedia, StutterMedia DEF ExternalClock!Next
  <1>2. CASE UNCHANGED vars
    BY <1>2, StutterMedia DEF vars, clocks, ExternalClock!Next
  <1>3. CASE \E p \in PtsValues, d \in Delays, otherSerial \in BOOLEAN :
                ShowFrame(p, d, otherSerial)
    BY <1>3, ShowMedia DEF ExternalClock!Next
  <1>4. CASE \E s \in Speeds : setClockSpeed(s)
    BY <1>4, SpeedMedia DEF ExternalClock!Next
  <1>5. CASE Tick
    BY <1>5, TickMedia DEF ExternalClock!Next
  <1> QED
    BY <1>1, <1>2, <1>3, <1>4, <1>5 DEF Next

\* Frames, pauses, resumes and changes of speed, in any order and however long
\* they last, leave the external clock an ideal clock of media time.
THEOREM ExternalIsMediaClock == Spec => ExternalClockSpec
  <1>1. Init => ExternalClock!Init
    BY InitMedia
  <1>2. Inv /\ [Next]_vars => [ExternalClock!Next]_(ExternalClock!clockVars)
    BY NextMedia
  <1> QED
    BY <1>1, <1>2, InvAlways, PTL DEF Spec, ExternalClockSpec, ExternalClock!Spec
=============================================================================
