--------------------------- MODULE HelmPanelProofs ---------------------------
(***************************************************************************)
(* HelmPanel, for any number of engines: the dead-man flags always have an *)
(* owner, the panel settles on one engine with every ui_tick, and power    *)
(* states are per engine while the telemetry handler is not interrupted.   *)
(***************************************************************************)
EXTENDS HelmPanel, TLAPS

USE DEF seq, derived, history, world

\* While a run is on, the flags are its own; otherwise they are the finger's.
FlagsOwned ==
  IF auto = "idle"
  THEN held \subseteq (IF finger = "glow" THEN {"glow"}
                       ELSE IF finger = "start" THEN {"start", "stop"}
                       ELSE {})
  ELSE held \subseteq (IF auto = "glowing" THEN {"glow"}
                       ELSE IF auto = "cranking" THEN {"start"}
                       ELSE {})

\* No telemetry is half way between its check and its write, and what turns,
\* or turns according to the panel, has turned.
TelemetryTrue ==
  /\ rx = Nothing
  /\ rpm => sel \in earned
  /\ spin \subseteq earned

-----------------------------------------------------------------------------
\* Membership is a truth value.
LEMMA InIsBoolean == \A x, S : (x \in S) \in BOOLEAN
  BY SMT

\* The truth values stay truth values.
LEMMA FlagsStep == FlagsType /\ [Next]_vars => FlagsType'
<1> SUFFICES ASSUME FlagsType, [Next]_vars PROVE FlagsType'
  OBVIOUS
<1> USE DEF FlagsType
<1>1. CASE AutoButton
  BY Zenon, <1>1 DEF AutoButton
<1>2. CASE PowerSwitch \/ PowerButton
  BY Zenon, <1>2 DEF PowerSwitch, PowerButton
<1>3. CASE Tick
  <2>1. due' \in BOOLEAN
    BY Zenon, <1>3 DEF Tick, autostart_tick, AutoCancel, AutoCrank, AutoCatch,
       AutoMiss, AutoRest
  <2>2. rpm' \in BOOLEAN /\ stale' \in BOOLEAN
    <3>1. CASE Reselect
      BY Zenon, <1>3, <3>1 DEF Tick
    <3>2. CASE ~Reselect
      BY Zenon, <1>3, <3>2 DEF Tick
    <3> QED
      BY Zenon, <3>1, <3>2
  <2>3. gRunning' \in BOOLEAN
    BY Zenon, <1>3 DEF Tick
  <2>4. gPower' \in BOOLEAN
    BY Zenon, <1>3, InIsBoolean DEF Tick
  <2>5. sw' \in BOOLEAN
    BY Zenon, <1>3, <2>4 DEF Tick
  <2>6. gCanStop' \in BOOLEAN
    BY Zenon, <1>3, InIsBoolean DEF Tick
  <2> QED
    BY Zenon, <2>1, <2>2, <2>3, <2>4, <2>5, <2>6
<1>4. CASE PhaseOver \/ CatchOver
  BY Zenon, <1>4 DEF PhaseOver, CatchOver
<1>5. ASSUME NEW e \in Engines, Pick(e) PROVE FlagsType'
  BY Zenon, <1>5 DEF Pick
<1>9. ASSUME NEW e \in Engines, AgeOut(e) PROVE FlagsType'
  <2>1. rpm' \in BOOLEAN
    <3>1. CASE e = sel
      BY Zenon, <1>9, <3>1 DEF AgeOut
    <3>2. CASE e # sel
      BY Zenon, <1>9, <3>2 DEF AgeOut
    <3> QED
      BY <3>1, <3>2
  <2> QED
    BY Zenon, <1>9, <2>1 DEF AgeOut
<1>10. ASSUME NEW e \in Engines, Telem(e) PROVE FlagsType'
  BY Zenon, <1>10, InIsBoolean DEF Telem
<1>6. CASE TelemWrite
  BY Zenon, <1>6 DEF TelemWrite
<1>7. CASE Reboot
  BY Zenon, <1>7 DEF Reboot
<1>8. CASE UNCHANGED <<rpm, gPower, gRunning, gCanStop, sw, due, stale>>
  BY Zenon, <1>8
<1> QED
  BY Zenon, <1>1, <1>2, <1>3, <1>4, <1>5, <1>6, <1>7, <1>8, <1>9, <1>10
  DEF Next, vars, PressGlow, PressStart, Release, Announce, TelemMatch,
      SpinUp, SpinDown, SendIgnition

\* The other variables keep their types.
LEMMA PanelStep == PanelType /\ [Next]_vars => PanelType'
<1> SUFFICES ASSUME PanelType, [Next]_vars PROVE PanelType'
  OBVIOUS
<1> USE DEF PanelType
<1>1. CASE PressGlow \/ PressStart \/ Release
  <2>1. held' \subseteq {"glow", "start", "stop"}
    BY <1>1 DEF PressGlow, PressStart, Release
  <2>2. finger' \in {Nothing, "glow", "start"}
    BY <1>1 DEF PressGlow, PressStart, Release
  <2>3. UNCHANGED <<sel, present, rx, power, auto, autoEngine, left, catching,
                    spin, ign, reboots, earned, off>>
    BY Zenon, <1>1 DEF PressGlow, PressStart, Release
  <2> QED
    BY <2>1, <2>2, <2>3
<1>2. CASE AutoButton
  <2>1. left' \in 0 .. Retries /\ autoEngine' \in Engines
    BY <1>2, PanelAssumption DEF AutoButton
  <2>2. /\ auto' \in AutoStates
        /\ held' \subseteq {"glow", "start", "stop"}
        /\ catching' \in {"no", "short", "long"}
    BY <1>2 DEF AutoButton, AutoStates
  <2> QED
    BY <1>2, <2>1, <2>2 DEF AutoButton
<1>3. CASE PowerSwitch \/ PowerButton
  BY <1>3 DEF PowerSwitch, PowerButton
<1>4. CASE Tick
  <2>1. /\ auto' \in AutoStates
        /\ held' \subseteq {"glow", "start", "stop"}
        /\ left' \in 0 .. Retries
        /\ catching' \in {"no", "short", "long"}
        /\ autoEngine' = autoEngine
    <3> USE DEF AutoStates
    <3>1. CASE AutoCancel
      BY <1>4, <3>1 DEF Tick, autostart_tick, AutoCancel
    <3>2. CASE AutoCrank
      BY <1>4, <3>2 DEF Tick, autostart_tick, AutoCrank
    <3>3. CASE AutoCatch
      BY <1>4, <3>3 DEF Tick, autostart_tick, AutoCatch
    <3>4. CASE AutoMiss
      <4>1. CASE due /\ left > 0
        <5>1. left' = left - 1
          BY Zenon, <3>4, <4>1 DEF AutoMiss
        <5>2. left' \in 0 .. Retries
          BY <4>1, <5>1, PanelAssumption
        <5> QED
          BY <1>4, <3>4, <4>1, <5>2 DEF Tick, autostart_tick, AutoMiss
      <4>2. CASE due /\ ~(left > 0)
        BY <1>4, <3>4, <4>2 DEF Tick, autostart_tick, AutoMiss
      <4>3. CASE ~due
        BY <1>4, <3>4, <4>3 DEF Tick, autostart_tick, AutoMiss
      <4> QED
        BY <4>1, <4>2, <4>3
    <3>5. CASE AutoRest
      BY <1>4, <3>5 DEF Tick, autostart_tick, AutoRest
    <3> QED
      BY Zenon, <1>4, <3>1, <3>2, <3>3, <3>4, <3>5 DEF Tick, autostart_tick
  <2>2. sel' \in Engines
    BY <1>4 DEF Tick, FirstPresent
  <2>3. power' \subseteq Engines /\ off' \subseteq Engines
    BY <1>4 DEF Tick
  <2> QED
    BY <1>4, <2>1, <2>2, <2>3 DEF Tick
<1>5. CASE PhaseOver \/ CatchOver
  BY <1>5 DEF PhaseOver, CatchOver
<1>6. ASSUME NEW e \in Engines, Pick(e) PROVE PanelType'
  BY <1>6 DEF Pick
<1>7. ASSUME NEW e \in Engines, Announce(e) \/ AgeOut(e) PROVE PanelType'
  BY <1>7 DEF Announce, AgeOut
<1>8. ASSUME NEW e \in Engines, Telem(e) \/ TelemMatch(e) PROVE PanelType'
  BY <1>8 DEF Telem, TelemMatch
<1>9. ASSUME NEW e \in Engines, SpinUp(e) \/ SpinDown(e) PROVE PanelType'
  BY <1>9 DEF SpinUp, SpinDown
<1>10. CASE TelemWrite \/ SendIgnition
  BY <1>10 DEF TelemWrite, SendIgnition
<1>11. CASE Reboot
  BY <1>11, PanelAssumption DEF Reboot, AutoStates
<1>12. CASE UNCHANGED vars
  BY <1>12 DEF vars
<1> QED
  BY <1>1, <1>2, <1>3, <1>4, <1>5, <1>6, <1>7, <1>8, <1>9, <1>10, <1>11,
     <1>12 DEF Next

\* The variables keep their types, for any engines and retries.
THEOREM TypeCorrect == Spec => []TypeOK
<1>1. Init => FlagsType
  BY Zenon DEF Init, FlagsType
<1>2. Init => PanelType
  BY PanelAssumption DEF Init, PanelType, AutoStates
<1>3. TypeOK /\ [Next]_vars => TypeOK'
  BY FlagsStep, PanelStep DEF TypeOK
<1> QED
  BY <1>1, <1>2, <1>3, PTL DEF Spec, TypeOK

-----------------------------------------------------------------------------
\* "A held message is: finger is on the button NOW, never a latch": every
\* dead-man flag has a finger or an autostart phase behind it.
THEOREM HoldsOwned == Spec => []HoldsHaveOwner
<1>1. Init => FlagsOwned
  BY DEF Init, FlagsOwned
<1>2. FlagsOwned /\ [Next]_vars => FlagsOwned'
  <2> SUFFICES ASSUME FlagsOwned, [Next]_vars PROVE FlagsOwned'
    OBVIOUS
  <2> USE DEF FlagsOwned, Nothing
  <2>1. CASE PressGlow
    BY <2>1 DEF PressGlow
  <2>2. CASE PressStart
    BY <2>2 DEF PressStart
  <2>3. CASE Release
    BY <2>3 DEF Release
  <2>4. CASE AutoButton
    BY <2>4 DEF AutoButton
  <2>5. CASE PowerSwitch
    BY <2>5 DEF PowerSwitch
  <2>6. CASE Tick
    <3>1. finger' = finger
      BY <2>6 DEF Tick
    <3>2. CASE AutoCancel
      BY <3>1, <3>2 DEF AutoCancel
    <3>3. CASE AutoCrank
      BY <3>1, <3>3 DEF AutoCrank
    <3>4. CASE AutoCatch
      BY <3>1, <3>4 DEF AutoCatch
    <3>5. CASE AutoMiss
      BY <3>1, <3>5 DEF AutoMiss
    <3>6. CASE AutoRest
      BY <3>1, <3>6 DEF AutoRest
    <3> QED
      BY <2>6, <3>2, <3>3, <3>4, <3>5, <3>6 DEF Tick, autostart_tick
  <2>7. CASE Reboot
    BY <2>7 DEF Reboot
  <2>8. CASE UNCHANGED <<auto, finger, held>>
    BY <2>8
  <2> QED
    BY <2>1, <2>2, <2>3, <2>4, <2>5, <2>6, <2>7, <2>8
    DEF Next, vars, PowerButton, PhaseOver, CatchOver, Pick, Announce, AgeOut,
        Telem, TelemMatch, SpinUp, SpinDown, TelemWrite, SendIgnition
<1>3. FlagsOwned => HoldsHaveOwner
  BY DEF FlagsOwned, HoldsHaveOwner
<1> QED
  BY <1>1, <1>2, <1>3, PTL DEF Spec

\* An autostart run under way is for the engine on the panel: inductive, where
\* what its frames say is not.
OnThePanel ==
  ~stale => /\ gPower <=> sel \in power
            /\ auto # "idle" => autoEngine = sel

\* After a ui_tick, commands belong to the engine on the panel until the next
\* touch that changes engine or power.
THEOREM PanelIsSettled == Spec => []SettledAfterATick
<1>1. Init => OnThePanel
  BY DEF Init, OnThePanel
<1>2. OnThePanel /\ [Next]_vars => OnThePanel'
  <2> SUFFICES ASSUME OnThePanel, [Next]_vars
               PROVE  OnThePanel'
    OBVIOUS
  <2> USE DEF OnThePanel
  <2>1. CASE AutoButton
    BY <2>1 DEF AutoButton
  <2>2. CASE Tick
    <3>1. CASE Reselect
      BY <2>2, <3>1 DEF Tick
    <3>2. CASE ~Reselect
      <4>1. (gPower' <=> sel' \in power') /\ sel' = sel /\ autoEngine' = autoEngine
        BY <2>2, <3>2 DEF Tick, autostart_tick
      <4>2. auto' # "idle" => autoEngine = sel
        BY <2>2 DEF Tick, autostart_tick, AutoCancel, AutoCrank, AutoCatch,
           AutoMiss, AutoRest, Running
      <4> QED
        BY <4>1, <4>2
    <3> QED
      BY <3>1, <3>2
  <2>3. CASE Reboot
    BY <2>3 DEF Reboot
  <2>4. CASE stale'
    BY <2>4
  <2>5. CASE UNCHANGED <<sel, power, gPower, auto, autoEngine, stale>>
    BY <2>5
  <2> QED
    BY <2>1, <2>2, <2>3, <2>4, <2>5
    DEF Next, vars, PressGlow, PressStart, Release, PowerSwitch, PowerButton,
        PhaseOver, CatchOver, Pick, Announce, AgeOut, Telem, TelemMatch,
        SpinUp, SpinDown, TelemWrite, SendIgnition
<1>3. OnThePanel => SettledAfterATick
  BY DEF OnThePanel, SettledAfterATick, Outgoing
<1> QED
  BY <1>1, <1>2, <1>3, PTL DEF Spec

\* Power states are per engine as long as the telemetry handler is not
\* interrupted between its check of sel_engine and its write.
THEOREM PowerIsEarned ==
  ASSUME ~Preempted
  PROVE  Spec => []NoGhostPower
<1> DEFINE I == NoGhostPower /\ TelemetryTrue
<1>1. Init => I
  BY DEF Init, NoGhostPower, TelemetryTrue
<1>2. I /\ [Next]_vars => I'
  <2> SUFFICES ASSUME I, [Next]_vars PROVE I'
    OBVIOUS
  <2> USE DEF NoGhostPower, TelemetryTrue
  <2>1. CASE PowerSwitch \/ PowerButton
    BY <2>1 DEF PowerSwitch, PowerButton
  <2>2. CASE Tick
    <3>1. /\ gRunning' => rpm
          /\ power' = IF gRunning' THEN power \cup {sel} ELSE power
          /\ rpm' => rpm /\ sel' = sel
          /\ UNCHANGED <<earned, spin, rx>>
      BY <2>2 DEF Tick
    <3> QED
      BY <3>1
  <2>3. ASSUME NEW e \in Engines, Pick(e) PROVE I'
    BY <2>3 DEF Pick
  <2>4. ASSUME NEW e \in Engines, AgeOut(e) \/ Telem(e) PROVE I'
    BY <2>4 DEF AgeOut, Telem
  <2>5. ASSUME NEW e \in Engines, SpinUp(e) \/ SpinDown(e) PROVE I'
    BY <2>5 DEF SpinUp, SpinDown
  <2>6. CASE Reboot
    BY <2>6 DEF Reboot
  <2>7. CASE UNCHANGED <<power, earned, spin, rpm, rx, sel>>
    BY <2>7
  <2>8. ~TelemWrite /\ \A e \in Engines : ~TelemMatch(e)
    BY DEF TelemWrite, TelemMatch
  <2> QED
    BY <2>1, <2>2, <2>3, <2>4, <2>5, <2>6, <2>7, <2>8
    DEF Next, vars, PressGlow, PressStart, Release, AutoButton, PhaseOver,
        CatchOver, Announce, SendIgnition
<1> QED
  BY <1>1, <1>2, PTL DEF Spec
=============================================================================
