------------------------------ MODULE HelmPanel ------------------------------
(***************************************************************************)
(* The command side of the primary HELM display                            *)
(* (EngineControl/engine_display/src/engine_display.ino): which engine the *)
(* panel shows, each engine's power state, the dead-man flags behind GLOW, *)
(* START and STOP, the autostart sequence, and the commands the main loop  *)
(* derives from them.  Three parties interleave:                           *)
(*   LVGL task   touches and the 200 ms ui_tick; never interrupted by      *)
(*   main loop   received frames and the outgoing commands;                *)
(*   the engines, whose telemetry comes and goes.                          *)
(* Time is abstract: a phase of the autostart sequence runs out at some    *)
(* moment, and a ui_tick or a refresh may happen at any moment.            *)
(***************************************************************************)
EXTENDS Naturals, FiniteSets

CONSTANTS Engines,    \* indexes of the engines, 0 .. MD_MAX_ENGINES - 1
          CanStop,    \* engines whose ANNOUNCE carries CAP_STOP
          Retries,    \* as_retries, the same for every engine
          Preempted,  \* the LVGL task may run inside the telemetry handler
          MaxReboots  \* bound on the restarts of the HELM

ASSUME PanelAssumption ==
  /\ Engines # {} /\ Engines \subseteq Nat
  /\ CanStop \subseteq Engines
  /\ Retries \in Nat
  /\ Preempted \in BOOLEAN
  /\ MaxReboots \in Nat

VARIABLES
  sel,         \* sel_engine: the engine on the panel (kept in flash)
  present,     \* engines heard from in the last ENGINE_LOST_MS
  rpm,         \* eng.rpm >= RPM_RUNNING_MIN, in the telemetry on the panel
  rx,          \* telemetry matched against sel_engine, not written yet
  power,       \* the engines with user_power[e] set
  gPower,      \* g_power, and ign_commanded with it
  gRunning,    \* g_engine_running
  gCanStop,    \* g_can_stop
  sw,          \* the power switch is drawn as CHECKED
  held,        \* which of glow_held, start_held, stop_held are set
  auto,        \* autostart_state
  autoEngine,  \* autostart_engine
  left,        \* autostart_retries_left
  due,         \* the phase's time is over (autostart_phase_ms)
  catching,    \* autostart_catch_since_ms: not running / running / long enough
  finger,      \* what the operator's finger is on
  spin,        \* the engines that really turn
  ign,         \* the engines whose control board has its ignition latch set
  reboots,
  \* history
  earned,      \* engines the operator switched on, or that have turned
  off,         \* engines switched off since a ui_tick last found them on
  stale        \* sel or power changed since the last ui_tick computed from them

seq == <<auto, autoEngine, left, due, catching>>
derived == <<gPower, gRunning, gCanStop, sw>>
history == <<earned, off, stale>>
world == <<spin, ign, reboots>>
vars == <<sel, present, rpm, rx, power, derived, held, seq, finger, world, history>>

Nothing == "nothing"
AutoStates == {"idle", "glowing", "cranking", "waiting"}

FlagsType ==
  /\ rpm \in BOOLEAN
  /\ gPower \in BOOLEAN /\ gRunning \in BOOLEAN /\ gCanStop \in BOOLEAN
  /\ sw \in BOOLEAN /\ due \in BOOLEAN /\ stale \in BOOLEAN

PanelType ==
  /\ sel \in Engines
  /\ present \subseteq Engines
  /\ rx \in {Nothing, "still", "turning"}
  /\ power \subseteq Engines
  /\ held \subseteq {"glow", "start", "stop"}
  /\ auto \in AutoStates
  /\ autoEngine \in Engines
  /\ left \in 0 .. Retries
  /\ catching \in {"no", "short", "long"}
  /\ finger \in {Nothing, "glow", "start"}
  /\ spin \subseteq Engines
  /\ ign \subseteq Engines
  /\ reboots \in 0 .. MaxReboots
  /\ earned \subseteq Engines
  /\ off \subseteq Engines

TypeOK == FlagsType /\ PanelType

Init ==
  /\ sel \in Engines
  /\ present = {}
  /\ rpm = FALSE
  /\ rx = Nothing
  /\ power = {}
  /\ gPower = FALSE /\ gRunning = FALSE /\ gCanStop = FALSE /\ sw = FALSE
  /\ held = {}
  /\ auto = "idle"
  /\ autoEngine = sel
  /\ left = 0
  /\ due = FALSE
  /\ catching = "no"
  /\ finger = Nothing
  /\ spin = {} /\ ign = {} /\ reboots = 0
  /\ earned = {} /\ off = {}
  /\ stale = FALSE

(***************************************************************************)
(* The LVGL task: touches.  A pointer is on one widget at a time.          *)
(***************************************************************************)

\* glow_cb, PRESSED.
PressGlow ==
  /\ finger = Nothing
  /\ gPower /\ ~gRunning
  /\ finger' = "glow"
  /\ IF auto = "idle"
     THEN held' = held \cup {"glow"}
     ELSE UNCHANGED held
  /\ UNCHANGED <<sel, present, rpm, rx, power, derived, seq, world, history>>

\* start_cb, PRESSED: crank a stopped engine, or stop a running one that can.
PressStart ==
  /\ finger = Nothing
  /\ gPower /\ (gRunning => gCanStop)
  /\ finger' = "start"
  /\ IF auto = "idle"
     THEN held' = held \cup {IF gRunning THEN "stop" ELSE "start"}
     ELSE UNCHANGED held
  /\ UNCHANGED <<sel, present, rpm, rx, power, derived, seq, world, history>>

\* glow_cb / start_cb, RELEASED or PRESS_LOST.
Release ==
  /\ finger # Nothing
  /\ finger' = Nothing
  /\ held' = IF auto # "idle" THEN held
             ELSE held \ (IF finger = "glow" THEN {"glow"} ELSE {"start", "stop"})
  /\ UNCHANGED <<sel, present, rpm, rx, power, derived, seq, world, history>>

\* Mutant of AutoButton: autostart_engine keeps its old value.
AutoButtonUntargeted ==
  /\ finger = Nothing
  /\ auto = "idle"
  /\ gPower /\ ~gRunning
  /\ left' = Retries
  /\ due' = FALSE /\ catching' = "no"
  /\ held' = held \cup {"glow"}
  /\ auto' = "glowing"
  /\ UNCHANGED <<sel, present, rpm, rx, power, derived, autoEngine, finger,
                 world, history>>

\* autostart_cb: cancel a run, or start one for the engine on the panel.
AutoButton ==
  /\ finger = Nothing
  /\ \/ /\ auto # "idle"
        /\ held' = held \ {"glow", "start"}
        /\ auto' = "idle"
        /\ due' = FALSE /\ catching' = "no"
        /\ UNCHANGED <<autoEngine, left>>
     \/ /\ auto = "idle"
        /\ gPower /\ ~gRunning
        /\ autoEngine' = sel
        /\ left' = Retries
        /\ due' = FALSE /\ catching' = "no"
        /\ held' = held \cup {"glow"}
        /\ auto' = "glowing"
  /\ UNCHANGED <<sel, present, rpm, rx, power, derived, finger, world, history>>

\* power_sw_cb: the switch is enabled unless the engine runs.
PowerSwitch ==
  /\ finger = Nothing
  /\ gPower /\ ~gRunning
  /\ sw' = ~sw
  /\ IF sw'
     THEN /\ power' = power \cup {sel}
          /\ earned' = earned \cup {sel}
          /\ UNCHANGED <<held, off>>
     ELSE /\ power' = power \ {sel}
          /\ held' = held \ {"glow", "start"}
          /\ off' = off \cup {sel}
          /\ UNCHANGED earned
  /\ stale' = TRUE
  /\ UNCHANGED <<sel, present, rpm, rx, gPower, gRunning, gCanStop, seq,
                 finger, world>>

\* power_btn_cb: POWER ON, on the overlay of a panel that is off.
PowerButton ==
  /\ finger = Nothing
  /\ ~gPower
  /\ power' = power \cup {sel}
  /\ earned' = earned \cup {sel}
  /\ stale' = TRUE
  /\ UNCHANGED <<sel, present, rpm, rx, derived, held, seq, finger, world,
                 off>>

\* Mutant of Pick: reset_telemetry() is forgotten.
PickKeepingTelemetry(e) ==
  /\ finger = Nothing
  /\ e # sel
  /\ sel' = e
  /\ stale' = TRUE
  /\ UNCHANGED <<present, rpm, rx, power, derived, held, seq, finger, world,
                 earned, off>>

\* engine_pick_cb: the rows of the picker are those enabled when it was
\* opened, and it may have stayed open since: any engine can be picked.
Pick(e) ==
  /\ finger = Nothing
  /\ e # sel
  /\ sel' = e
  /\ rpm' = FALSE
  /\ stale' = TRUE
  /\ UNCHANGED <<present, rx, power, derived, held, seq, finger, world,
                 earned, off>>

(***************************************************************************)
(* The LVGL task: ui_tick, every 200 ms.                                   *)
(***************************************************************************)

\* autostart_tick: the engine on the panel changed or lost power.
AutoCancel ==
  /\ auto # "idle"
  /\ autoEngine # sel \/ ~gPower
  /\ auto' = "idle"
  /\ held' = held \ {"glow", "start"}
  /\ due' = FALSE /\ catching' = "no"
  /\ UNCHANGED left

\* The run may go on.
Running == auto # "idle" /\ autoEngine = sel /\ gPower

\* Glowing or waiting is over: crank.
AutoCrank ==
  /\ Running
  /\ auto \in {"glowing", "waiting"}
  /\ due
  /\ auto' = "cranking"
  /\ held' = (IF auto = "glowing" THEN held \ {"glow"} ELSE held) \cup {"start"}
  /\ due' = FALSE
  /\ catching' = "no"
  /\ UNCHANGED left

\* The engine turns: it has caught once it turned for AUTOSTART_CATCH_HOLD_MS.
AutoCatch ==
  /\ Running
  /\ auto = "cranking"
  /\ rpm
  /\ IF catching = "long"
     THEN /\ held' = held \ {"start"}
          /\ auto' = "idle" /\ due' = FALSE /\ catching' = "no"
     ELSE /\ catching' = "short"
          /\ UNCHANGED <<auto, held, due>>
  /\ UNCHANGED left

\* It does not turn: try again later, or give up, once the crank time is over.
AutoMiss ==
  /\ Running
  /\ auto = "cranking"
  /\ ~rpm
  /\ catching' = "no"
  /\ IF due
     THEN /\ held' = held \ {"start"}
          /\ due' = FALSE
          /\ IF left > 0
             THEN left' = left - 1 /\ auto' = "waiting"
             ELSE auto' = "idle" /\ UNCHANGED left
     ELSE UNCHANGED <<held, due, left, auto>>

AutoRest ==
  /\ auto = "idle" \/ (Running /\ auto \in {"glowing", "waiting"} /\ ~due)
  /\ UNCHANGED <<auto, held, left, due, catching>>

autostart_tick ==
  /\ AutoCancel \/ AutoCrank \/ AutoCatch \/ AutoMiss \/ AutoRest
  /\ UNCHANGED autoEngine

\* The selected engine is gone, another is there, and no run holds the panel.
Reselect ==
  /\ sel \notin present
  /\ present # {}
  /\ ~(auto' # "idle" /\ autoEngine = sel)

FirstPresent(e) == e \in present /\ \A f \in present : e <= f

\* update_engine_state, then the part of ui_tick that feeds the callbacks.
Tick ==
  /\ autostart_tick
  /\ gRunning' = (rpm /\ "start" \notin held')
  /\ power' = IF gRunning' THEN power \cup {sel} ELSE power
  /\ gPower' = (sel \in power')
  /\ off' = IF gPower' THEN off \ {sel} ELSE off
  /\ IF Reselect
     THEN FirstPresent(sel') /\ rpm' = FALSE /\ stale' = TRUE
     ELSE stale' = FALSE /\ UNCHANGED <<sel, rpm>>
  /\ gCanStop' = (sel' \in present \cap CanStop)
  /\ sw' = gPower'
  /\ UNCHANGED <<present, rx, finger, world, earned>>

\* The time of the current phase, or of the catch check, runs out.
PhaseOver ==
  /\ auto # "idle" /\ ~due
  /\ due' = TRUE
  /\ UNCHANGED <<sel, present, rpm, rx, power, derived, held, auto,
                 autoEngine, left, catching, finger, world, history>>

CatchOver ==
  /\ catching = "short"
  /\ catching' = "long"
  /\ UNCHANGED <<sel, present, rpm, rx, power, derived, held, auto,
                 autoEngine, left, due, finger, world, history>>

(***************************************************************************)
(* The main loop.                                                          *)
(***************************************************************************)

\* can_handle_rx, ANNOUNCE.
Announce(e) ==
  /\ present' = present \cup {e}
  /\ UNCHANGED <<sel, rpm, rx, power, derived, held, seq, finger, world, history>>

\* engine_ageout_tick.
AgeOut(e) ==
  /\ e \in present
  /\ present' = present \ {e}
  /\ rpm' = (rpm /\ e # sel)
  /\ UNCHANGED <<sel, rx, power, derived, held, seq, finger, world, history>>

\* can_handle_rx, TELEM: e = sel_engine is checked, then eng.rpm is written.
Telem(e) ==
  /\ e = sel
  /\ rpm' = (e \in spin)
  /\ UNCHANGED <<sel, present, rx, power, derived, held, seq, finger, world, history>>

\* The same in two steps, for a handler the LVGL task interrupts in between.
TelemMatch(e) ==
  /\ Preempted
  /\ rx = Nothing
  /\ e = sel
  /\ rx' = IF e \in spin THEN "turning" ELSE "still"
  /\ UNCHANGED <<sel, present, rpm, power, derived, held, seq, finger, world, history>>

TelemWrite ==
  /\ rx # Nothing
  /\ rpm' = (rx = "turning")
  /\ rx' = Nothing
  /\ UNCHANGED <<sel, present, power, derived, held, seq, finger, world, history>>

\* Mutant of SendIgnition: no OFF is sent.
SendIgnitionOnOnly ==
  /\ ign' = IF gPower THEN ign \cup {sel} ELSE ign
  /\ UNCHANGED <<sel, present, rpm, rx, power, derived, held, seq, finger,
                 spin, reboots, history>>

\* can_send_commands, CMD_IGNITION: on a change and every IGNITION_RESEND_MS,
\* to the engine on the panel.  The frame arrives, or is lost (no step).
SendIgnition ==
  /\ ign' = IF gPower THEN ign \cup {sel} ELSE ign \ {sel}
  /\ UNCHANGED <<sel, present, rpm, rx, power, derived, held, seq, finger,
                 spin, reboots, history>>

\* can_send_commands, the dead-man frames it sends in this state, every
\* HOLD_RESEND_MS; what the control board makes of them is in DeadMan.
Outgoing ==
  {[cmd |-> c, engine |-> sel] : c \in held}

(***************************************************************************)
(* The rest of the world.                                                  *)
(***************************************************************************)

\* An engine starts to turn (cranked from here or elsewhere) or stops.
SpinUp(e) ==
  /\ spin' = spin \cup {e}
  /\ earned' = earned \cup {e}
  /\ UNCHANGED <<sel, present, rpm, rx, power, derived, held, seq, finger,
                 ign, reboots, off, stale>>

SpinDown(e) ==
  /\ spin' = spin \ {e}
  /\ UNCHANGED <<sel, present, rpm, rx, power, derived, held, seq, finger,
                 ign, reboots, history>>

\* The HELM restarts: setup() finds sel_engine in flash and nothing else.
Reboot ==
  /\ reboots < MaxReboots
  /\ reboots' = reboots + 1
  /\ present' = {} /\ rpm' = FALSE /\ rx' = Nothing
  /\ power' = {} /\ held' = {}
  /\ gPower' = FALSE /\ gRunning' = FALSE /\ gCanStop' = FALSE /\ sw' = FALSE
  /\ auto' = "idle" /\ due' = FALSE /\ catching' = "no"
  /\ finger' = Nothing
  /\ UNCHANGED <<sel, autoEngine, left, spin, ign, history>>

Next ==
  \/ PressGlow \/ PressStart \/ Release
  \/ AutoButton \/ PowerSwitch \/ PowerButton
  \/ Tick \/ PhaseOver \/ CatchOver
  \/ \E e \in Engines :
       \/ Pick(e)
       \/ Announce(e) \/ AgeOut(e)
       \/ Telem(e) \/ TelemMatch(e)
       \/ SpinUp(e) \/ SpinDown(e)
  \/ TelemWrite
  \/ SendIgnition
  \/ Reboot

Spec == Init /\ [][Next]_vars

\* ui_tick and the loop run for ever, time passes, and of the ignition frames,
\* one a second, some get through.
Fairness ==
  /\ WF_vars(Tick) /\ WF_vars(PhaseOver) /\ WF_vars(CatchOver)
  /\ SF_vars(SendIgnition)

FairSpec == Spec /\ Fairness

-----------------------------------------------------------------------------
(***************************************************************************)
(* Properties.                                                             *)
(***************************************************************************)

\* "Finger is on the button NOW, never a latch": each dead-man flag has a
\* finger or the matching phase of an autostart run behind it.  The callbacks
\* and autostart_tick share the flags, and each clears only its own.
HoldsHaveOwner ==
  /\ "glow" \in held => finger = "glow" \/ auto = "glowing"
  /\ "start" \in held => finger = "start" \/ auto = "cranking"
  /\ "stop" \in held => finger = "start"

\* Power states are per engine: an engine is powered only if the operator
\* switched that engine on, or that engine itself was seen turning.
NoGhostPower == power \subseteq earned

\* One ui_tick after the panel changed engine or power, what the loop sends is
\* right again: the ignition state of the engine on the panel, and an autostart
\* run's frames to the engine the run is for.
SettledAfterATick ==
  ~stale => /\ gPower <=> sel \in power
            /\ auto # "idle" => \A f \in Outgoing : f.engine = autoEngine

\* A control board's ignition latch is cleared only for an engine the operator
\* switched off, as long as the display is not restarted.
DropsOnlyWhenAsked == [][reboots = 0 => ign \ ign' \subseteq off]_vars

\* A running engine keeps its ignition when the display restarts.
RunningKeepsIgnition == [][(ign \ ign') \cap spin \subseteq off]_vars

\* An autostart run ends, whatever the engine does.
AutostartEnds == auto # "idle" ~> auto = "idle"

\* A board takes over the power state of the engine on the panel, once that is
\* left alone.
IgnitionSettles ==
  \A e \in Engines :
    /\ <>[](sel = e /\ e \in power) => <>[](e \in ign)
    /\ <>[](sel = e /\ e \notin power) => <>[](e \notin ign)
=============================================================================
