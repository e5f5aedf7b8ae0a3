------------------------------- MODULE MCEngine -------------------------------
(*****************************************************************************)
(* The engine's controls over time: boards that come to be enrolled, the     *)
(* radio that finds its channel again, the panel's autostart and ignition,   *)
(* and the alarms. The components share no state: one run checks them side   *)
(* by side, each on its own.                                                 *)
(*****************************************************************************)
EXTENDS Alarms
CONSTANTS Boards, NoBoard, NoSlot

VARIABLE on   \* the component that runs
VARIABLES panel_sel, panel_present, rpm, rx, power, gPower, gRunning, gCanStop, sw,
          held, auto, autoEngine, left, due, catching, finger, spin, ign, reboots,
          earned, off, stale, slots, nvs, work, requests, assigns, enrolled, idx,
          refused, given, restarts, cuts, radio_helm, peer, seen, route, node, wire,
          can, faults

TwoEngines == {0, 1}
Temp == {"temp"}
MCKinds == {"engine", "alarmer"}
MCKindOf == [e \in Boards |-> "engine"]
TwoEngineSlots == [k \in MCKinds |-> IF k = "engine" THEN 2 ELSE 1]

Panel == INSTANCE HelmPanel
    WITH sel <- panel_sel, present <- panel_present, Engines <- {0}, CanStop <- {0},
         Retries <- 2, Preempted <- TRUE, MaxReboots <- 1
Enrol == INSTANCE Enrollment
    WITH Kinds <- MCKinds, KindOf <- MCKindOf, Size <- TwoEngineSlots,
         Contexts <- {"loop"}, MayFactoryReset <- TRUE, MaxRestarts <- 1,
         MaxPowerCuts <- 0
Radio == INSTANCE FleetRadio
    WITH helm <- radio_helm, Boards <- {"board"}, Displays <- {}, Channels <- 3,
         Retries <- 1, Fresh <- 1, MaxPaired <- 1, MaxCount <- 2, MaxFaults <- 3,
         MayUnplug <- FALSE

ASSUME Radio!RadioAssumption

panelVars == <<panel_sel, panel_present, rpm, rx, power, gPower, gRunning, gCanStop, sw,
               held, auto, autoEngine, left, due, catching, finger, spin, ign, reboots,
               earned, off, stale>>
enrolVars == <<slots, nvs, work, requests, assigns, enrolled, idx, refused, given,
               restarts, cuts>>
radioVars == <<radio_helm, peer, seen, route, node, wire, can, faults>>
allVars == <<on, vars, panelVars, enrolVars, radioVars>>

(* What does not run waits in one of its initial states.                  *)
MCInit ==
    /\ on \in {"alarms", "panel", "enrol", "radio"}
    /\ Init /\ (on # "alarms" => sel = 0)
    /\ Panel!Init
    /\ Enrol!Init
    /\ Radio!Init /\ (on # "radio" => radio_helm.ch = 1 /\ can = {})

MCNext ==
    \/ on = "alarms" /\ Next
       /\ UNCHANGED <<on, panelVars, enrolVars, radioVars>>
    \/ on = "panel" /\ Panel!Next
       /\ UNCHANGED <<on, vars, enrolVars, radioVars>>
    \/ on = "enrol" /\ Enrol!Next
       /\ UNCHANGED <<on, vars, panelVars, radioVars>>
    \/ on = "radio" /\ Radio!Next
       /\ UNCHANGED <<on, vars, panelVars, enrolVars>>

MCSpec == MCInit /\ [][MCNext]_allVars

(* Each component under the fairness of its module, while it is the one    *)
(* that runs.                                                               *)
AlarmsFair ==
    /\ on = "alarms"
    /\ \A e \in Engines : /\ SF_vars(on = "alarms" /\ TelemToBoth(e))
                          /\ WF_vars(on = "alarms" /\ alarmer_handle_silence(e))
    /\ WF_vars(on = "alarms" /\ HelmTick) /\ WF_vars(on = "alarms" /\ SendSilence)

PanelFair ==
    /\ on = "panel"
    /\ WF_panelVars(on = "panel" /\ Panel!Tick)
    /\ WF_panelVars(on = "panel" /\ Panel!PhaseOver)
    /\ WF_panelVars(on = "panel" /\ Panel!CatchOver)
    /\ SF_panelVars(on = "panel" /\ Panel!SendIgnition)

EnrolFair ==
    /\ on = "enrol"
    /\ \A b \in Boards : SF_enrolVars(on = "enrol" /\ Enrol!Hear(b))
    /\ \A c \in {"loop"} :
       /\ WF_enrolVars(on = "enrol" /\ Enrol!Claim(c))
       /\ WF_enrolVars(on = "enrol" /\ Enrol!Store(c))
       /\ WF_enrolVars(on = "enrol" /\ Enrol!Send(c))
       /\ \A b \in Boards :
            /\ SF_enrolVars(on = "enrol" /\ Enrol!Scan(c, b))
            /\ SF_enrolVars(on = "enrol" /\ work[c].step = "idle" /\ Enrol!Request(b))

RadioFair ==
    /\ on = "radio"
    /\ WF_radioVars(on = "radio" /\ Radio!Upgrade)
    /\ \A n \in Radio!Nodes :
        /\ WF_radioVars(on = "radio" /\ Radio!Lost(n))
        /\ WF_radioVars(on = "radio" /\ Radio!Found(n))
        /\ WF_radioVars(on = "radio" /\ (\E a \in BOOLEAN : Radio!HelloLost(n) \/ Radio!HelloHeard(n, a)))
        /\ SF_radioVars(on = "radio" /\ Radio!HelloHeard(n, TRUE))
        /\ SF_radioVars(on = "radio" /\ Radio!Addressed(n))
        /\ SF_radioVars(on = "radio" /\ Radio!FrameHeard(n))
    /\ \A b \in {"board"} : WF_radioVars(on = "radio" /\ Radio!WiredFrame(b))

-----------------------------------------------------------------------------
(* Every board ends up enrolled, once the restarts are over.                *)
EveryBoardEnrolls == EnrolFair => Enrol!EveryBoardEnrolls

(* A board that lost the HELM finds it again, whatever channel it is on, and *)
(* what the HELM orders then reaches it, except where one of them restarted  *)
(* and the other missed more than Fresh of its first frames.                 *)
RadioRecovers ==
    /\ []Radio!TypeOK
    /\ RadioFair => Radio!ReunitedOrRefused /\ Radio!CommandsArrive

(* Every autostart run ends, started or given up, and the board's ignition  *)
(* comes to follow the panel's, whatever frames are lost.                   *)
PanelSettles == PanelFair => Panel!AutostartEnds /\ Panel!IgnitionSettles

(* A lasting alarm is heard at the alarmer and shown at the HELM.           *)
LastingAlarmReaches == AlarmsFair => LastingAlarmIsHeard /\ LastingAlarmIsShown

===============================================================================
