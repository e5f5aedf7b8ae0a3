-------------------------------- MODULE Alarms --------------------------------
(***************************************************************************)
(* An engine's alarms, the HELM that shows them and the alarmer that       *)
(* sounds them.  The engine's telemetry carries the flags to both; MUTE    *)
(* silences the panel at once and asks the main loop for one               *)
(* CMD_ALARM_SILENCE to the engine on the panel.                           *)
(* (EngineControl/engine_display/src/engine_display.ino and                *)
(* EngineControl/can_sim/src/can_sim.ino.)  Every frame may be lost, to    *)
(* each receiver on its own; telemetry keeps its order.                    *)
(***************************************************************************)
EXTENDS Naturals

CONSTANTS Engines,
          Kinds,    \* the alarm conditions the engines have sensors for
          MaxLosses \* bound on how often an engine is not heard for so long
                    \* (ENGINE_LOST_MS) that the HELM or the alarmer gives it up

ASSUME AlarmsAssumption ==
  /\ Engines # {}
  /\ Kinds \subseteq {"temp", "press", "charge", "water"}
  /\ MaxLosses \in Nat

VARIABLES
  cond,      \* the flags each engine computes when it sends telemetry
  sel,       \* HELM: sel_engine
  shown,     \* HELM: eng.temp_alarm, eng.press_alarm
  active,    \* HELM: g_active_alarms
  mask,      \* HELM: silenced_mask
  request,   \* HELM: silence_req
  air,       \* engines whose CMD_ALARM_SILENCE is under way
  present,   \* alarmer: engines heard from in the last ENGINE_LOST_MS
  alarm,     \* alarmer: the flags of the last telemetry it took
  silenced,  \* alarmer: the *_silenced flags
  losses

helm == <<sel, shown, active, mask, request>>
alarmer == <<present, alarm, silenced>>
vars == <<cond, helm, air, alarmer, losses>>

\* The flags can_handle_rx decodes, and the one the HELM adds itself.
Mirrored == {"temp", "press"}
Overrev == "overrev"
NoFlags == [e \in Engines |-> {}]
PerEngine == [Engines -> SUBSET Kinds]

TypeOK ==
  /\ cond \in PerEngine
  /\ sel \in Engines
  /\ shown \subseteq Kinds \cap Mirrored
  /\ active \subseteq (Kinds \cap Mirrored) \cup {Overrev}
  /\ mask \subseteq (Kinds \cap Mirrored) \cup {Overrev}
  /\ request \in BOOLEAN
  /\ air \subseteq Engines
  /\ present \subseteq Engines
  /\ alarm \in PerEngine /\ silenced \in PerEngine
  /\ losses \in 0 .. MaxLosses

Init ==
  /\ cond = NoFlags
  /\ sel \in Engines
  /\ shown = {} /\ active = {} /\ mask = {} /\ request = FALSE
  /\ air = {}
  /\ present = {} /\ alarm = NoFlags /\ silenced = NoFlags
  /\ losses = 0

-----------------------------------------------------------------------------
\* A condition comes or goes at an engine.
Raise(e, k) ==
  /\ k \notin cond[e]
  /\ cond' = [cond EXCEPT ![e] = @ \cup {k}]
  /\ UNCHANGED <<helm, air, alarmer, losses>>

Clear(e, k) ==
  /\ k \in cond[e]
  /\ cond' = [cond EXCEPT ![e] = @ \ {k}]
  /\ UNCHANGED <<helm, air, alarmer, losses>>

\* Mutant of HelmTelem: the pressure flag alone is decoded.
HelmTelemPressOnly(e) ==
  shown' = IF e = sel THEN cond[e] \cap {"press"} ELSE shown

\* can_handle_rx on the HELM, TELEM.
HelmTelem(e) == shown' = IF e = sel THEN cond[e] \cap Mirrored ELSE shown

\* alarmer_handle_telem: a condition that is over is re-armed.
alarmer_handle_telem(e) ==
  /\ present' = present \cup {e}
  /\ silenced' = [silenced EXCEPT ![e] = @ \cap cond[e]]
  /\ alarm' = [alarm EXCEPT ![e] = cond[e]]

\* sim_engine_send_telem: one frame, and who takes it; one that nobody takes
\* changes nothing.
TelemToBoth(e) ==
  /\ HelmTelem(e) /\ alarmer_handle_telem(e)
  /\ UNCHANGED <<cond, sel, active, mask, request, air, losses>>

TelemToHelm(e) ==
  /\ HelmTelem(e)
  /\ UNCHANGED <<cond, sel, active, mask, request, air, alarmer, losses>>

TelemToAlarmer(e) ==
  /\ alarmer_handle_telem(e)
  /\ UNCHANGED <<cond, helm, air, losses>>

\* update_engine_state: what is over is re-armed.  The overrev alarm is the
\* HELM's own, from the rpm it shows.
HelmTick ==
  /\ \E over \in SUBSET {Overrev} : active' = shown \cup over
  /\ mask' = mask \cap active'
  /\ UNCHANGED <<cond, sel, shown, request, air, alarmer, losses>>

\* mute_cb: the button is there while an alarm is active.
Mute ==
  /\ active # {}
  /\ mask' = mask \cup active
  /\ request' = TRUE
  /\ UNCHANGED <<cond, sel, shown, active, air, alarmer, losses>>

\* can_send_commands: one frame, to the engine on the panel by then.
SendSilence ==
  /\ request
  /\ request' = FALSE
  /\ air' = air \cup {sel}
  /\ UNCHANGED <<cond, sel, shown, active, mask, alarmer, losses>>

\* engine_pick_cb, or update_engine_state when the engine on the panel is gone.
Select(e) ==
  /\ e # sel
  /\ sel' = e
  /\ shown' = {} /\ mask' = {}
  /\ UNCHANGED <<cond, active, request, air, alarmer, losses>>

\* engine_ageout_tick, for the engine on the panel.
AgeOut ==
  /\ losses < MaxLosses
  /\ losses' = losses + 1
  /\ shown' = {} /\ mask' = {}
  /\ UNCHANGED <<cond, sel, active, request, air, alarmer>>

\* Mutant of alarmer_handle_silence: every condition is silenced.
SilenceEverything(e) ==
  /\ e \in air
  /\ air' = air \ {e}
  /\ silenced' = [silenced EXCEPT ![e] = Kinds]
  /\ UNCHANGED <<cond, helm, present, alarm, losses>>

\* alarmer_handle_silence.
alarmer_handle_silence(e) ==
  /\ e \in air
  /\ air' = air \ {e}
  /\ silenced' = [silenced EXCEPT ![e] = @ \cup alarm[e]]
  /\ UNCHANGED <<cond, helm, present, alarm, losses>>

SilenceLost(e) ==
  /\ e \in air
  /\ air' = air \ {e}
  /\ UNCHANGED <<cond, helm, alarmer, losses>>

\* alarmer_should_sound passes over an engine it has not heard for a while.
AlarmerLoses(e) ==
  /\ losses < MaxLosses
  /\ losses' = losses + 1
  /\ e \in present
  /\ present' = present \ {e}
  /\ UNCHANGED <<cond, helm, air, alarm, silenced>>

Next ==
  \/ \E e \in Engines :
       \/ \E k \in Kinds : Raise(e, k) \/ Clear(e, k)
       \/ TelemToBoth(e) \/ TelemToHelm(e) \/ TelemToAlarmer(e)
       \/ Select(e)
       \/ alarmer_handle_silence(e) \/ SilenceLost(e)
       \/ AlarmerLoses(e)
  \/ HelmTick \/ Mute \/ SendSilence \/ AgeOut

Spec == Init /\ [][Next]_vars

\* Telemetry is sent ten times a second and some of it gets through to each;
\* ui_tick and the loop go round.
Fairness ==
  /\ \A e \in Engines : SF_vars(TelemToBoth(e)) /\ WF_vars(alarmer_handle_silence(e))
  /\ WF_vars(HelmTick) /\ WF_vars(SendSilence)

FairSpec == Spec /\ Fairness

-----------------------------------------------------------------------------
\* alarmer_should_sound, for one condition of one engine.
Sounds(e, k) == e \in present /\ k \in alarm[e] \ silenced[e]

\* Silence lasts no longer than the alarm it is for, on the alarmer as on the
\* panel (whose `shown' is ahead of it until the next ui_tick).
SilenceIsForAnAlarm ==
  /\ \A e \in Engines : silenced[e] \subseteq alarm[e]
  /\ mask \subseteq active

\* A condition that is new in the telemetry the alarmer takes sounds, whatever
\* was silenced before.
NewAlarmSounds ==
  [][\A e \in Engines : \A k \in alarm'[e] \ alarm[e] : Sounds(e, k)']_vars

\* An alarm that lasts sounds in the end, or is silenced, and stays so.
LastingAlarmIsHeard ==
  \A e \in Engines, k \in Kinds :
    <>[](k \in cond[e])
      => <>[](e \in present /\ (Sounds(e, k) \/ k \in silenced[e]))

\* An alarm that lasts, on the engine that stays on the panel, comes up there,
\* and with it the MUTE button: "displays mirror the same rule visually".  The
\* code mirrors two of the four kinds.
LastingAlarmIsShown ==
  \A e \in Engines, k \in Kinds \cap Mirrored :
    <>[](sel = e /\ k \in cond[e]) => []<>(k \in active)
=============================================================================
