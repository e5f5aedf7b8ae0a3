----------------------------- MODULE MCOverboard ------------------------------
(*****************************************************************************)
(* The two man-overboard hubs: the one with its own screen, and the tag      *)
(* resolver that tells tags apart. The components share no state: one run    *)
(* checks them side by side, each on its own.                                *)
(*****************************************************************************)
EXTENDS MobScreen, TagFinder
CONSTANTS e1, e2, e3

VARIABLE on   \* the component that runs

allVars == <<on, mobVars, finderVars>>

(* The hub with its screen runs in three ways: with two tags, the settings  *)
(* as delivered and never on WiFi; with one tag, settings that change and   *)
(* the web page, and detection never disabled; and with a tag more than the *)
(* table has slots, where the crew only enrolls and silences.               *)
Screen == on \in {"crew", "settings", "crowd"}
Around == [crew |-> {e1, e2}, settings |-> {e1}, crowd |-> {e1, e2, e3}]
ScreenOnly ==
    /\ \A s \in MobSlots : tag'[s].eid \in Around[on] \cup {NoEid}
    /\ \A e \in Eids \ Around[on] : kept'.enrolled[e] = "no"
    /\ on # "settings" => kept'.set = kept.set /\ ~kept'.ssid
    /\ on # "crew" => off' = 0
    /\ on = "crowd" => alarm'.screen \in Alarm \cup {"list", "confirm"} /\ ~alarm'.forced

(* What does not run waits in one of its initial states.                  *)
MCInit ==
    /\ on \in {"crew", "settings", "crowd", "finder"}
    /\ MobInit
    /\ FinderInit /\ (on # "finder" => clock = <<1, 1>>)

MCNext ==
    \/ Screen /\ MobNext /\ ScreenOnly
       /\ UNCHANGED <<on, finderVars>>
    \/ on = "finder" /\ FinderNext
       /\ UNCHANGED <<on, mobVars>>

MCSpec == MCInit /\ [][MCNext]_allVars

(* Each component under the fairness of its module, while it is the one    *)
(* that runs.                                                               *)
ScreenFair ==
    /\ Screen
    /\ WF_mobVars(Screen /\ (Serve \/ Tick))
    /\ SF_mobVars(Screen /\ Tick)
    /\ WF_mobVars(Screen /\ Watch)
    /\ WF_mobVars(Screen /\ Touch)

FinderFair ==
    /\ on = "finder"
    /\ WF_finderVars(on = "finder" /\ FinderLoop)
    /\ \A t \in Tags \ Absent : SF_finderVars(on = "finder" /\ Hear(t))

-----------------------------------------------------------------------------
(* AlarmHasCause and PressIsReal are the components' own.                   *)

(* A trusted tag that is gone raises an alarm or is replaced, and an alarm   *)
(* nobody answers escalates.                                                *)
AlarmEscalates == ScreenFair => Escalates /\ LostIsRaised

(* Every tag on the air is matched again and again, with one estimate for   *)
(* clocks that differ.                                                      *)
EveryTagFound == FinderFair => TagsFound

===============================================================================
