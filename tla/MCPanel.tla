------------------------------- MODULE MCPanel --------------------------------
(*****************************************************************************)
(* What the HELM's panel and its loop do to each other: the engines'         *)
(* controls, with two engines, one of which can be stopped electrically; the *)
(* check for updates; and what holds START, from a finger on either display  *)
(* to the starter. The components share no state: one run checks them side   *)
(* by side, each on its own.                                                 *)
(*****************************************************************************)
EXTENDS HelmPanel, UpdateCheck, DeadMan

VARIABLE on   \* the component that runs

TwoEngines == {0, 1}
SecondStops == {1}

allVars == <<on, vars, checkVars, holdVars>>

(* What does not run waits in one of its initial states.                  *)
MCInit ==
    /\ on \in {"panel", "check", "start"}
    /\ Init /\ (on # "panel" => sel = 0)
    /\ CheckInit /\ HoldInit

MCNext ==
    \/ on = "panel" /\ Next
       /\ UNCHANGED <<on, checkVars, holdVars>>
    \/ on = "check" /\ CheckNext
       /\ UNCHANGED <<on, vars, holdVars>>
    \/ on = "start" /\ HoldNext
       /\ UNCHANGED <<on, vars, checkVars>>
    \/ on = "check" /\ UNCHANGED allVars   \* may stop

MCSpec == MCInit /\ [][MCNext]_allVars

===============================================================================
