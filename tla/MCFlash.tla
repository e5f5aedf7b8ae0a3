------------------------------- MODULE MCFlash --------------------------------
(*****************************************************************************)
(* What the HELM keeps in flash: the enrolment table, with three boards for  *)
(* two engine slots, and the settings the wizard and the PIN pad write. The  *)
(* components share no state: one run checks them side by side, each on its  *)
(* own.                                                                      *)
(*****************************************************************************)
EXTENDS Enrollment, HelmScreen, TLC
CONSTANTS e1, e2, e3

VARIABLE on   \* the component that runs

MCKinds == {"engine", "alarmer"}
MCKindOf == [b \in Boards |-> "engine"]
TwoEngineSlots == [k \in MCKinds |-> IF k = "engine" THEN 2 ELSE 1]
EngineBoards == Permutations({e1, e2, e3})

allVars == <<on, vars, screenVars>>

(* What does not run waits in one of its initial states.                  *)
MCInit ==
    /\ on \in {"enrol", "screen"}
    /\ Init
    /\ ScreenInit

MCNext ==
    \/ on = "enrol" /\ Next
       /\ UNCHANGED <<on, screenVars>>
    \/ on = "screen" /\ ScreenNext
       /\ UNCHANGED <<on, vars>>
    \/ on = "screen" /\ UNCHANGED allVars   \* may stop

MCSpec == MCInit /\ [][MCNext]_allVars

===============================================================================
