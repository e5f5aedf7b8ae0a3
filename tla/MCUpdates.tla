------------------------------ MODULE MCUpdates -------------------------------
(*****************************************************************************)
(* What is renewed while it is used: the firmware of the fleet, the paper    *)
(* display's program, and the paper display's connection. The components     *)
(* share no state: one run checks them side by side, each on its own.        *)
(*****************************************************************************)
EXTENDS SignalKClient, FleetUpdate, PaperUpdate, TLC
CONSTANTS boat, shed, screen, b1, b2, BrokenImage

VARIABLE on   \* the component that runs

TwoServers == {boat, shed}
OneCaller == {screen}
TwoEngines == {0, 1}
TwoBoards == {b1, b2}
OneEach == (0 :> b1) @@ (1 :> b2)
SecondAlone == {b2}

allVars == <<on, vars, fleetVars, programVars>>

(* The fleet runs in three ways: both boards and two builds, or one board,  *)
(* on the bus or over the radio, and a third build, so that the chunks of   *)
(* two images meet on it.                                                   *)
Fleet == on \in {"both", "wired", "wireless"}
Alone == [wired |-> 0, wireless |-> 1]
FleetOnly ==
    IF on = "both"
    THEN newest'.url <= 2
    ELSE \A e \in Engines : heard'[e] # 0 => e = Alone[on]

(* What does not run waits in one of its initial states.                  *)
MCInit ==
    /\ on \in {"client", "both", "wired", "wireless", "paper"}
    /\ Init /\ (on # "client" => up = {} /\ url = boat)
    /\ FleetInit
    /\ \A b \in Boards : board[b].fw <= (IF on = "both" THEN 2 ELSE 1)
    /\ ProgramInit

MCNext ==
    \/ on = "client" /\ Next
       /\ UNCHANGED <<on, fleetVars, programVars>>
    \/ Fleet /\ FleetNext /\ FleetOnly
       /\ UNCHANGED <<on, vars, programVars>>
    \/ on = "paper" /\ ProgramNext
       /\ UNCHANGED <<on, vars, fleetVars>>

MCSpec == MCInit /\ [][MCNext]_allVars

(* Each component under the fairness of its module, while it is the one    *)
(* that runs.                                                               *)
ClientFair ==
    /\ on = "client"
    /\ WF_vars(on = "client" /\ Run)
    /\ SF_vars(on = "client" /\ Fail)
    /\ \A c \in Callers : WF_vars(on = "client" /\ (Reset(c) \/ Cancel(c)))

FleetFair ==
    /\ Fleet
    /\ WF_fleetVars(Fleet /\ Watch)
    /\ WF_fleetVars(Fleet /\ HelmUpdates)
    /\ WF_fleetVars(Fleet /\ Timeout)

ProgramFair ==
    /\ on = "paper"
    /\ WF_programVars(on = "paper" /\ Begin("auto"))
    /\ \A t \in Updaters : WF_programVars(on = "paper" /\ ApplyStep(t))
    /\ WF_programVars(on = "paper" /\ RestartProgram)
    /\ WF_programVars(on = "paper" /\ Dies)
    /\ WF_programVars(on = "paper" /\ Writeback)
    /\ WF_programVars(on = "paper" /\ Launcher)
    /\ WF_programVars(on = "paper" /\ Age)

-----------------------------------------------------------------------------
(* The invariants and the other action properties are the components' own.  *)

(* A server that stays wanted and up is connected to, again and again.      *)
Reconnects == ClientFair => Connects

(* Update All comes to an end, whatever the boards do.                      *)
UpdateAllEnds == FleetFair => ua.active ~> ~ua.active

(* A release that dies on every start is rolled back, a good one is in the  *)
(* end the one that runs.                                                   *)
ReleasesSettle == ProgramFair => ComesBack /\ UpToDate

===============================================================================
