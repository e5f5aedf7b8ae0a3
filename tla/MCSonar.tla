------------------------------- MODULE MCSonar --------------------------------
(*****************************************************************************)
(* The fish finder's Bluetooth bridge, the setup of its screen, and the      *)
(* sensor node. The components share no state: one run checks them side by   *)
(* side, each on its own.                                                    *)
(*****************************************************************************)
EXTENDS SonarLink, SonarSetup

VARIABLE on   \* the component that runs
VARIABLES node_flash, ram, node_where, from, done, timer, pressed, since, down, chips,
          found, printed, node_inRange, node_cuts

Node == INSTANCE SensorNode
    WITH flash <- node_flash, where <- node_where, inRange <- node_inRange,
         cuts <- node_cuts, Nets <- {1, 2}, Hold <- 1, Portal <- 2, MaxCuts <- 1

ASSUME Node!SensorAssumption

nodeVars == <<node_flash, ram, node_where, from, done, timer, pressed, since, down,
              chips, found, printed, node_inRange, node_cuts>>
allVars == <<on, linkVars, setupVars, nodeVars>>

(* What does not run waits in one of its initial states.                  *)
MCInit ==
    /\ on \in {"link", "setup", "sensor"}
    /\ LinkInit /\ (on # "link" => near)
    /\ SetupInit /\ (on # "setup" => inRange = {} /\ ~newer)
    /\ Node!Init /\ (on # "sensor" => node_inRange = {} /\ chips = {})

MCNext ==
    \/ on = "link" /\ LinkNext
       /\ UNCHANGED <<on, setupVars, nodeVars>>
    \/ on = "setup" /\ SetupNext
       /\ UNCHANGED <<on, linkVars, nodeVars>>
    \/ on = "sensor" /\ Node!Next
       /\ UNCHANGED <<on, linkVars, setupVars>>
    \/ on = "sensor" /\ UNCHANGED allVars   \* may stop

MCSpec == MCInit /\ [][MCNext]_allVars

(* Each component under the fairness of its module, while it is the one    *)
(* that runs.                                                               *)
LinkFair ==
    /\ on = "link"
    /\ WF_linkVars(on = "link" /\ Loop)
    /\ WF_linkVars(on = "link" /\ Host)
    /\ SF_linkVars(on = "link" /\ Found)
    /\ SF_linkVars(on = "link" /\ Connected)
    /\ SF_linkVars(on = "link" /\ Subscribe)
    /\ WF_linkVars(on = "link" /\ ~near /\ Drop)

SetupFair ==
    /\ on = "setup"
    /\ WF_setupVars(on = "setup" /\ Board)
    /\ WF_setupVars(on = "setup" /\ TimeIsUp)
    /\ SF_setupVars(on = "setup" /\ Join)
    /\ WF_setupVars(on = "setup" /\ Calibrate)
    /\ WF_setupVars(on = "setup" /\ LeaveKeyboard)
    /\ SF_setupVars(on = "setup" /\ Webmode)
    /\ \A n \in Nets : SF_setupVars(on = "setup" /\ GiveNetwork(n, n))

NodeFair ==
    /\ on = "sensor"
    /\ WF_nodeVars(on = "sensor" /\ Node!Node)
    /\ WF_nodeVars(on = "sensor" /\ Node!Tick)
    /\ SF_nodeVars(on = "sensor" /\ Node!WifiSetup)

-----------------------------------------------------------------------------
(* WholeFrames and SetupWhenAsked are the components' own.                  *)

(* A sonar that stays in range of a started bridge is connected in the end, *)
(* and the last setting made is the one it works with.                      *)
SonarFollows == LinkFair => Recovers /\ SettingsArrive

(* A user who only tries to get the screen onto a network that stays in     *)
(* range gets it there, whatever was tapped and cut short before.           *)
(* And a sensor node whose stored network answers gets to its sensors.      *)
Joinable ==
    /\ SetupFair => NetworkReached
    /\ []Node!TypeOK
    /\ NodeFair => Node!Reports

===============================================================================
