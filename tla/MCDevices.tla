------------------------------ MODULE MCDevices -------------------------------
(*****************************************************************************)
(* Devices and parts of devices that share no state, each small enough to be *)
(* explored whole: one run checks them one by one.                           *)
(*****************************************************************************)
EXTENDS PaperSettings, SeaTalkBridge, SonarDisplay, CommandLine, ReceiveLog,
        ConsoleLog

VARIABLE on   \* the component that runs

(* The matrices a person may save: nothing, both ways between SeaTalk and   *)
(* CAN, everything onto SeaTalk, everything.                                *)
SomeMatrices == {{}, {<<"seatalk", "can">>, <<"can", "seatalk">>},
                 {p \in Pairs : p[2] = "seatalk"}, Pairs}

(* A secret command and a plain one it begins.                              *)
Commands == {<<"k">>, <<"k", "k">>}
SecretOnes == {<<"k">>}

(* What the tasks print: a word, a line's end, a bare LF in and at the end. *)
Printed == {<<"x">>, <<"CR", "LF">>, <<"x", "LF">>, <<"LF", "LF">>}

allVars == <<on, settingsVars, bridgeVars, cydVars, lineVars, logVars, consoleVars>>

(* Failing saves are looked at apart from overlapping changes, after which   *)
(* nothing is asked of the file, and from the demo and no-power mode, which  *)
(* save nothing.                                                             *)
FailedApart == lastSave'.failed => ~mixed' /\ ~app'.demo /\ ~app'.noPower

(* What does not run waits in one of its initial states.                  *)
MCInit ==
    /\ on \in {"paper", "bridge", "sonar", "line", "log", "console"}
    /\ SettingsInit
    /\ BridgeInit
    /\ CydInit
    /\ LineInit
    /\ LogInit
    /\ ConsoleInit

MCNext ==
    \/ on = "paper" /\ SettingsNext /\ FailedApart
       /\ UNCHANGED <<on, bridgeVars, cydVars, lineVars, logVars, consoleVars>>
    \/ on = "bridge" /\ BridgeNext
       /\ UNCHANGED <<on, settingsVars, cydVars, lineVars, logVars, consoleVars>>
    \/ on = "sonar" /\ CydNext
       /\ UNCHANGED <<on, settingsVars, bridgeVars, lineVars, logVars, consoleVars>>
    \/ on = "line" /\ LineNext
       /\ UNCHANGED <<on, settingsVars, bridgeVars, cydVars, logVars, consoleVars>>
    \/ on = "log" /\ LogNext
       /\ UNCHANGED <<on, settingsVars, bridgeVars, cydVars, lineVars, consoleVars>>
    \/ on = "console" /\ ConsoleNext
       /\ UNCHANGED <<on, settingsVars, bridgeVars, cydVars, lineVars, logVars>>
    \/ on = "log" /\ UNCHANGED allVars   \* may stop

MCSpec == MCInit /\ [][MCNext]_allVars

-----------------------------------------------------------------------------
(* The properties checked are the components' own.                          *)

===============================================================================
