----------------------------- MODULE SonarSetup -----------------------------
(***************************************************************************)
(* How the fish finder's screen (FishFinderProBluetoothCYD) is set up: its *)
(* modes, the touch screen's calibration, the network picker and keyboard, *)
(* the update screen, the TOBE libraries' web pages, serial commands and   *)
(* setup mode, and what each keeps in flash, where power may fail between  *)
(* any two writes.  Setup mode and the two modes of the screen are one     *)
(* boot each: every change of mode is a restart.                           *)
(*                                                                         *)
(* A network's password is the network's own number, so saved name and     *)
(* password belong together when they are equal.                           *)
(***************************************************************************)
EXTENDS Naturals

CONSTANTS
    Nets,       \* the networks somebody may try, numbered from 1
    MaxCuts     \* bound: power failures

ASSUME NetsAssumption == Nets \subseteq Nat \ {0} /\ MaxCuts \in Nat

Nobody == 0

VARIABLES
    flash,      \* NVS: [wifi, ssid, pass, webmode, cal, rot]
    where,      \* the screen or step the board is in
    going,      \* after a calibration: where to
    chosen,     \* the network name given to the keyboard or the form
    secret,     \* the password that came with it
    listed,     \* the networks on the picker's list
    joined,     \* the network the radio is on, or Nobody
    info,       \* what the last check said, the screen's (s_info) and the page's (s_lastCheck)
    newer,      \* the manifest lists a build newer than the one running
    inRange,    \* the networks in range
    asked,      \* ghost: setup mode was asked for and has not run since
    surprised,  \* ghost: setup mode ran without being asked for
    cuts

entry == <<going, chosen, secret, listed>>
around == <<newer, inRange>>
ghosts == <<asked, surprised>>
setupVars == <<flash, where, entry, joined, info, around, ghosts, cuts>>

Rotations == {"upright", "turned"}
Unchecked == [who \in {"screen", "page"} |-> "unchecked"]

SetupTypeOK ==
    /\ flash \in [wifi : BOOLEAN, ssid : Nets \cup {Nobody}, pass : Nets \cup {Nobody},
                  webmode : BOOLEAN, cal : {"none", "part"} \cup Rotations, rot : Rotations]
    /\ where \in {"boot", "calibrate", "store", "sonar", "join", "picker", "phone", "name",
                  "password", "check", "screen", "setup join", "setup", "save ssid",
                  "save pass", "turned"}
    /\ going \in {"sonar", "join"} /\ chosen \in Nets \cup {Nobody}
    /\ secret \in Nets \cup {Nobody} /\ joined \in Nets \cup {Nobody}
    /\ info \in [{"screen", "page"} -> {"unchecked", "none", "newer"}] /\ newer \in BOOLEAN
    /\ inRange \subseteq Nets /\ listed \subseteq Nets /\ asked \in BOOLEAN /\ surprised \in BOOLEAN /\ cuts \in 0..MaxCuts

(* What a restart, asked for or not, leaves.                                *)
Restarted ==
    /\ where' = "boot" /\ going' = "sonar" /\ chosen' = Nobody /\ secret' = Nobody
    /\ listed' = {} /\ joined' = Nobody /\ info' = Unchecked

SetupInit ==
    /\ flash = [wifi |-> FALSE, ssid |-> Nobody, pass |-> Nobody, webmode |-> FALSE,
                cal |-> "none", rot |-> "upright"]
    /\ where = "boot" /\ going = "sonar" /\ chosen = Nobody /\ secret = Nobody
    /\ listed = {} /\ joined = Nobody /\ info = Unchecked
    /\ newer \in BOOLEAN /\ inRange \in SUBSET Nets
    /\ asked = FALSE /\ surprised = FALSE /\ cuts = 0

-----------------------------------------------------------------------------
(* setup(): the request for setup mode is taken back before it is followed. *)
(* The other modes read the touch screen, and calibrate it the first time.  *)
SetupKeepingRequest ==
    /\ where = "boot" /\ flash.webmode
    /\ where' = "setup join"
    /\ surprised' = (surprised \/ ~asked) /\ asked' = FALSE
    /\ UNCHANGED <<flash, entry, joined, info, around, cuts>>

Setup ==
    /\ where = "boot" /\ flash.webmode
    /\ flash' = [flash EXCEPT !.webmode = FALSE]
    /\ where' = "setup join"
    /\ surprised' = (surprised \/ ~asked) /\ asked' = FALSE
    /\ UNCHANGED <<entry, joined, info, around, cuts>>

Begin ==
    /\ where = "boot" /\ ~flash.webmode
    /\ going' = IF flash.wifi THEN "join" ELSE "sonar"
    /\ where' = IF flash.cal = "none" THEN "calibrate" ELSE going'
    /\ UNCHANGED <<flash, chosen, secret, listed, joined, info, around, ghosts, cuts>>

(* runCalibration(): two crosshairs tapped, then four values stored one by  *)
(* one; the first of them says that there is a calibration.                 *)
Calibrate ==
    /\ where = "calibrate" /\ where' = "store"
    /\ flash' = [flash EXCEPT !.cal = "part"]
    /\ UNCHANGED <<entry, joined, info, around, ghosts, cuts>>

Calibrated ==
    /\ where = "store" /\ where' = going
    /\ flash' = [flash EXCEPT !.cal = flash.rot]
    /\ UNCHANGED <<entry, joined, info, around, ghosts, cuts>>

(* A tap lands where the finger is when the calibration is whole and was    *)
(* made for the way the picture is turned.                                  *)
TapsLand == flash.cal = flash.rot

-----------------------------------------------------------------------------
(* joinSaved() gives up after 15 s; startAp() and the picker follow on the  *)
(* screen, startAp() alone in setup mode.                                   *)
CanJoin == flash.ssid \in inRange /\ flash.pass = flash.ssid

Join ==
    /\ where \in {"join", "setup join"} /\ CanJoin
    /\ joined' = flash.ssid
    /\ where' = IF where = "join" THEN "check" ELSE "setup"
    /\ UNCHANGED <<flash, entry, info, around, ghosts, cuts>>

RestartsInstead ==
    /\ where \in {"join", "setup join"} /\ where' = "boot"
    /\ UNCHANGED <<flash, entry, joined, info, around, ghosts, cuts>>

JoinFails ==
    /\ where \in {"join", "setup join"}
    /\ where' = IF where = "join" THEN "picker" ELSE "setup"
    /\ listed' = IF where = "join" THEN inRange ELSE {}
    /\ UNCHANGED <<flash, going, chosen, secret, joined, info, around, ghosts, cuts>>

(* runCheck(): a check that fails leaves "up to date" on the screen.        *)
Checked(who) ==
    \/ info' = [info EXCEPT ![who] = IF newer THEN "newer" ELSE "none"]
    \/ info' = [info EXCEPT ![who] = "none"]

Check ==
    /\ where = "check" /\ where' = "screen" /\ Checked("screen")
    /\ UNCHANGED <<flash, entry, joined, around, ghosts, cuts>>

-----------------------------------------------------------------------------
(* The screen.  Sonar mode has one way out of it.                           *)
SwitchTo(wifi) ==
    /\ flash' = [flash EXCEPT !.wifi = wifi] /\ Restarted

TapCheckUpdate ==
    /\ where = "sonar" /\ TapsLand /\ SwitchTo(TRUE)
    /\ UNCHANGED <<around, ghosts, cuts>>

TapBackToSonar ==
    /\ where \in {"screen", "picker"} /\ TapsLand /\ SwitchTo(FALSE)
    /\ UNCHANGED <<around, ghosts, cuts>>

(* The picker: a network of the list, a name typed, or the phone.           *)
TapNetwork(n) ==
    /\ where = "picker" /\ TapsLand /\ n \in listed
    /\ where' = "password" /\ chosen' = n
    /\ UNCHANGED <<flash, going, secret, listed, joined, info, around, ghosts, cuts>>

TapManual ==
    /\ where = "picker" /\ TapsLand /\ where' = "name"
    /\ UNCHANGED <<flash, entry, joined, info, around, ghosts, cuts>>

TapPhone ==
    /\ \/ where = "picker" /\ where' = "phone"
       \/ where = "phone" /\ where' = "picker"
    /\ TapsLand
    /\ UNCHANGED <<flash, entry, joined, info, around, ghosts, cuts>>

(* The keyboard ends with Done only, its text as typed: no name goes back to*)
(* the picker, and whatever the password, it is saved.                      *)
TypeName(n) ==
    /\ where = "name" /\ TapsLand
    /\ chosen' = n /\ where' = IF n = Nobody THEN "picker" ELSE "password"
    /\ UNCHANGED <<flash, going, secret, listed, joined, info, around, ghosts, cuts>>

TypePassword(p) ==
    /\ where = "password" /\ TapsLand
    /\ secret' = p /\ where' = "save ssid"
    /\ UNCHANGED <<flash, going, chosen, listed, joined, info, around, ghosts, cuts>>

(* apply(): a failed download leaves the screen as it is.                   *)
Install ==
    \/ newer' = FALSE /\ Restarted /\ UNCHANGED inRange
    \/ UNCHANGED <<where, entry, joined, info, around>>

TapDoOta ==
    /\ where = "screen" /\ info.screen = "newer" /\ TapsLand /\ Install
    /\ UNCHANGED <<flash, ghosts, cuts>>

TapForgetWifi ==
    /\ where = "screen" /\ TapsLand
    /\ flash' = [flash EXCEPT !.ssid = Nobody, !.pass = Nobody] /\ Restarted
    /\ UNCHANGED <<around, ghosts, cuts>>

-----------------------------------------------------------------------------
(* save(): the name, then the password, then the restart.                   *)
SaveSsid ==
    /\ where = "save ssid" /\ where' = "save pass"
    /\ flash' = [flash EXCEPT !.ssid = chosen]
    /\ UNCHANGED <<entry, joined, info, around, ghosts, cuts>>

SavePass ==
    /\ where = "save pass"
    /\ flash' = [flash EXCEPT !.pass = secret] /\ Restarted
    /\ UNCHANGED <<around, ghosts, cuts>>

(* The web pages: served by the picker, the phone's instructions, the update*)
(* screen and setup mode, not while the keyboard is up.                     *)
Served == where \in {"picker", "phone", "screen", "setup"}

(* The command line is read in the loop and in setup mode: not by a picker  *)
(* or a keyboard, which setup() runs.                                       *)
Listening == where \in {"sonar", "screen", "setup"}

(* A network given with its password by the page or by WIFI.                *)
Given(n, p) ==
    /\ chosen' = n /\ secret' = p /\ where' = "save ssid"
    /\ UNCHANGED <<flash, going, listed, joined, info, around, ghosts, cuts>>

WebWifi(n, p) == Served /\ Given(n, p)
CmdWifi(n, p) == Listening /\ Given(n, p)
GiveNetwork(n, p) == WebWifi(n, p) \/ CmdWifi(n, p)

WebCheck ==
    /\ Served /\ joined # Nobody /\ Checked("page")
    /\ UNCHANGED <<flash, where, entry, joined, around, ghosts, cuts>>

WebApply ==
    /\ Served /\ info.page = "newer" /\ Install
    /\ UNCHANGED <<flash, ghosts, cuts>>

(* An upload, REBOOT, WIFICLEAR, MODE.                                      *)
SetupRestart ==
    /\ Served \/ Listening
    /\ Restarted
    /\ flash' \in {flash, [flash EXCEPT !.ssid = Nobody, !.pass = Nobody],
                   [flash EXCEPT !.wifi = TRUE], [flash EXCEPT !.wifi = FALSE]}
    /\ UNCHANGED <<around, ghosts, cuts>>

CmdUpdate ==
    /\ where = "screen" /\ newer /\ Install
    /\ UNCHANGED <<flash, ghosts, cuts>>

Webmode ==
    /\ Listening
    /\ flash' = [flash EXCEPT !.webmode = TRUE] /\ Restarted
    /\ asked' = TRUE
    /\ UNCHANGED <<around, surprised, cuts>>

(* Turning the picture, by DISPLAY ROTATE or the page: the setting is stored*)
(* first, the calibration forgotten next, then the board restarts.          *)
Turn ==
    /\ flash' = [flash EXCEPT !.rot = CHOOSE r \in Rotations : r # flash.rot]
    /\ where' = "turned"
    /\ UNCHANGED <<entry, joined, info, around, ghosts, cuts>>

CmdDisplay == Listening /\ Turn
WebDisplay == Served /\ Turn

ForgetCalibration ==
    /\ where = "turned"
    /\ flash' = [flash EXCEPT !.cal = "none"] /\ Restarted
    /\ UNCHANGED <<around, ghosts, cuts>>

(* Setup mode ends by itself.                                               *)
TimeIsUp ==
    /\ where = "setup" /\ Restarted
    /\ UNCHANGED <<flash, around, ghosts, cuts>>

-----------------------------------------------------------------------------
PowerCut ==
    /\ cuts < MaxCuts /\ cuts' = cuts + 1 /\ Restarted
    /\ UNCHANGED <<flash, around, ghosts>>

Outside ==
    /\ \/ \E n \in Nets : inRange' = (inRange \ {n}) \cup ({n} \ inRange) /\ UNCHANGED newer
       \/ ~newer /\ newer' = TRUE /\ UNCHANGED inRange
    /\ UNCHANGED <<flash, where, entry, joined, info, ghosts, cuts>>

Board ==
    \/ Setup \/ Begin \/ Calibrated \/ Join \/ JoinFails \/ Check
    \/ SaveSsid \/ SavePass \/ ForgetCalibration

User ==
    \/ Calibrate \/ TapCheckUpdate \/ TapBackToSonar \/ TapManual \/ TapPhone \/ TapDoOta
    \/ TapForgetWifi \/ WebCheck \/ WebApply \/ SetupRestart \/ CmdUpdate \/ Webmode
    \/ CmdDisplay \/ WebDisplay
    \/ \E n \in Nets : TapNetwork(n)
    \/ \E n \in Nets \cup {Nobody} : TypeName(n) \/ TypePassword(n)
    \/ \E n \in Nets, p \in Nets \cup {Nobody} : GiveNetwork(n, p)

SetupNext == Board \/ TimeIsUp \/ User \/ PowerCut \/ Outside

SetupSpec == SetupInit /\ [][SetupNext]_setupVars

(* The board's own steps come; a join that can work does now and then.  Of  *)
(* the user only this: a crosshair is tapped, a keyboard left, and now and  *)
(* then somebody who has the board before him asks for setup mode, or gives *)
(* it a network's name and password.                                        *)
LeaveKeyboard == \E n \in Nets \cup {Nobody} : TypeName(n) \/ TypePassword(n)
SetupFairness ==
    /\ WF_setupVars(Board) /\ WF_setupVars(TimeIsUp) /\ SF_setupVars(Join)
    /\ WF_setupVars(Calibrate) /\ WF_setupVars(LeaveKeyboard)
    /\ SF_setupVars(Webmode) /\ \A n \in Nets : SF_setupVars(GiveNetwork(n, n))
SetupFairSpec == SetupSpec /\ SetupFairness

-----------------------------------------------------------------------------
(* TobeWifi.h: "so the board can always be reached".  Whatever was tapped,  *)
(* typed and cut short before, a user who from some time on only tries to   *)
(* give the board a network that stays in range gets it onto that network.  *)
OnlyTries(n) ==
    Board \/ TimeIsUp \/ Calibrate \/ LeaveKeyboard \/ Webmode \/ GiveNetwork(n, n) \/ Outside
NetworkReached ==
    \A n \in Nets : <>[](n \in inRange) /\ <>[][OnlyTries(n)]_setupVars => []<>(joined = n)

(* Setup mode runs once for each time it is asked for: a board that loses   *)
(* power in it starts as what it is for.                                    *)
SetupWhenAsked == ~surprised

=============================================================================
