------------------------------ MODULE HelmScreen ------------------------------
(***************************************************************************)
(* What a hand can do to the HELM's settings: the setup wizard, the PIN    *)
(* and the lock, the Settings dialogs and the factory reset.               *)
(*                                                                         *)
(* Every callback runs on the LVGL task and is one step, but the wizard's  *)
(* last, which stores its answers one key at a time: the power may fail    *)
(* between two of them.  Storage itself works (prefs_ok).                  *)
(***************************************************************************)
EXTENDS Integers

CONSTANT Pins       \* PINs of four digits or more

PinAssumption == 0 \notin Pins /\ 1 \notin Pins

NoPin == 0
Short == 1      \* fewer than four digits
Typed == Pins \cup {NoPin, Short}
Role == {"primary", "secondary"}
Windows == {"none", "settings", "engines", "lock", "role", "pin", "wifi", "change", "told"}

VARIABLES
    screen_nvs,        \* in flash: role, pin, ssid, setup_done
    ram,        \* g_display_role, stored_pin
    pend,       \* pending_role, pending_pin, pending_ssid
    win,        \* settings_win
    confirm,    \* confirm_win
    steps,      \* autostart_settings_win
    entry,      \* the PIN pad: its phase, what was typed first
    restarting, \* arm_restart
    typed,      \* history: the pad's entries since it was built, and the last of them
    meant       \* history: what was last set out to be stored

disk == <<screen_nvs, ram, meant>>
pad == <<entry, typed>>
over == <<confirm, steps>>
screenVars == <<disk, pend, win, over, pad, restarting>>

ScreenTypeOK ==
    /\ screen_nvs \in [role : Role, pin : Pins \cup {NoPin}, ssid : BOOLEAN, done : BOOLEAN]
    /\ meant \in [role : Role, pin : Pins \cup {NoPin}, ssid : BOOLEAN, done : BOOLEAN]
    /\ ram \in [role : Role, pin : Pins \cup {NoPin}]
    /\ pend \in [role : Role, pin : Pins \cup {NoPin}, ssid : BOOLEAN]
    /\ win \in Windows /\ confirm \in BOOLEAN /\ steps \in BOOLEAN /\ restarting \in BOOLEAN
    /\ entry \in [phase : 0..2, first : Pins \cup {NoPin}]
    /\ typed \in [all : SUBSET Typed, last : Typed]

-----------------------------------------------------------------------------
(* setup().                                                                  *)

Erased == [role |-> "primary", pin |-> NoPin, ssid |-> FALSE, done |-> FALSE]
NoEntry == [phase |-> 0, first |-> NoPin]
Untyped == [all |-> {}, last |-> NoPin]
NoAnswers == [role |-> "primary", pin |-> NoPin, ssid |-> FALSE]
FirstWindow(s) == IF ~s.done THEN "role"
                  ELSE IF s.pin # NoPin /\ s.role = "primary" THEN "lock" ELSE "none"

\* The display starts from what is in flash, s.
Boot(s) ==
    /\ screen_nvs' = s /\ ram' = [role |-> s.role, pin |-> s.pin]
    /\ pend' = NoAnswers
    /\ win' = FirstWindow(s) /\ confirm' = FALSE /\ steps' = FALSE
    /\ entry' = NoEntry /\ typed' = Untyped /\ restarting' = FALSE

ScreenInit ==
    /\ screen_nvs = Erased /\ ram = [role |-> "primary", pin |-> NoPin] /\ meant = Erased
    /\ pend = NoAnswers
    /\ win = "role" /\ confirm = FALSE /\ steps = FALSE
    /\ entry = NoEntry /\ typed = Untyped /\ restarting = FALSE

\* The restart that was armed, or a power cut.
Restart == Boot(screen_nvs) /\ UNCHANGED meant

-----------------------------------------------------------------------------
(* Settings, engine picker, autostart rows, factory reset.  No hand is       *)
(* quicker than the restart once it is armed.                                *)

Hand == ~restarting

\* settings_cb, engine_picker_cb: on a secondary the cog shows while an engine is on.
Cog ==
    /\ Hand /\ win = "none"
    /\ win' \in {"settings", "engines"}
    /\ UNCHANGED <<disk, pend, over, pad, restarting>>

\* settings_close_cb: Close, Cancel, and the end of engine_pick_cb.  Windows on top
\* of the dialog stay.
SettingsClose ==
    /\ Hand /\ win \in {"settings", "engines", "change", "told"}
    /\ win' = "none"
    /\ UNCHANGED <<disk, pend, over, pad, restarting>>

AutostartSettings ==
    /\ Hand /\ win = "settings" /\ ram.role = "primary" /\ ~confirm
    /\ steps' = ~steps
    /\ UNCHANGED <<disk, pend, win, confirm, pad, restarting>>

ScreenFactoryReset ==
    /\ Hand /\ win = "settings" /\ ~confirm /\ ~steps
    /\ confirm' = TRUE
    /\ UNCHANGED <<disk, pend, win, steps, pad, restarting>>

FactoryResetCancel ==
    /\ Hand /\ confirm
    /\ confirm' = FALSE
    /\ UNCHANGED <<disk, pend, win, steps, pad, restarting>>

FactoryResetDo ==
    /\ Hand /\ confirm
    /\ screen_nvs' = Erased /\ meant' = Erased
    /\ confirm' = FALSE /\ restarting' = TRUE
    /\ win' = IF win = "none" THEN "none" ELSE "told"
    /\ UNCHANGED <<ram, pend, steps, pad>>

-----------------------------------------------------------------------------
(* The PIN.                                                                  *)

\* pin_change_cb, build_pin_change_screen.
KeptEntry == IF entry.phase = 0 /\ ram.pin = NoPin THEN [entry EXCEPT !.phase = 1] ELSE entry
NewEntry == [phase |-> IF ram.pin # NoPin THEN 0 ELSE 1, first |-> NoPin]

PinChange ==
    /\ Hand /\ win = "settings" /\ ram.role = "primary" /\ ~confirm
    /\ win' = "change" /\ entry' = NewEntry /\ typed' = Untyped
    /\ UNCHANGED <<disk, pend, over, restarting>>

Type(v) == typed' = [all |-> typed.all \cup {v}, last |-> v]

StorePin(p) ==
    /\ ram' = [ram EXCEPT !.pin = p] /\ screen_nvs' = [screen_nvs EXCEPT !.pin = p]
    /\ meant' = [meant EXCEPT !.pin = p]
    /\ win' = "told" /\ UNCHANGED entry

\* pin_change_submit: the present PIN, a new one or none, the new one again.
PinChangeSubmit(v) ==
    /\ Hand /\ win = "change" /\ Type(v)
    /\ \/ /\ entry.phase = 0
          /\ entry' = IF v = ram.pin THEN [entry EXCEPT !.phase = 1] ELSE entry
          /\ UNCHANGED <<disk, win>>
       \/ entry.phase = 1 /\ v = NoPin /\ StorePin(NoPin)
       \/ /\ entry.phase = 1 /\ v # NoPin
          /\ entry' = IF v = Short THEN entry ELSE [phase |-> 2, first |-> v]
          /\ UNCHANGED <<disk, win>>
       \/ entry.phase = 2 /\ v = entry.first /\ StorePin(v)
       \/ /\ entry.phase = 2 /\ v # entry.first
          /\ entry' = [phase |-> 1, first |-> NoPin]
          /\ UNCHANGED <<disk, win>>
    /\ UNCHANGED <<pend, over, restarting>>

\* lock_submit.
Unlock(v) ==
    /\ Hand /\ win = "lock"
    /\ win' = IF v = ram.pin THEN "none" ELSE win
    /\ UNCHANGED <<disk, pend, over, pad, restarting>>

-----------------------------------------------------------------------------
(* The setup wizard: role, then PIN and WiFi of a primary.  Answers are kept *)
(* from step to step, the pad is not.                                        *)

\* The WiFi step offers the network in flash when none was typed.
ToStep(w) ==
    /\ win' = w /\ entry' = NoEntry /\ typed' = Untyped
    /\ UNCHANGED <<disk, over, restarting>>
ToWifi(p) == /\ pend' = [pend EXCEPT !.pin = p, !.ssid = @ \/ screen_nvs.ssid]
             /\ ToStep("wifi")

RoleTile(r) ==
    /\ Hand /\ win = "role"
    /\ pend' = [pend EXCEPT !.role = r]
    /\ UNCHANGED <<disk, win, over, pad, restarting>>

RoleNext == Hand /\ win = "role" /\ pend.role = "primary" /\ ToStep("pin") /\ UNCHANGED pend

PinSetupSkip == Hand /\ win = "pin" /\ ToWifi(NoPin)

PinSetupSubmit(v) ==
    /\ Hand /\ win = "pin"
    /\ \/ entry.phase = 0 /\ v = NoPin /\ ToWifi(NoPin)
       \/ /\ entry.phase = 0 /\ v # NoPin /\ Type(v)
          /\ entry' = IF v = Short THEN entry ELSE [phase |-> 1, first |-> v]
          /\ UNCHANGED <<disk, pend, win, over, restarting>>
       \/ entry.phase = 1 /\ v = entry.first /\ ToWifi(v)
       \/ /\ entry.phase = 1 /\ v # entry.first /\ Type(v)
          /\ entry' = NoEntry
          /\ UNCHANGED <<disk, pend, win, over, restarting>>

SetupBack ==
    /\ Hand /\ win \in {"pin", "wifi"}
    /\ ToStep(IF win = "pin" THEN "role" ELSE "pin")
    /\ UNCHANGED pend

\* setup_finish_cb: the keys in the order they are written.
DoneFirst(a, k) == [role |-> IF k > 2 THEN a.role ELSE screen_nvs.role,
                    pin |-> IF k > 3 THEN a.pin ELSE screen_nvs.pin,
                    ssid |-> IF k > 1 THEN a.ssid ELSE screen_nvs.ssid, done |-> k > 0]
Written(a, k) == [role |-> IF k > 1 THEN a.role ELSE screen_nvs.role,
                  pin |-> IF k > 2 THEN a.pin ELSE screen_nvs.pin,
                  ssid |-> IF k > 0 THEN a.ssid ELSE screen_nvs.ssid, done |-> k > 3]

Finish(a) ==
    /\ meant' = [role |-> a.role, pin |-> a.pin, ssid |-> a.ssid, done |-> TRUE]
    /\ \/ /\ screen_nvs' = Written(a, 4)
          /\ restarting' = TRUE /\ pend' = a
          /\ UNCHANGED <<ram, win, over, pad>>
       \/ \E k \in 0..3 : Boot(Written(a, k))

SecondaryNext == Hand /\ win = "role" /\ pend.role = "secondary" /\ Finish(pend)

\* Save & Restart with or without a network's name, Skip.
WifiFinish(ssid) == Hand /\ win = "wifi" /\ Finish([pend EXCEPT !.ssid = ssid])
WifiSkip == Hand /\ win = "wifi" /\ Finish(pend)

-----------------------------------------------------------------------------
ScreenNext ==
    \/ Restart
    \/ Cog \/ SettingsClose \/ AutostartSettings
    \/ ScreenFactoryReset \/ FactoryResetCancel \/ FactoryResetDo
    \/ PinChange \/ \E v \in Typed : PinChangeSubmit(v) \/ Unlock(v) \/ PinSetupSubmit(v)
    \/ \E r \in Role : RoleTile(r)
    \/ RoleNext \/ PinSetupSkip \/ SetupBack \/ SecondaryNext \/ WifiSkip
    \/ \E s \in BOOLEAN : WifiFinish(s)

ScreenSpec == ScreenInit /\ [][ScreenNext]_screenVars

-----------------------------------------------------------------------------
\* A PIN is changed only by one who typed the present one on this very pad, and to
\* one typed twice running: a pad left half way through and opened again (or one
\* filled before a power cut) does not go on from where it was.
PinStep ==
    win = "change" /\ screen_nvs'.pin # screen_nvs.pin =>
        /\ screen_nvs.pin \in typed.all \cup {NoPin}
        /\ screen_nvs'.pin # NoPin => screen_nvs'.pin = typed.last /\ screen_nvs'.pin = typed'.last

PinByHand == [][PinStep]_screenVars

\* A display that thinks itself set up holds all the wizard was told, wherever the
\* power failed while it was being stored.
SetupIsWhole == screen_nvs.done => screen_nvs = meant
=============================================================================
