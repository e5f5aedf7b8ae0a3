---------------------------- MODULE HelmProofs -----------------------------
(***************************************************************************)
(* The HELM's own parts. Its settings, for any set of PINs and however its *)
(* windows are walked through: a display that thinks itself set up holds   *)
(* all it was told, and its PIN changes by hand only. "Check for Updates", *)
(* however often it is asked for and in whatever order the tap, the serial *)
(* line, the loop's tick and ui_tick come: the screen waits only for an    *)
(* answer that is on its way. And the alarms, for any engines, sensors and *)
(* losses: silence never outlives the alarm it is for, so what is new in   *)
(* the telemetry always sounds.                                            *)
(***************************************************************************)
EXTENDS HelmScreen, UpdateCheck, Alarms, TLAPS

USE DEF disk, pad, over, asks

\* What flash may hold, and what the wizard may have been told.
ScreenFlash == [role : Role, pin : Pins \cup {NoPin}, ssid : BOOLEAN, done : BOOLEAN]
ScreenRam == [role : Role, pin : Pins \cup {NoPin}, ssid : BOOLEAN]

-----------------------------------------------------------------------------
(* HelmScreen: types.                                                        *)

\* A boot from what flash holds.
LEMMA BootType ==
  ASSUME NEW s \in ScreenFlash, Boot(s), meant' \in ScreenFlash
  PROVE  ScreenTypeOK'
<1>1. NoAnswers \in ScreenRam /\ NoPin \in Pins \cup {NoPin}
  BY DEF NoAnswers, ScreenRam, Role
<1>2. NoEntry \in [phase : 0..2, first : Pins \cup {NoPin}]
  BY DEF NoEntry
<1>3. Untyped \in [all : SUBSET Typed, last : Typed]
  BY DEF Untyped, Typed
<1>4. FirstWindow(s) \in Windows
  BY DEF FirstWindow, Windows
<1>5. [role |-> s.role, pin |-> s.pin] \in [role : Role, pin : Pins \cup {NoPin}]
  BY DEF ScreenFlash
<1> QED
  BY <1>1, <1>2, <1>3, <1>4, <1>5 DEF Boot, ScreenTypeOK, ScreenFlash, ScreenRam

\* Whatever of the wizard's answers reaches flash, it is settings.
LEMMA FinishType ==
  ASSUME ScreenTypeOK, NEW a \in ScreenRam, Finish(a)
  PROVE  ScreenTypeOK'
<1>1. meant' \in ScreenFlash /\ \A k \in 0..4 : Written(a, k) \in ScreenFlash
  BY DEF Finish, Written, ScreenTypeOK, ScreenRam, ScreenFlash
<1>2. ASSUME NEW k \in 0..3, Boot(Written(a, k)) PROVE ScreenTypeOK'
  BY <1>1, <1>2, BootType
<1>3. CASE screen_nvs' = Written(a, 4) /\ restarting' = TRUE /\ pend' = a
           /\ UNCHANGED <<ram, win, over, pad>>
  BY <1>1, <1>3 DEF ScreenTypeOK, ScreenFlash, ScreenRam
<1> QED
  BY <1>2, <1>3 DEF Finish

\* Moving from one step of the wizard to the next.
LEMMA StepType ==
  ASSUME ScreenTypeOK, NEW w \in Windows, ToStep(w), pend' \in ScreenRam
  PROVE  ScreenTypeOK'
  BY DEF ScreenTypeOK, ToStep, NoEntry, Untyped, Typed, ScreenRam

\* Every step keeps the types.
LEMMA ScreenTypeStep == ScreenTypeOK /\ [ScreenNext]_screenVars => ScreenTypeOK'
<1> SUFFICES ASSUME ScreenTypeOK, [ScreenNext]_screenVars PROVE ScreenTypeOK'
  OBVIOUS
<1>1. CASE Restart
  BY <1>1, BootType DEF Restart, ScreenTypeOK, ScreenFlash
<1>2. CASE Cog \/ SettingsClose \/ AutostartSettings \/ ScreenFactoryReset \/ FactoryResetCancel
  BY <1>2 DEF ScreenTypeOK, Cog, SettingsClose, AutostartSettings, ScreenFactoryReset,
              FactoryResetCancel, Windows
<1>3. CASE FactoryResetDo
  BY <1>3 DEF ScreenTypeOK, FactoryResetDo, Erased, Role, Windows
<1>4. CASE PinChange
  BY <1>4 DEF ScreenTypeOK, PinChange, NewEntry, Untyped, Windows, Typed
<1>5. ASSUME NEW v \in Typed, PinChangeSubmit(v) PROVE ScreenTypeOK'
  <2>1. typed' \in [all : SUBSET Typed, last : Typed]
    BY <1>5 DEF ScreenTypeOK, PinChangeSubmit, Type
  <2>2. ASSUME NEW p \in Pins \cup {NoPin}, StorePin(p),
               UNCHANGED <<pend, over, restarting>>
        PROVE  ScreenTypeOK'
    BY <2>1, <2>2 DEF ScreenTypeOK, StorePin, Windows
  <2>3. CASE UNCHANGED <<disk, win>>
    <3>1. entry' \in [phase : 0..2, first : Pins \cup {NoPin}]
      BY <1>5, <2>3 DEF ScreenTypeOK, PinChangeSubmit, Typed, StorePin
    <3> QED
      BY <1>5, <2>1, <2>3, <3>1 DEF ScreenTypeOK, PinChangeSubmit
  <2> QED
    BY <1>5, <2>2, <2>3 DEF PinChangeSubmit, ScreenTypeOK
<1>6. ASSUME NEW v \in Typed, Unlock(v) PROVE ScreenTypeOK'
  BY <1>6 DEF ScreenTypeOK, Unlock, Windows
<1>7. ASSUME NEW v \in Pins \cup {NoPin}, ToWifi(v) PROVE ScreenTypeOK'
  BY <1>7, StepType DEF ToWifi, ScreenTypeOK, ScreenRam, Windows
<1>8. ASSUME NEW v \in Typed, PinSetupSubmit(v) PROVE ScreenTypeOK'
  <2>1. CASE ToWifi(v) /\ v \in Pins \cup {NoPin}
    BY <1>7, <2>1
  <2>2. CASE Type(v) /\ UNCHANGED <<disk, pend, win, over, restarting>>
    <3>1. typed' \in [all : SUBSET Typed, last : Typed]
      BY <2>2 DEF ScreenTypeOK, Type
    <3>2. entry' \in [phase : 0..2, first : Pins \cup {NoPin}]
      BY <1>8, <2>2 DEF ScreenTypeOK, PinSetupSubmit, Typed, NoEntry, ToWifi, ToStep
    <3> QED
      BY <2>2, <3>1, <3>2 DEF ScreenTypeOK
  <2> QED
    BY <1>8, <2>1, <2>2 DEF PinSetupSubmit, ScreenTypeOK
<1>9. ASSUME NEW r \in Role, RoleTile(r) PROVE ScreenTypeOK'
  BY <1>9 DEF ScreenTypeOK, RoleTile
<1>10. CASE RoleNext \/ SetupBack
  BY <1>10, StepType DEF RoleNext, SetupBack, ScreenTypeOK, ScreenRam, Windows
<1>11. CASE PinSetupSkip
  BY <1>7, <1>11 DEF PinSetupSkip
<1>12. CASE SecondaryNext \/ WifiSkip \/ \E s \in BOOLEAN : WifiFinish(s)
  <2>1. pend \in ScreenRam /\ \A s \in BOOLEAN : [pend EXCEPT !.ssid = s] \in ScreenRam
    BY DEF ScreenTypeOK, ScreenRam
  <2> QED
    BY <1>12, <2>1, FinishType DEF SecondaryNext, WifiSkip, WifiFinish
<1>13. CASE UNCHANGED screenVars
  BY <1>13 DEF ScreenTypeOK, screenVars
<1> QED
  BY <1>1, <1>2, <1>3, <1>4, <1>5, <1>6, <1>8, <1>9, <1>10, <1>11, <1>12, <1>13 DEF ScreenNext

\* They hold at the start.
LEMMA ScreenInitType == ScreenInit => ScreenTypeOK
<1> SUFFICES ASSUME ScreenInit PROVE ScreenTypeOK
  OBVIOUS
<1>1. Erased \in ScreenFlash /\ NoAnswers \in ScreenRam
  BY DEF Erased, NoAnswers, ScreenFlash, ScreenRam, Role
<1>2. NoEntry \in [phase : 0..2, first : Pins \cup {NoPin}]
  BY DEF NoEntry
<1>3. Untyped \in [all : SUBSET Typed, last : Typed]
  BY DEF Untyped, Typed
<1>4. ram \in [role : Role, pin : Pins \cup {NoPin}]
  BY DEF ScreenInit, Role
<1> QED
  BY <1>1, <1>2, <1>3, <1>4 DEF ScreenInit, ScreenTypeOK, ScreenFlash, ScreenRam, Windows

\* The HELM's settings, windows and pad keep their types (setup_finish_cb,
\* pin_change_submit, pin_setup_submit).
THEOREM ScreenTypeCorrect == ScreenSpec => []ScreenTypeOK
  BY ScreenInitType, ScreenTypeStep, PTL DEF ScreenSpec

-----------------------------------------------------------------------------
(* The setup.                                                                *)

\* The wizard's last step is the only one that writes several keys, and
\* "setup_done" is the last of them.
LEMMA FinishWhole ==
  ASSUME ScreenTypeOK, NEW a \in ScreenRam, Finish(a)
  PROVE  SetupIsWhole'
<1>1. CASE screen_nvs' = Written(a, 4)
  <2>1. 4 > 0 /\ 4 > 1 /\ 4 > 2 /\ (4 > 3) = TRUE
    BY SMT
  <2>2. Written(a, 4) = meant'
    BY <2>1, Zenon DEF Finish, Written
  <2> QED
    BY <1>1, <2>2 DEF SetupIsWhole
<1>2. ASSUME NEW k \in 0..3, screen_nvs' = Written(a, k) PROVE SetupIsWhole'
  <2>1. (k > 3) = FALSE
    BY SMT
  <2>2. screen_nvs'.done = FALSE
    BY <1>2, <2>1, Zenon DEF Written
  <2> QED
    BY <2>2 DEF SetupIsWhole
<1> QED
  BY <1>1, <1>2 DEF Finish, Boot

\* Every step keeps the setup whole.
LEMMA SetupStep == ScreenTypeOK /\ SetupIsWhole /\ [ScreenNext]_screenVars => SetupIsWhole'
<1> SUFFICES ASSUME ScreenTypeOK, SetupIsWhole, [ScreenNext]_screenVars PROVE SetupIsWhole'
  OBVIOUS
<1>1. CASE UNCHANGED <<screen_nvs, meant>>
  BY <1>1 DEF SetupIsWhole
<1>2. CASE FactoryResetDo
  BY <1>2 DEF FactoryResetDo, SetupIsWhole
<1>3. ASSUME NEW p, StorePin(p) PROVE SetupIsWhole'
  BY <1>3 DEF StorePin, SetupIsWhole, ScreenTypeOK
<1>4. CASE SecondaryNext \/ WifiSkip \/ \E s \in BOOLEAN : WifiFinish(s)
  <2>1. pend \in ScreenRam /\ \A s \in BOOLEAN : [pend EXCEPT !.ssid = s] \in ScreenRam
    BY DEF ScreenTypeOK, ScreenRam
  <2> QED
    BY <1>4, <2>1, FinishWhole DEF SecondaryNext, WifiSkip, WifiFinish
<1>5. CASE Restart
  BY <1>5, <1>1 DEF Restart, Boot
<1>6. ASSUME NEW v \in Typed, PinChangeSubmit(v) PROVE SetupIsWhole'
  BY <1>1, <1>3, <1>6 DEF PinChangeSubmit
<1> QED
  BY <1>1, <1>2, <1>4, <1>5, <1>6
  DEF ScreenNext, Cog, SettingsClose, AutostartSettings, ScreenFactoryReset, FactoryResetCancel,
      PinChange, Unlock, PinSetupSubmit, RoleTile, RoleNext, PinSetupSkip, SetupBack,
      ToWifi, ToStep, screenVars

\* A display that thinks itself set up holds all the wizard was told, wherever
\* the power failed (setup_finish_cb writes "setup_done" last).
THEOREM SetupHolds == ScreenSpec => []SetupIsWhole
<1>1. ScreenInit => SetupIsWhole
  BY DEF ScreenInit, SetupIsWhole
<1> QED
  BY <1>1, SetupStep, ScreenTypeCorrect, PTL DEF ScreenSpec

-----------------------------------------------------------------------------
(* The PIN.                                                                  *)

\* The PIN the pad compares with is the one in flash but for the moment before a
\* restart; a pad past its first phase has seen it, and one past its second holds
\* what was typed last.
PadInv ==
  /\ ~restarting => ram.pin = screen_nvs.pin
  /\ win = "change" =>
       /\ ~restarting /\ ~confirm
       /\ entry.phase > 0 => screen_nvs.pin \in typed.all \cup {NoPin}
       /\ entry.phase = 2 => typed.last = entry.first

\* The PIN pad at a boot.
LEMMA PadBoot ==
  ASSUME NEW s \in ScreenFlash, Boot(s)
  PROVE  PadInv'
  BY DEF Boot, PadInv, FirstWindow, ScreenFlash

\* Every step keeps what the PIN pad is for.
LEMMA PadStep == ScreenTypeOK /\ PadInv /\ [ScreenNext]_screenVars => PadInv'
<1> SUFFICES ASSUME ScreenTypeOK, PadInv, [ScreenNext]_screenVars PROVE PadInv'
  OBVIOUS
<1> USE DEF PadInv
<1>1. CASE Restart
  BY <1>1, PadBoot DEF Restart, ScreenTypeOK, ScreenFlash
<1>2. CASE Cog \/ SettingsClose \/ AutostartSettings \/ ScreenFactoryReset \/ FactoryResetCancel
  BY <1>2 DEF Cog, SettingsClose, AutostartSettings, ScreenFactoryReset, FactoryResetCancel, Hand
<1>3. CASE FactoryResetDo
  BY <1>3 DEF FactoryResetDo
<1>4. CASE PinChange
  BY <1>4 DEF PinChange, NewEntry, Hand
<1>5. ASSUME NEW v \in Typed, PinChangeSubmit(v) PROVE PadInv'
  <2>1. ~restarting' /\ ~confirm' /\ v \in typed'.all /\ typed.all \subseteq typed'.all
        /\ typed'.last = v
    BY <1>5 DEF PinChangeSubmit, Type, ScreenTypeOK
  <2>2. ASSUME NEW p, StorePin(p) PROVE PadInv'
    BY <2>1, <2>2 DEF StorePin, ScreenTypeOK
  <2>3. CASE UNCHANGED <<disk, win>> /\ entry.phase = 0
    BY <1>5, <2>1, <2>3 DEF PinChangeSubmit, ScreenTypeOK
  <2>4. CASE UNCHANGED <<disk, win>> /\ entry.phase = 1 /\ v # NoPin
             /\ entry' = IF v = Short THEN entry ELSE [phase |-> 2, first |-> v]
    BY <1>5, <2>1, <2>4 DEF PinChangeSubmit, ScreenTypeOK
  <2>5. CASE UNCHANGED <<disk, win>> /\ entry.phase = 2
             /\ entry' = [phase |-> 1, first |-> NoPin]
    BY <1>5, <2>1, <2>5 DEF PinChangeSubmit, ScreenTypeOK
  <2> QED
    BY <1>5, <2>2, <2>3, <2>4, <2>5 DEF PinChangeSubmit
<1>6. ASSUME NEW v \in Typed, Unlock(v) \/ PinSetupSubmit(v) PROVE PadInv'
  BY <1>6 DEF Unlock, PinSetupSubmit, ToWifi, ToStep, Hand
<1>7. CASE (\E r \in Role : RoleTile(r)) \/ RoleNext \/ PinSetupSkip \/ SetupBack
  BY <1>7 DEF RoleTile, RoleNext, PinSetupSkip, SetupBack, ToWifi, ToStep, Hand
<1>8. CASE SecondaryNext \/ WifiSkip \/ \E s \in BOOLEAN : WifiFinish(s)
  <2>1. PICK a \in ScreenRam : Finish(a) /\ win # "change"
    BY <1>8 DEF SecondaryNext, WifiSkip, WifiFinish, ScreenTypeOK, ScreenRam
  <2>2. ASSUME NEW k \in 0..3, Boot(Written(a, k)) PROVE PadInv'
    <3>1. Written(a, k) \in ScreenFlash
      BY DEF Written, ScreenTypeOK, ScreenFlash, ScreenRam
    <3> QED
      BY <2>2, <3>1, PadBoot
  <2> QED
    BY <2>1, <2>2 DEF Finish
<1>9. CASE UNCHANGED screenVars
  BY <1>9 DEF screenVars
<1> QED
  BY <1>1, <1>2, <1>3, <1>4, <1>5, <1>6, <1>7, <1>8, <1>9 DEF ScreenNext

\* A PIN changes only by one who typed the present one on this pad, and to one
\* typed twice running (pin_change_submit).
THEOREM PinChangesByHand == ScreenSpec => PinByHand
<1>1. ScreenInit => PadInv
  BY DEF ScreenInit, PadInv, Erased
<1>2. ScreenTypeOK /\ PadInv /\ [ScreenNext]_screenVars => [PinStep]_screenVars
  <2> SUFFICES ASSUME ScreenTypeOK, PadInv, ScreenNext, win = "change", screen_nvs'.pin # screen_nvs.pin
               PROVE  /\ screen_nvs.pin \in typed.all \cup {NoPin}
                      /\ screen_nvs'.pin # NoPin => screen_nvs'.pin = typed.last /\ screen_nvs'.pin = typed'.last
    BY DEF PinStep
  <2>1. PICK v \in Typed : PinChangeSubmit(v)
    BY DEF ScreenNext, Restart, Boot, Cog, SettingsClose, AutostartSettings, ScreenFactoryReset,
           FactoryResetCancel, FactoryResetDo, PinChange, Unlock, PinSetupSubmit, RoleTile,
           RoleNext, PinSetupSkip, SetupBack, SecondaryNext, WifiSkip, WifiFinish,
           ToWifi, ToStep, PadInv
  <2>2. typed'.last = v
    BY <2>1 DEF PinChangeSubmit, Type
  <2>3. CASE entry.phase = 1 /\ v = NoPin /\ StorePin(NoPin)
    BY <2>3 DEF PadInv, StorePin, ScreenTypeOK
  <2>4. CASE entry.phase = 2 /\ v = entry.first /\ StorePin(v)
    BY <2>2, <2>4 DEF PadInv, StorePin, ScreenTypeOK
  <2> QED
    BY <2>1, <2>3, <2>4 DEF PinChangeSubmit
<1> QED
  BY <1>1, <1>2, PadStep, ScreenTypeCorrect, PTL DEF ScreenSpec, PinByHand

-----------------------------------------------------------------------------
(* UpdateCheck: types.                                                       *)

USE AsksAssumption

\* The end of a tick (g_update_check_done_id, g_last_check_result).
LEMMA EndsAs ==
  ASSUME CheckTypeOK, NEW r \in Outcomes, Ends(r)
  PROVE  /\ loop' \in [at : {"idle", "read", "fetch"}, forced : BOOLEAN, id : 0..MaxAsks]
         /\ answer' \in [done : 0..MaxAsks, result : Outcomes, seen : 0..MaxAsks]
         /\ loop'.at = "idle" /\ loop'.id = loop.id
         /\ answer'.seen = answer.seen
         /\ loop.forced = TRUE => answer'.done = loop.id
         /\ loop.forced = FALSE => answer'.done = answer.done
<1>1. CASE loop.forced = TRUE
  <2>1. answer' = [answer EXCEPT !.result = r, !.done = loop.id]
    BY <1>1, Zenon DEF Ends
  <2> QED
    BY <1>1, <2>1 DEF Ends, CheckTypeOK
<1>2. CASE loop.forced = FALSE
  <2>1. answer' = [answer EXCEPT !.result = r]
    <3>1. answer' = [answer EXCEPT !.result = r, !.done = answer.done]
      BY <1>2, Zenon DEF Ends
    <3> QED
      BY <3>1 DEF CheckTypeOK
  <2> QED
    BY <1>2, <2>1 DEF Ends, CheckTypeOK
<1> QED
  BY <1>1, <1>2 DEF CheckTypeOK

\* Every step keeps the types.
LEMMA CheckTypeStep ==
  CheckTypeOK /\ [CheckNext]_checkVars => CheckTypeOK'
<1> SUFFICES ASSUME CheckTypeOK, [CheckNext]_checkVars PROVE CheckTypeOK'
  OBVIOUS
<1> USE DEF CheckTypeOK, Outcomes
<1>1. CASE TapForce
  <2>1. ask' \in [force : BOOLEAN, id : 0..MaxAsks, wait : 0..MaxAsks]
    BY <1>1 DEF TapForce
  <2>2. tap' \in BOOLEAN /\ torn' \in BOOLEAN
    BY <1>1, Zenon DEF TapForce
  <2> QED
    BY <1>1, <2>1, <2>2 DEF TapForce
<1>2. CASE TapCount
  <2>1. ask' \in [force : BOOLEAN, id : 0..MaxAsks, wait : 0..MaxAsks]
    BY <1>2 DEF TapCount
  <2>2. tap' \in BOOLEAN /\ torn' \in BOOLEAN
    BY <1>2, Zenon DEF TapCount
  <2> QED
    BY <1>2, <2>1, <2>2 DEF TapCount
<1>3. CASE Serial
  BY <1>3 DEF Serial
<1>4. CASE Read
  BY <1>4 DEF Read
<1>5. CASE NoWifi
  BY <1>5, EndsAs DEF NoWifi
<1>6. CASE Defer \/ Begin
  BY <1>6 DEF Defer, Begin
<1>7. CASE Fetched \/ FetchFails
  BY <1>7, EndsAs DEF Fetched, FetchFails
<1>8. CASE UiTick
  BY <1>8 DEF UiTick
<1>9. CASE UpdateAvailable \/ UpdateAll \/ OtaClose \/ EngineTurns
  BY <1>9 DEF UpdateAvailable, UpdateAll, OtaClose, EngineTurns
<1>10. CASE UNCHANGED checkVars
  BY <1>10 DEF checkVars
<1> QED
  BY <1>1, <1>2, <1>3, <1>4, <1>5, <1>6, <1>7, <1>8, <1>9, <1>10 DEF CheckNext, CheckTick

\* The request, the answer and the label keep their types (check_update_now_cb,
\* check_for_update_tick, ui_tick).
THEOREM CheckTypeCorrect ==
  CheckSpec => []CheckTypeOK
<1>1. CheckInit => CheckTypeOK
  <2> SUFFICES ASSUME CheckInit PROVE CheckTypeOK
    OBVIOUS
  <2>1. ask \in [force : BOOLEAN, id : 0..MaxAsks, wait : 0..MaxAsks]
    BY DEF CheckInit
  <2>2. loop \in [at : {"idle", "read", "fetch"}, forced : BOOLEAN, id : 0..MaxAsks]
    BY DEF CheckInit
  <2>3. tap \in BOOLEAN /\ torn \in BOOLEAN /\ newer \in BOOLEAN
    BY Zenon DEF CheckInit
  <2> QED
    BY <2>1, <2>2, <2>3 DEF CheckInit, CheckTypeOK, Outcomes
<1> QED
  BY <1>1, CheckTypeStep, PTL DEF CheckSpec

-----------------------------------------------------------------------------
(* The answer.                                                               *)

\* Questions are numbered in the order they are asked, taken up and answered.
Numbered ==
  /\ answer.seen <= answer.done /\ answer.done <= loop.id /\ loop.id <= ask.id
  /\ ask.wait <= ask.id
  /\ label = "checking" => answer.seen < ask.id

\* Unless a tap overlapped them, a tap half done has raised the flag, and what the
\* tick has read is what it will clear.
Whole ==
  ~torn =>
    /\ tap => ask.force /\ loop.at # "read"
    /\ loop.at = "read" => loop.forced = ask.force /\ loop.id = ask.id

AnswerInv == Numbered /\ Whole /\ AnswerOnItsWay

\* Every step keeps the asks numbered.
LEMMA NumberedStep ==
  CheckTypeOK /\ Numbered /\ [CheckNext]_checkVars => Numbered'
<1> SUFFICES ASSUME CheckTypeOK, Numbered, [CheckNext]_checkVars PROVE Numbered'
  OBVIOUS
<1> USE DEF CheckTypeOK, Numbered, Outcomes
<1>1. CASE TapForce \/ TapCount \/ Serial
  BY <1>1 DEF TapForce, TapCount, Serial
<1>2. CASE Read
  BY <1>2 DEF Read
<1>3. CASE NoWifi \/ Fetched \/ FetchFails
  <2>1. PICK r \in Outcomes : Ends(r)
    BY <1>3 DEF NoWifi, Fetched, FetchFails
  <2>2. /\ loop'.id = loop.id /\ answer'.seen = answer.seen
        /\ answer'.done \in {loop.id, answer.done}
    BY <2>1, EndsAs
  <2>3. ask'.id = ask.id /\ ask'.wait = ask.wait /\ label' = label
    BY <1>3 DEF NoWifi, Fetched, FetchFails
  <2> QED
    BY <2>2, <2>3
<1>4. CASE Defer \/ Begin
  BY <1>4 DEF Defer, Begin
<1>5. CASE UiTick
  BY <1>5 DEF UiTick
<1>6. CASE UNCHANGED asks
  BY <1>6
<1> QED
  BY <1>1, <1>2, <1>3, <1>4, <1>5, <1>6
  DEF CheckNext, CheckTick, UpdateAvailable, UpdateAll, OtaClose, EngineTurns, checkVars

\* Every step keeps the answers whole.
LEMMA WholeStep ==
  CheckTypeOK /\ Whole /\ [CheckNext]_checkVars => Whole'
<1> SUFFICES ASSUME CheckTypeOK, Whole, [CheckNext]_checkVars PROVE Whole'
  OBVIOUS
<1> USE DEF CheckTypeOK, Whole
<1>1. CASE TapForce
  <2>1. ask'.force = TRUE /\ loop' = loop
    BY <1>1 DEF TapForce
  <2>2. ~torn' => loop.at # "read"
    BY <1>1, Zenon DEF TapForce
  <2> QED
    BY <2>1, <2>2
<1>2. CASE TapCount
  <2>1. tap' = FALSE /\ loop' = loop
    BY <1>2 DEF TapCount
  <2>2. ~torn' => loop.at # "read"
    BY <1>2, Zenon DEF TapCount
  <2> QED
    BY <2>1, <2>2
<1>3. CASE Serial
  BY <1>3 DEF Serial
<1>4. CASE Read
  BY <1>4 DEF Read
<1>5. CASE NoWifi \/ Fetched \/ FetchFails
  <2>1. PICK r \in Outcomes : Ends(r)
    BY <1>5 DEF NoWifi, Fetched, FetchFails, Outcomes
  <2>2. loop'.at = "idle"
    BY <2>1, EndsAs
  <2>3. tap' = tap /\ torn' = torn /\ (tap => ask' = ask \/ loop.at = "read")
    BY <1>5 DEF NoWifi, Fetched, FetchFails
  <2> QED
    BY <2>2, <2>3
<1>6. CASE Defer \/ Begin
  BY <1>6 DEF Defer, Begin
<1>7. CASE UiTick
  BY <1>7 DEF UiTick
<1>8. CASE UNCHANGED asks
  BY <1>8
<1> QED
  BY <1>1, <1>2, <1>3, <1>4, <1>5, <1>6, <1>7, <1>8
  DEF CheckNext, CheckTick, UpdateAvailable, UpdateAll, OtaClose, EngineTurns, checkVars

\* Every step keeps the answer on its way.
LEMMA AnswerStep ==
  CheckTypeOK /\ AnswerInv /\ [CheckNext]_checkVars => AnswerOnItsWay'
<1> SUFFICES ASSUME CheckTypeOK, AnswerInv, [CheckNext]_checkVars, ~torn' PROVE AnswerOnItsWay'
  BY DEF AnswerOnItsWay
<1> USE DEF CheckTypeOK, AnswerInv, Numbered, Whole, AnswerOnItsWay, Coming
<1>1. ~torn
  BY DEF CheckNext, TapForce, TapCount, Serial, CheckTick, Read, NoWifi, Defer, Begin, Fetched,
         FetchFails, UiTick, UpdateAvailable, UpdateAll, OtaClose, EngineTurns, checkVars
<1>2. CASE TapForce
  BY <1>1, <1>2 DEF TapForce
<1>3. CASE TapCount
  BY <1>1, <1>3 DEF TapCount
<1>4. CASE Serial
  BY <1>1, <1>4 DEF Serial
<1>5. CASE Read
  BY <1>1, <1>5 DEF Read
<1>6. CASE NoWifi
  <2>1. Ends("noWifi") /\ "noWifi" \in Outcomes
    BY <1>6 DEF NoWifi, Outcomes
  <2>2. ask'.id = ask.id /\ ask'.wait = ask.wait /\ label' = label /\ ask'.force = FALSE
    BY <1>6 DEF NoWifi
  <2>3. loop.at = "read" /\ loop.id = ask.id /\ loop.forced = ask.force
    BY <1>1, <1>6 DEF NoWifi
  <2>4. answer'.seen = answer.seen
    BY <2>1, EndsAs
  <2>5. CASE loop.forced = TRUE
    <3>1. answer'.done = ask.id
      BY <2>1, <2>3, <2>5, EndsAs
    <3> QED
      BY <2>2, <2>4, <3>1
  <2>6. CASE loop.forced = FALSE
    <3>1. answer'.done = answer.done
      BY <2>1, <2>6, EndsAs
    <3> QED
      BY <1>1, <2>2, <2>3, <2>4, <2>6, <3>1
  <2> QED
    BY <2>5, <2>6
<1>7. CASE Defer \/ Begin
  BY <1>1, <1>7 DEF Defer, Begin
<1>8. CASE Fetched \/ FetchFails
  <2>1. PICK r \in Outcomes : Ends(r)
    BY <1>8 DEF Fetched, FetchFails, Outcomes
  <2>2. ask' = ask /\ label' = label /\ answer'.seen = answer.seen
    BY <1>8, <2>1, EndsAs DEF Fetched, FetchFails
  <2>3. CASE loop.forced = TRUE
    <3>1. answer'.done = loop.id
      BY <2>1, <2>3, EndsAs
    <3> QED
      BY <1>1, <2>2, <3>1
  <2>4. CASE loop.forced = FALSE
    <3>1. answer'.done = answer.done
      BY <2>1, <2>4, EndsAs
    <3> QED
      BY <1>1, <2>2, <2>4, <3>1
  <2> QED
    BY <2>3, <2>4
<1>9. CASE UiTick
  BY <1>1, <1>9 DEF UiTick, Outcomes
<1>10. CASE UNCHANGED asks
  BY <1>1, <1>10
<1> QED
  BY <1>2, <1>3, <1>4, <1>5, <1>6, <1>7, <1>8, <1>9, <1>10
  DEF CheckNext, CheckTick, UpdateAvailable, UpdateAll, OtaClose, EngineTurns, checkVars

\* The invariant at the start.
LEMMA InitAnswer ==
  CheckInit => AnswerInv
  BY DEF CheckInit, AnswerInv, Numbered, Whole, AnswerOnItsWay

\* "Checking..." is shown, and the serial line waits, only for an answer that is on
\* its way, whichever way out check_for_update_tick takes, unless a tap overlapped
\* the tick's reading and clearing of the flag.
THEOREM AnswerComes ==
  CheckSpec => []AnswerOnItsWay
<1>1. CheckTypeOK /\ AnswerInv /\ [CheckNext]_checkVars => AnswerInv'
  BY NumberedStep, WholeStep, AnswerStep DEF AnswerInv
<1> QED
  BY <1>1, InitAnswer, CheckTypeCorrect, PTL DEF CheckSpec, AnswerInv

-----------------------------------------------------------------------------
(* Alarms: silence.                                                          *)

USE DEF helm, alarmer

\* The part of the types the alarmer's tables need.
TablesType == cond \in PerEngine /\ alarm \in PerEngine /\ silenced \in PerEngine

Inv == TablesType /\ SilenceIsForAnAlarm

-----------------------------------------------------------------------------
\* What a telemetry frame and a silence do to the alarmer's tables.
LEMMA TelemTables ==
  ASSUME TablesType, NEW e \in Engines, alarmer_handle_telem(e)
  PROVE  /\ alarm' \in PerEngine /\ silenced' \in PerEngine
         /\ \A f \in Engines :
              /\ alarm'[f] = IF f = e THEN cond[e] ELSE alarm[f]
              /\ silenced'[f] = IF f = e THEN silenced[e] \cap cond[e] ELSE silenced[f]
  BY DEF TablesType, PerEngine, alarmer_handle_telem

\* What a silence does to the alarmer's tables.
LEMMA SilenceTables ==
  ASSUME TablesType, NEW e \in Engines, alarmer_handle_silence(e)
  PROVE  /\ silenced' \in PerEngine
         /\ \A f \in Engines :
              silenced'[f] = IF f = e THEN silenced[e] \cup alarm[e] ELSE silenced[f]
  BY DEF TablesType, PerEngine, alarmer_handle_silence

\* The tables keep their types.
LEMMA TablesStep == TablesType /\ [Next]_vars => TablesType'
<1> SUFFICES ASSUME TablesType, [Next]_vars PROVE TablesType'
  OBVIOUS
<1>1. ASSUME NEW e \in Engines, NEW k \in Kinds, Raise(e, k) \/ Clear(e, k)
      PROVE  TablesType'
  BY <1>1 DEF TablesType, PerEngine, Raise, Clear
<1>2. ASSUME NEW e \in Engines, TelemToBoth(e) \/ TelemToAlarmer(e)
      PROVE  TablesType'
  <2>1. alarmer_handle_telem(e) /\ cond' = cond
    BY <1>2 DEF TelemToBoth, TelemToAlarmer
  <2> QED
    BY <2>1, TelemTables DEF TablesType
<1>3. ASSUME NEW e \in Engines, alarmer_handle_silence(e) PROVE TablesType'
  <2>1. UNCHANGED <<cond, alarm>>
    BY <1>3 DEF alarmer_handle_silence
  <2> QED
    BY <1>3, <2>1, SilenceTables DEF TablesType
<1>4. CASE UNCHANGED <<cond, alarm, silenced>>
  BY <1>4 DEF TablesType
<1> QED
  BY <1>1, <1>2, <1>3, <1>4
  DEF Next, vars, TelemToHelm, Select, SilenceLost,
      AlarmerLoses, HelmTick, Mute, SendSilence, AgeOut

\* Inv is inductive.
LEMMA InvStep == Inv /\ [Next]_vars => Inv'
<1> SUFFICES ASSUME Inv, [Next]_vars PROVE SilenceIsForAnAlarm'
  BY TablesStep DEF Inv
<1> USE DEF SilenceIsForAnAlarm
<1>0. TablesType /\ SilenceIsForAnAlarm
  BY DEF Inv
<1>1. ASSUME NEW e \in Engines, TelemToBoth(e) \/ TelemToAlarmer(e)
      PROVE  SilenceIsForAnAlarm'
  <2>1. alarmer_handle_telem(e) /\ UNCHANGED <<mask, active>>
    BY <1>1 DEF TelemToBoth, TelemToAlarmer
  <2> QED
    BY <1>0, <2>1, TelemTables
<1>2. ASSUME NEW e \in Engines, alarmer_handle_silence(e)
      PROVE  SilenceIsForAnAlarm'
  <2>1. UNCHANGED <<alarm, mask, active>>
    BY <1>2 DEF alarmer_handle_silence
  <2> QED
    BY <1>0, <1>2, <2>1, SilenceTables
<1>3. CASE HelmTick
  BY <1>0, <1>3 DEF HelmTick
<1>4. CASE Mute
  BY <1>0, <1>4 DEF Mute
<1>5. CASE AgeOut \/ \E e \in Engines : Select(e)
  BY <1>0, <1>5 DEF AgeOut, Select
<1>6. CASE UNCHANGED <<alarm, silenced, mask, active>>
  BY <1>0, <1>6
<1> QED
  BY <1>1, <1>2, <1>3, <1>4, <1>5, <1>6
  DEF Next, vars, Raise, Clear, TelemToHelm, SilenceLost,
      AlarmerLoses, SendSilence

\* The invariant at the start.
LEMMA InitInv == Init => Inv
  BY DEF Init, Inv, TablesType, PerEngine, NoFlags, SilenceIsForAnAlarm

\* "Mutes audio for those conditions until they clear": a silence is always
\* for an alarm that is on, at the alarmer and on the panel.
THEOREM SilenceEndsWithAlarm == Spec => []SilenceIsForAnAlarm
  BY InitInv, InvStep, PTL DEF Spec, Inv

\* Whatever was silenced before, a condition that is new in the telemetry the
\* alarmer takes sounds.
THEOREM NewAlarmIsHeard == Spec => NewAlarmSounds
<1> DEFINE Sound == \A e \in Engines : \A k \in alarm'[e] \ alarm[e] : Sounds(e, k)'
<1>1. Inv /\ [Next]_vars => [Sound]_vars
  <2> SUFFICES ASSUME Inv, Next PROVE Sound
    OBVIOUS
  <2>1. ASSUME NEW e \in Engines, TelemToBoth(e) \/ TelemToAlarmer(e)
        PROVE  Sound
    <3>1. alarmer_handle_telem(e)
      BY <2>1 DEF TelemToBoth, TelemToAlarmer
    <3>2. /\ present' = present \cup {e}
          /\ \A f \in Engines \ {e} : alarm'[f] = alarm[f]
          /\ alarm'[e] \cap silenced'[e] \subseteq silenced[e]
      BY <3>1, TelemTables DEF Inv, alarmer_handle_telem
    <3>3. silenced[e] \subseteq alarm[e]
      BY DEF Inv, SilenceIsForAnAlarm
    <3> QED
      BY <3>2, <3>3 DEF Sounds
  <2>2. CASE alarm' = alarm
    BY <2>2
  <2> QED
    BY <2>1, <2>2
    DEF Next, Raise, Clear, TelemToHelm, Select, SilenceLost,
        AlarmerLoses, HelmTick, Mute, SendSilence, AgeOut, alarmer_handle_silence
<1> QED
  BY <1>1, InitInv, InvStep, PTL DEF Spec, NewAlarmSounds
=============================================================================
