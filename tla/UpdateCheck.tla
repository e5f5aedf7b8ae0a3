------------------------------ MODULE UpdateCheck ------------------------------
(***************************************************************************)
(* "Check for Updates" and its answer on the HELM.  A tap (LVGL task) or   *)
(* the serial line UPDATE (loop task) asks; check_for_update_tick (loop    *)
(* task) fetches the manifest; ui_tick (LVGL task) shows the outcome, or   *)
(* starts Update All for the serial line.  The two tasks run at once: the  *)
(* loop may come between check_update_now_cb's two writes, and a tap       *)
(* between the tick's reading of the request and its clearing of the flag. *)
(*                                                                         *)
(* What Update All does is FleetUpdate's.                                  *)
(***************************************************************************)
EXTENDS Naturals

CONSTANT MaxAsks    \* bound: checks asked for by hand or by serial line

ASSUME AsksAssumption == MaxAsks \in Nat

Outcomes == {"ok", "noWifi", "failed"}

VARIABLES
    ask,    \* g_force_update_check, g_update_check_request_id, g_serial_update_wait_id
    tap,    \* check_update_now_cb is between its two writes
    loop,   \* check_for_update_tick: where it is; `forced` and `req_id`
    answer, \* g_update_check_done_id, g_last_check_result, last_seen_done_id
    label,  \* lbl_check_status
    newer,  \* update_showing: an update is available, for the HELM or for an engine
    ota,    \* ota_win
    engine, \* any_engine_active: off, held (glow, start, autostart), running
    torn    \* history: a tap overlapped the tick's reading and clearing

asks == <<ask, tap, loop, answer, label, torn>>
checkVars == <<asks, newer, ota, engine>>

CheckTypeOK ==
    /\ ask \in [force : BOOLEAN, id : 0..MaxAsks, wait : 0..MaxAsks]
    /\ tap \in BOOLEAN /\ torn \in BOOLEAN /\ newer \in BOOLEAN
    /\ loop \in [at : {"idle", "read", "fetch"}, forced : BOOLEAN, id : 0..MaxAsks]
    /\ answer \in [done : 0..MaxAsks, result : Outcomes, seen : 0..MaxAsks]
    /\ label \in {"none", "checking"} \cup Outcomes
    /\ ota \in {"none", "list", "blocked", "progress"}
    /\ engine \in {"off", "held", "running"}

CheckInit ==
    /\ ask = [force |-> FALSE, id |-> 0, wait |-> 0] /\ tap = FALSE
    /\ loop = [at |-> "idle", forced |-> FALSE, id |-> 0]
    /\ answer = [done |-> 0, result |-> "failed", seen |-> 0]
    /\ label = "none" /\ newer = FALSE /\ ota = "none" /\ torn = FALSE
    /\ engine = "off"

-----------------------------------------------------------------------------
(* Asking.                                                                   *)

\* check_update_now_cb: the flag, then the number and "Checking...".
TapForce ==
    /\ ~tap /\ ask.id < MaxAsks
    /\ ask' = [ask EXCEPT !.force = TRUE] /\ tap' = TRUE
    /\ torn' = (torn \/ loop.at = "read")
    /\ UNCHANGED <<loop, answer, label, newer, ota, engine>>

TapCount ==
    /\ tap /\ ask.id < MaxAsks
    /\ ask' = [ask EXCEPT !.id = @ + 1] /\ tap' = FALSE /\ label' = "checking"
    /\ torn' = (torn \/ loop.at = "read")
    /\ UNCHANGED <<loop, answer, newer, ota, engine>>

\* cmd_update, with WiFi; the increments of the two tasks do not overlap.
Serial ==
    /\ loop.at = "idle" /\ ask.id < MaxAsks
    /\ ask' = [force |-> TRUE, id |-> ask.id + 1, wait |-> ask.id + 1]
    /\ UNCHANGED <<tap, loop, answer, label, torn, newer, ota, engine>>

-----------------------------------------------------------------------------
(* check_for_update_tick of a primary.                                       *)

Read ==
    /\ loop.at = "idle"
    /\ loop' = [at |-> "read", forced |-> ask.force, id |-> ask.id]
    /\ torn' = (torn \/ tap)
    /\ UNCHANGED <<ask, tap, answer, label, newer, ota, engine>>

\* The tick ends, and answers the question it began with, if there was one.
EndsUnsaid(r) == /\ loop' = [loop EXCEPT !.at = "idle"]
                 /\ answer' = [answer EXCEPT !.result = r]
Ends(r) == /\ loop' = [loop EXCEPT !.at = "idle"]
           /\ answer' = [answer EXCEPT !.result = r,
                                       !.done = IF loop.forced THEN loop.id ELSE @]

NoWifiUnsaid ==
    /\ loop.at = "read"
    /\ ask' = [ask EXCEPT !.force = FALSE] /\ EndsUnsaid("noWifi")
    /\ UNCHANGED <<tap, label, torn, newer, ota, engine>>
NoWifi ==
    /\ loop.at = "read"
    /\ ask' = [ask EXCEPT !.force = FALSE] /\ Ends("noWifi")
    /\ UNCHANGED <<tap, label, torn, newer, ota, engine>>

\* While an engine is being started, and when nobody asked and none is due.
Defer ==
    /\ loop.at = "read" /\ (engine = "held" \/ ~loop.forced)
    /\ loop' = [loop EXCEPT !.at = "idle"]
    /\ UNCHANGED <<ask, tap, answer, label, torn, newer, ota, engine>>

\* Asked for, or due: 24 h after the last one, or the first since the restart.
Begin ==
    /\ loop.at = "read" /\ engine # "held"
    /\ ask' = [ask EXCEPT !.force = FALSE]
    /\ loop' = [loop EXCEPT !.at = "fetch"]
    /\ UNCHANGED <<tap, answer, label, torn, newer, ota, engine>>

\* The manifest, or an error: no answer, or none for this hardware.
Fetched ==
    /\ loop.at = "fetch" /\ Ends("ok")
    /\ newer' \in BOOLEAN
    /\ UNCHANGED <<ask, tap, label, torn, ota, engine>>
FetchFails ==
    /\ loop.at = "fetch" /\ Ends("failed")
    /\ UNCHANGED <<ask, tap, label, torn, newer, ota, engine>>

-----------------------------------------------------------------------------
(* ui_tick: the serial line's answer, then the label's.                      *)

StartsAll == /\ ask.wait # 0 /\ answer.done = ask.wait /\ answer.result = "ok"
             /\ newer /\ engine = "off" /\ ota = "none"

UiTick ==
    /\ answer.done # answer.seen \/ (ask.wait # 0 /\ answer.done = ask.wait)
    /\ ask' = IF answer.done = ask.wait THEN [ask EXCEPT !.wait = 0] ELSE ask
    /\ ota' = IF StartsAll THEN "progress" ELSE ota
    /\ label' = IF answer.done # answer.seen THEN answer.result ELSE label
    /\ answer' = [answer EXCEPT !.seen = answer.done]
    /\ UNCHANGED <<tap, loop, torn, newer, engine>>

-----------------------------------------------------------------------------
(* The update window.                                                        *)

UpdateAvailable ==
    /\ newer /\ ota = "none"
    /\ ota' = IF engine # "off" THEN "blocked" ELSE "list"
    /\ UNCHANGED <<asks, newer, engine>>

UpdateAll == ota = "list" /\ ota' = "progress" /\ UNCHANGED <<asks, newer, engine>>
OtaClose == ota # "none" /\ ota' = "none" /\ UNCHANGED <<asks, newer, engine>>

\* Keys, autostart, another engine: external to the window.
EngineTurns == engine' \in {"off", "held", "running"} /\ UNCHANGED <<asks, newer, ota>>

-----------------------------------------------------------------------------
CheckTick == Read \/ NoWifi \/ Defer \/ Begin \/ Fetched \/ FetchFails

CheckNext ==
    \/ TapForce \/ TapCount \/ Serial
    \/ CheckTick \/ UiTick
    \/ UpdateAvailable \/ UpdateAll \/ OtaClose \/ EngineTurns

CheckSpec == CheckInit /\ [][CheckNext]_checkVars

-----------------------------------------------------------------------------
\* A question whose answer the loop still has, or has given but the screen not shown.
Coming(id) ==
    \/ ask.force
    \/ loop.at # "idle" /\ loop.forced /\ loop.id = id
    \/ answer.done = id /\ answer.seen # id

\* "Checking..." is shown only while the answer to the last question is on its way,
\* whichever of its four ways out the tick takes, unless a tap overlapped the tick's
\* reading and clearing of the flag; and likewise what the serial line waits for.
AnswerOnItsWay ==
    ~torn => /\ label = "checking" => Coming(ask.id)
             /\ ask.wait # 0 /\ ask.wait = ask.id => Coming(ask.id) \/ answer.done = ask.wait

\* "a running engine anywhere blocks the flow outright" (engine_display.ino:4578).
UpdateOnlyAtRest == [][ota' = "progress" /\ ota # "progress" => engine = "off"]_checkVars
=============================================================================
