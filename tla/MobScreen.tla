------------------------------ MODULE MobScreen ------------------------------
(***************************************************************************)
(* The man-overboard hub with its own screen, as it is built               *)
(* (ESP32/src/display_mob_test.cpp): every identifier (EID) on the air gets*)
(* a slot of the table, a slot whose EID is enrolled raises an alarm when  *)
(* it falls silent, the alarm escalates, and an unnamed tag whose EID may  *)
(* just have rotated changes roles with the newest stranger instead.       *)
(*                                                                         *)
(* The hub is one loop: a pass serves one web request or serial character, *)
(* then the frames the radio's task queued, looks for missing tags, prunes,*)
(* drives the alarm and last reads the touch screen.  Frames come and are  *)
(* lost at will, so the queue is not kept: a frame is served or was never  *)
(* heard.  A tap acts on release, on the screen then shown, wherever the   *)
(* finger went down: every place is possible at every tap.  What is saved  *)
(* is read from a cache that is always the flash.  Not modelled: the one   *)
(* wipe of older formats at first boot, scrolling, LED and drawing, values *)
(* of the web page beyond the screen's limits.                             *)
(***************************************************************************)
EXTENDS Integers, FiniteSets

CONSTANTS
    NumSlots,       \* MAX_TAGS
    Eids, NoEid,    \* the identifiers on the air
    MissingRange,   \* the missing thresholds the settings can reach, in ticks
    ActionRange,    \* the escalation timeouts the settings can reach, in ticks
    Hours           \* ticks of the longest timed disable

ASSUME MobAssumption ==
    /\ NumSlots \in Nat \ {0} /\ Hours \in Nat
    /\ NoEid \notin Eids /\ IsFiniteSet(Eids)
    /\ MissingRange \subseteq Nat /\ \E lo, hi \in MissingRange : MissingRange = lo..hi
    /\ ActionRange \subseteq Nat \ {0} /\ \E lo, hi \in ActionRange : ActionRange = lo..hi

MobSlots == 1..NumSlots
NoTag == 0
MobMaxOf(S) == CHOOSE m \in S : \A n \in S : n <= m
MinOf(S) == CHOOSE m \in S : \A n \in S : m <= n
\* Longer than any window of find_ignore_swap_candidate, which is shorter than
\* IGNORED_STALE_DELETE_MS. Ages from here on are not told apart; a tag loaded at boot
\* counts as shown for so long.
Lasting == 2 * MobMaxOf(MissingRange) + 1
Forever == Hours + 1                \* g_mob_disabled_indefinite

VARIABLES
    mob_pc,     \* the part of loop() the hub is in, or its config portal
    kept,       \* flash: credentials, the enrolled list with its names, the two settings
    timers,     \* g_missing_threshold_secs, g_action_timeout_secs
    undoubled,  \* the same, *_before_wifi
    wifi,       \* g_wifi_enabled, and with it g_timers_doubled_for_wifi
    tag,        \* g_tags: ticks since last_seen_ms and since first_seen_ms
    alarm,      \* g_screen, g_triggering_tag_idx, ticks since g_mob_detected_at_ms; ghosts:
                \*   was it forced, and which EID it is about, NoEid once that was
                \*   un-enrolled from elsewhere
    sel,        \* g_selected_tag_idx
    off         \* ticks the detection stays disabled, 0 when it is on

mobVars == <<mob_pc, kept, timers, undoubled, wifi, tag, alarm, sel, off>>

Alarm == {"detected", "actioned"}
Screens == Alarm \cup {"list", "settings", "disable", "confirm", "warning"}
Timers == [missing : MissingRange, action : ActionRange]

MobTypeOK ==
    /\ mob_pc \in {"web", "ble", "touch", "portal"}
    /\ kept \in [ssid : BOOLEAN, enrolled : [Eids -> {"no", "bare", "named"}], set : Timers]
    /\ timers \in Timers /\ undoubled \in Timers
    /\ wifi \in BOOLEAN
    /\ tag \in [MobSlots -> [used : BOOLEAN, eid : Eids \cup {NoEid}, age : 0..Lasting, shown : 0..Lasting]]
    /\ alarm \in [screen : Screens, trig : 0..NumSlots, since : 0..(MobMaxOf(ActionRange) + 1),
                  forced : BOOLEAN, cause : Eids \cup {NoEid}]
    /\ sel \in 0..NumSlots
    /\ off \in 0..Forever

Resting == [screen |-> "list", trig |-> NoTag, since |-> 0, forced |-> FALSE, cause |-> NoEid]
NeverUsed == [used |-> FALSE, eid |-> NoEid, age |-> Lasting, shown |-> Lasting]

Enrolled(e) == e \in Eids /\ kept.enrolled[e] # "no"
Named(e) == kept.enrolled[e] = "named"
Shows(s) == alarm' = [alarm EXCEPT !.screen = s]

------------------------------------------------------------------------------
(* Boot.                                                                     *)

\* load_enrolled_tags_into_table: the first of the list, as many as there are slots.
LoadTable(enrolled) ==
    LET E == {e \in Eids : enrolled[e] # "no"}
        n == IF Cardinality(E) < NumSlots THEN Cardinality(E) ELSE NumSlots
    IN  \E f \in [1..n -> E] :
          /\ \A i, j \in 1..n : f[i] = f[j] => i = j
          /\ tag' = [s \in MobSlots |->
                       IF s <= n THEN [used |-> TRUE, eid |-> f[s], age |-> 0, shown |-> Lasting]
                       ELSE NeverUsed]

\* setup(): WiFi off, detection on, whatever was set before.
Boot ==
    /\ mob_pc' = "web" /\ timers' = kept'.set /\ undoubled' = kept'.set /\ wifi' = FALSE
    /\ LoadTable(kept'.enrolled)
    /\ alarm' = Resting /\ sel' = NoTag /\ off' = 0

MobInit ==
    /\ mob_pc = "web" /\ wifi = FALSE
    /\ kept = [ssid |-> FALSE, enrolled |-> [e \in Eids |-> "no"],
               set |-> [missing |-> MinOf(MissingRange), action |-> MinOf(ActionRange)]]
    /\ timers = kept.set /\ undoubled = kept.set
    /\ tag = [s \in MobSlots |-> NeverUsed]
    /\ alarm = Resting /\ sel = NoTag /\ off = 0

\* The power goes and comes back.
Reboot == UNCHANGED kept /\ Boot

\* handle_wifi_save in the portal, which ends only so.
PortalSave ==
    /\ mob_pc = "portal"
    /\ kept' = [kept EXCEPT !.ssid = TRUE]
    /\ Boot

------------------------------------------------------------------------------
(* A web request or a serial character.                                      *)

Disabled == off # 0     \* mob_is_disabled()

\* trigger_mob(): refused while disabled and for a tag that is not enrolled.
Raised(s, test) ==
    IF Disabled \/ ~Enrolled(tag[s].eid) THEN alarm
    ELSE [screen |-> "detected", trig |-> s, since |-> 0, forced |-> test, cause |-> tag[s].eid]

\* enroll_tag, unenroll_tag.
Enroll(e, as) == kept' = [kept EXCEPT !.enrolled = [x \in Eids |-> IF x = e THEN as ELSE @[x]]]
\* (Of a free slot only the EID is read again, and that by an alarm or the confirm screen.)
Freed(S) == [s \in MobSlots |->
               IF s \in S THEN [used |-> FALSE, eid |-> tag[s].eid, age |-> Lasting, shown |-> Lasting]
               ELSE tag[s]]
Holding(e) == {s \in MobSlots : tag[s].used /\ tag[s].eid = e}
Disowned(E) == [alarm EXCEPT !.cause = IF @ \in E THEN NoEid ELSE @]

ForceTrigger ==     \* handle_debug_trigger, a digit
    /\ \E s \in MobSlots : tag[s].used /\ alarm' = Raised(s, TRUE)
    /\ UNCHANGED <<kept, timers, tag>>

WebName(e) ==       \* handle_enrolled_name: enrolls, too
    /\ \E as \in {"bare", "named"} : Enroll(e, as)
    /\ UNCHANGED <<timers, tag, alarm>>

WebToggle(e) ==     \* handle_enrolled_toggle
    /\ Enroll(e, IF Enrolled(e) THEN "no" ELSE "bare")
    /\ alarm' = Disowned({e})
    /\ UNCHANGED <<timers, tag>>

WebRemove(e) ==     \* handle_enrolled_remove
    /\ Enroll(e, "no")
    /\ tag' = Freed(Holding(e))
    /\ alarm' = Disowned({e})
    /\ UNCHANGED timers

ResetAll ==         \* factory_reset_enrolled: the web page's button, or 'r'
    /\ kept' = [kept EXCEPT !.enrolled = [e \in Eids |-> "no"]]
    /\ tag' = Freed(MobSlots)
    /\ alarm' = Disowned(Eids)
    /\ UNCHANGED timers

Save(t) == timers' = t /\ kept' = [kept EXCEPT !.set = t]   \* save_mob_settings

WebSave ==          \* handle_settings_save
    /\ \E t \in Timers : Save(t)
    /\ UNCHANGED <<tag, alarm>>

Serve ==
    /\ mob_pc = "web" /\ mob_pc' = "ble"
    /\ \/ UNCHANGED <<kept, timers, tag, alarm>>
       \/ ForceTrigger \/ ResetAll
       \/ wifi /\ (WebSave \/ \E e \in Eids : WebName(e) \/ WebToggle(e) \/ WebRemove(e))
    /\ UNCHANGED <<undoubled, wifi, sel, off>>

------------------------------------------------------------------------------
(* A frame: find_or_create_tag_slot, mark_tag_seen.                          *)

Oldest(S) == {s \in S : \A x \in S : tag[x].age <= tag[s].age}

\* Its own slot, else a free one, else that of the ignored tag unheard for longest,
\* else of any.
SlotsFor(e) ==
    LET free == {s \in MobSlots : ~tag[s].used}
        ignored == {s \in MobSlots : ~Enrolled(tag[s].eid)}
    IN  IF Holding(e) # {} THEN {MinOf(Holding(e))}
        ELSE IF free # {} THEN {MinOf(free)}
        ELSE IF ignored # {} THEN Oldest(ignored)
        ELSE Oldest(MobSlots)

\* mark_tag_seen() of the slot that caused the alarm clears it.
ClearsFirstStage(s) == s = alarm.trig /\ alarm.screen = "detected"
Clears(s) == s = alarm.trig /\ alarm.screen \in Alarm

Recognise(e) ==
    /\ mob_pc = "ble"
    /\ \E s \in SlotsFor(e) :
         /\ tag' = [tag EXCEPT ![s] = [used |-> TRUE, eid |-> e, age |-> 0,
                                       shown |-> IF s \in Holding(e) THEN @.shown ELSE 0]]
         /\ alarm' = IF Clears(s) THEN Resting ELSE alarm
    /\ UNCHANGED <<mob_pc, kept, timers, undoubled, wifi, sel, off>>

------------------------------------------------------------------------------
(* Missing tags, stale tags, escalation.                                     *)

Gone == {s \in MobSlots : /\ tag[s].used /\ Enrolled(tag[s].eid)
                          /\ tag[s].age >= timers.missing}

\* find_ignore_swap_candidate: the newest of the strangers, if new enough.
Fresh(s) == tag[s].used /\ ~Enrolled(tag[s].eid) /\ tag[s].shown <= 2 * timers.missing
Candidates == {s \in MobSlots : Fresh(s) /\ \A x \in MobSlots : Fresh(x) => tag[s].shown <= tag[x].shown}

LooksAlways == ~Disabled /\ Gone # {}      \* mutant: on every screen
Looks == alarm.screen = "list" /\ ~Disabled /\ Gone # {}

\* check_for_missing_tags: the first slot that is gone raises an alarm, or without a
\* name changes roles with a candidate.
Missed ==
    LET s == MinOf(Gone)
        e == tag[s].eid
    IN  IF ~Named(e) /\ Candidates # {}
        THEN /\ \E c \in Candidates :
                  kept' = [kept EXCEPT !.enrolled =
                             [x \in Eids |-> IF x = tag[c].eid THEN "bare" ELSE IF x = e THEN "no" ELSE @[x]]]
             /\ UNCHANGED alarm
        ELSE alarm' = Raised(s, FALSE) /\ UNCHANGED kept

\* update_mob_state_machine: an alarm nobody silenced escalates. (One that this pass
\* raised is too young.)
Escalated ==
    IF alarm.screen = "detected" /\ alarm.since >= timers.action
    THEN [alarm EXCEPT !.screen = "actioned", !.since = 0] ELSE alarm

\* check_for_stale_ignored_tags.
Prune ==
    \E S \in SUBSET {s \in MobSlots : /\ tag[s].used /\ tag[s].age = Lasting
                                      /\ tag[s].eid \in Eids /\ kept'.enrolled[tag[s].eid] = "no"} :
       tag' = Freed(S)

Watch ==
    /\ mob_pc = "ble" /\ mob_pc' = "touch"
    /\ IF Looks THEN Missed ELSE alarm' = Escalated /\ UNCHANGED kept
    /\ Prune
    /\ UNCHANGED <<timers, undoubled, wifi, sel, off>>

------------------------------------------------------------------------------
(* The touch screen: dispatch_tap, handle_touch_for_screen, handle_row_tap.  *)

TapList ==
    /\ alarm.screen = "list"
    /\ \/ Shows("settings") /\ UNCHANGED <<sel, off>>
       \/ IF Disabled THEN off' = 0 /\ UNCHANGED <<alarm, sel>>
          ELSE Shows("disable") /\ UNCHANGED <<sel, off>>
       \/ /\ \E s \in MobSlots : tag[s].used /\ sel' = s
          /\ Shows("confirm") /\ UNCHANGED off
    /\ UNCHANGED <<kept, timers, undoubled, wifi, tag>>

TapSettings ==
    /\ alarm.screen = "settings"
    /\ \/ /\ \E t \in Timers :
               /\ \/ t.action = timers.action /\ t.missing \in {timers.missing - 1, timers.missing + 1}
                  \/ t.missing = timers.missing /\ t.action \in {timers.action - 1, timers.action + 1}
               /\ Save(t)
          /\ UNCHANGED <<undoubled, wifi, alarm>>
       \/ /\ wifi    \* disable_wifi, restore_timers_after_wifi
          /\ wifi' = FALSE /\ timers' = undoubled
          /\ UNCHANGED <<kept, undoubled, alarm>>
       \/ ~wifi /\ Shows("warning") /\ UNCHANGED <<kept, timers, undoubled, wifi>>
       \/ Shows("list") /\ UNCHANGED <<kept, timers, undoubled, wifi>>
    /\ UNCHANGED <<tag, sel, off>>

TapDisable ==
    /\ alarm.screen = "disable"
    /\ off' \in {1, Hours, Forever, off}
    /\ Shows("list")
    /\ UNCHANGED <<kept, timers, undoubled, wifi, tag, sel>>

\* silence_alarm(): the tag is ignored from now on.
Silence ==
    /\ alarm.screen \in Alarm
    /\ Enroll(tag[alarm.trig].eid, "no")
    /\ alarm' = Resting
    /\ UNCHANGED <<timers, undoubled, wifi, tag, sel, off>>

TapConfirm ==
    /\ alarm.screen = "confirm"
    /\ LET e == tag[sel].eid
       IN  \/ Enroll(e, IF Enrolled(e) THEN "no" ELSE "bare") /\ UNCHANGED tag
           \/ Enroll(e, "no") /\ tag' = Freed({sel})
           \/ UNCHANGED <<kept, tag>>
    /\ alarm' = Resting /\ sel' = NoTag
    /\ UNCHANGED <<timers, undoubled, wifi, off>>

Twice(v, range) == IF 2 * v < MobMaxOf(range) THEN 2 * v ELSE MobMaxOf(range)

\* double_timers_for_wifi.
Doubled ==
    /\ timers' = [missing |-> Twice(timers.missing, MissingRange),
                  action |-> Twice(timers.action, ActionRange)]
    /\ undoubled' = timers

\* enable_wifi: both timers are doubled; without an answer all is as before.
TapWarning ==
    /\ alarm.screen = "warning" /\ Shows("settings")
    /\ \/ kept.ssid /\ wifi' = TRUE /\ Doubled
       \/ UNCHANGED <<timers, undoubled, wifi>>
    /\ UNCHANGED <<kept, tag, sel, off>>

Touch ==
    /\ mob_pc = "touch" /\ mob_pc' = "web"
    /\ \/ UNCHANGED <<kept, timers, undoubled, wifi, tag, alarm, sel, off>>
       \/ TapList \/ TapSettings \/ TapDisable \/ Silence \/ TapConfirm \/ TapWarning

\* enable_wifi without credentials: run_config_portal never returns.
OpenPortal ==
    /\ mob_pc = "touch" /\ mob_pc' = "portal"
    /\ alarm.screen = "warning" /\ Shows("settings")
    /\ ~kept.ssid /\ Doubled
    /\ UNCHANGED <<kept, wifi, tag, sel, off>>

------------------------------------------------------------------------------
\* A second goes by, in a pass that serves no request. Passes are far shorter. (Only
\* connecting to WiFi takes longer, on a screen that does not look for tags.)
Tick ==
    /\ mob_pc = "web" /\ mob_pc' = "ble"
    /\ tag' = [s \in MobSlots |->
                 IF ~tag[s].used THEN tag[s]
                 ELSE [tag[s] EXCEPT !.age = IF @ < Lasting THEN @ + 1 ELSE @,
                                     !.shown = IF @ < Lasting THEN @ + 1 ELSE @]]
    /\ alarm' = IF alarm.screen = "detected" /\ alarm.since <= MobMaxOf(ActionRange)
                THEN [alarm EXCEPT !.since = @ + 1] ELSE alarm
    /\ off' = IF off \in 1..Hours THEN off - 1 ELSE off
    /\ UNCHANGED <<kept, timers, undoubled, wifi, sel>>

MobNext ==
    \/ Reboot \/ PortalSave \/ Serve \/ Watch \/ Touch \/ OpenPortal \/ Tick
    \/ \E e \in Eids : Recognise(e)

MobSpec == MobInit /\ [][MobNext]_mobVars

\* loop() goes on and time with it; nobody is made to touch or to type.
MobFairness == WF_mobVars(Serve \/ Tick) /\ SF_mobVars(Tick) /\ WF_mobVars(Watch) /\ WF_mobVars(Touch)
MobFairSpec == MobSpec /\ MobFairness

------------------------------------------------------------------------------
\* An alarm is always about the tag whose slot is remembered, which the crew still
\* trusts unless it was un-enrolled from elsewhere, detection is on while it sounds,
\* and unless it was forced the slot's tag really has not been heard since
\* (trigger_mob, find_or_create_tag_slot, mark_tag_seen).
AlarmHasCause ==
    alarm.screen \in Alarm =>
        /\ alarm.trig \in MobSlots
        /\ ~Disabled
        /\ alarm.cause # NoEid =>
              tag[alarm.trig].eid = alarm.cause /\ tag[alarm.trig].used /\ Enrolled(alarm.cause)
        /\ alarm.forced \/ tag[alarm.trig].age >= MinOf(MissingRange)

\* An alarm nobody answers does not stay at its first stage: it escalates,
\* unless the tag comes back, the alarm is silenced or the hub restarts
\* (update_mob_state_machine). (An alarm forced by hand starts the time anew.)
Escalates == alarm.screen = "detected" /\ ~alarm.forced ~> alarm.screen # "detected" \/ alarm.forced

\* While the list is shown and detection is on, no trusted tag stays gone for ever: it
\* raises an alarm or its role has gone to one that is heard; roles do not change to and
\* fro for ever (check_for_missing_tags, find_ignore_swap_candidate).
LostIsRaised == []<>~(alarm.screen = "list" /\ ~Disabled /\ Gone # {})
==============================================================================
