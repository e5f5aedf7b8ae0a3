------------------------------ MODULE TagFinder ------------------------------
(***************************************************************************)
(* The stand-alone tag resolver (ManOverBoard/ESP32/src/full_featured.cpp).*)
(* A tag broadcasts an identifier made from its key and the 1024 s window  *)
(* its own clock is in.  The hub knows the keys and keeps ONE estimate of  *)
(* how far the tags' clocks are from the time: a frame is looked for one   *)
(* window either side of it, and then, for the tag unheard for longest     *)
(* alone, some windows further; a match there moves the estimate.          *)
(*                                                                         *)
(* Windows are counted relative to the time's own.  A tag's clock is off   *)
(* by half windows, so it changes window at the hub's change or half way.  *)
(***************************************************************************)
EXTENDS Integers, Sequences, FiniteSets

CONSTANTS
    NumTags,    \* the known tags, in table order
    Absent,     \* those that are not on the air at all
    Clocks,     \* how far a tag's clock may be off, in half windows
    Wide,       \* WIDE_SEARCH_WINDOWS
    FinderQueueRoom,  \* PENDING_QUEUE_LEN
    MaxResets   \* bound: times a tag loses its battery and its clock

Tags == 1..NumTags
Stranger == 0   \* some tag that is not ours

VARIABLES
    pc,         \* "clock" (no time yet), "scan", "match" or "watch"
    back,       \* where the loop returns to after the command of this poll, or "none"
    half,       \* the half of the window the time is in
    clock,      \* each tag's own clock
    est,        \* g_device_time_offset_seconds, in windows
    seen,       \* the tags matched so far, longest ago first
    frames,      \* g_pending behind the frames already drained
    left,       \* how many of them this pass has drained and not matched
    addr,       \* g_cached_address: "none", "fresh", or "stale" since a re-key
    note,       \* g_notify_data while g_notify_received: "none", "stop" or "press"
    printing,   \* what ring_tag() is printing before it clears the flag
    pressed,    \* ghost: the button was pressed and notified in this watch
    resets

finderVars == <<pc, back, half, clock, est, seen, frames, left, addr, note, printing,
          pressed, resets>>
watch == <<note, printing, pressed>>
finder == <<clock, est, seen, resets>>

FinderTypeOK ==
    /\ pc \in {"clock", "scan", "match", "watch"} /\ back \in {"none", "scan", "match"}
    /\ half \in {0, 1}
    /\ clock \in [Tags -> Clocks] /\ est \in Int
    /\ seen \in Seq(Tags) /\ Len(seen) <= NumTags
    /\ Len(frames) <= 2 * FinderQueueRoom /\ left \in 0..Len(frames)
    /\ addr \in [Tags -> {"none", "fresh", "stale"}]
    /\ note \in {"none", "stop", "press"} /\ printing \in {"none", "stop", "press"}
    /\ pressed \in BOOLEAN /\ resets \in 0..MaxResets

FinderInit ==
    /\ pc = "clock" /\ back = "none" /\ half = 0
    /\ clock \in [Tags -> Clocks] /\ est = 0
    /\ seen = <<>> /\ frames = <<>> /\ left = 0
    /\ addr = [t \in Tags |-> "none"]
    /\ note = "none" /\ printing = "none" /\ pressed = FALSE /\ resets = 0

\* setup(): the date of a web server, or a time typed on the serial port.
GotTime == pc = "clock" /\ pc' = "scan"
           /\ UNCHANGED <<back, half, finder, frames, left, addr, watch>>

------------------------------------------------------------------------------
(* The air.                                                                 *)

\* generate_eid(): the window an identifier is made for; the key is the tag's.
Window(t, h) == (h + clock[t]) \div 2

\* onResult(), in the BLE stack's task: the frame is queued if there is room.
Hear(who) ==
    /\ pc # "clock"
    /\ Len(frames) - left < FinderQueueRoom
    /\ frames' = Append(frames, [who |-> who, age |-> 0])
    /\ UNCHANGED <<pc, back, half, finder, left, addr, watch>>

\* Half a window goes by.  A pass is shorter than that, so a queued frame
\* sees it once at most.  A tag takes a new address with its new identifier.
HalfWindow ==
    /\ \A i \in DOMAIN frames : frames[i].age = 0
    /\ half' = 1 - half
    /\ frames' = [i \in DOMAIN frames |-> [frames[i] EXCEPT !.age = 1]]
    /\ addr' = [t \in Tags |-> IF addr[t] = "fresh" /\ (half' + clock[t]) % 2 = 0
                               THEN "stale" ELSE addr[t]]
    /\ UNCHANGED <<pc, back, finder, left, watch>>

\* A tag's battery is pulled: its clock starts from somewhere else.
ResetTag(t) ==
    /\ resets < MaxResets /\ resets' = resets + 1
    /\ \E c \in Clocks : clock' = [clock EXCEPT ![t] = c]
    /\ UNCHANGED <<pc, back, half, est, seen, frames, left, addr, watch>>

------------------------------------------------------------------------------
(* Matching: process_pending_eid() and try_widen_and_correct_offset().      *)

\* How many windows from the estimate the frame's identifier lies.
FinderDelta(f) == Window(f.who, half - f.age) - est

Near == -1..1
Reach == -Wide..Wide

\* The tag the wide search is for: the first never seen, or else the one
\* whose last match is the oldest.
Unseen == {t \in Tags : \A i \in DOMAIN seen : seen[i] # t}
MostRecent == IF Unseen # {} THEN CHOOSE t \in Unseen : \A u \in Unseen : t <= u
              ELSE seen[Len(seen)]
Overdue == IF Unseen # {} THEN CHOOSE t \in Unseen : \A u \in Unseen : t <= u
           ELSE Head(seen)

\* record_sighting() and the cached address of the tag that was matched.
Matched(t) ==
    /\ seen' = Append(SelectSeq(seen, LAMBDA u : u # t), t)
    /\ addr' = [addr EXCEPT ![t] = "fresh"]

Match ==
    /\ pc = "match" /\ left > 0
    /\ left' = left - 1 /\ frames' = Tail(frames)
    /\ LET f == Head(frames) IN
       IF f.who # Stranger /\ FinderDelta(f) \in Near
       THEN Matched(f.who) /\ UNCHANGED est
       ELSE IF f.who = Overdue /\ FinderDelta(f) \in Reach
       THEN Matched(f.who) /\ est' = est + FinderDelta(f)
       ELSE UNCHANGED <<seen, addr, est>>     \* record_unknown_sighting()
    /\ back' = "none"
    /\ UNCHANGED <<pc, half, clock, resets, watch>>

\* loop(): the scan ends and what it queued is drained; with it matched, again.
EndScan == pc = "scan" /\ pc' = "match" /\ left' = Len(frames) /\ back' = "none"
           /\ UNCHANGED <<half, finder, frames, addr, watch>>
PassDone == pc = "match" /\ left = 0 /\ pc' = "scan" /\ back' = "none"
            /\ UNCHANGED <<half, finder, frames, left, addr, watch>>

------------------------------------------------------------------------------
(* Ringing a tag, or only listening to its button: check_for_ring_command() *)
(* takes one command at most between two slow steps, and then spends 25 s   *)
(* inside ring_tag() or listen_only().                                      *)

\* Mutant of Connects: the flag is not cleared.
ConnectsUncleared(t) ==
    /\ pc \in {"scan", "match"} /\ back = "none" /\ addr[t] = "fresh" /\ t \notin Absent
    /\ back' = pc /\ pc' = "watch"
    /\ printing' = "none" /\ pressed' = FALSE
    /\ UNCHANGED <<half, finder, frames, left, addr, note>>

\* The connection wants an address that is still the tag's, and may fail.
\* The flag is cleared before the tag is subscribed to.
Connects(t) ==
    /\ pc \in {"scan", "match"} /\ back = "none" /\ addr[t] = "fresh" /\ t \notin Absent
    /\ back' = pc /\ pc' = "watch"
    /\ note' = "none" /\ printing' = "none" /\ pressed' = FALSE
    /\ UNCHANGED <<half, finder, frames, left, addr>>

\* The tag's notification, in the BLE stack's task: one buffer for all.
FinderNotify(n) ==
    /\ pc = "watch"
    /\ note' = n /\ pressed' = (pressed \/ n = "press")
    /\ UNCHANGED <<pc, back, half, finder, frames, left, addr, printing>>

\* The flag is found raised: the bytes are printed, and only then it is cleared.
Report ==
    /\ pc = "watch" /\ note # "none" /\ printing = "none"
    /\ printing' = note
    /\ UNCHANGED <<pc, back, half, finder, frames, left, addr, note, pressed>>

Clear ==
    /\ pc = "watch" /\ printing # "none"
    /\ printing' = "none" /\ note' = "none"
    /\ UNCHANGED <<pc, back, half, finder, frames, left, addr, pressed>>

\* The time is up: what came after the last look is left in the buffer.
WatchEnds ==
    /\ pc = "watch" /\ pc' = back
    /\ printing' = "none" /\ note' = IF printing = "none" THEN note ELSE "none"
    /\ UNCHANGED <<back, half, finder, frames, left, addr, pressed>>

FinderLoop == GotTime \/ EndScan \/ Match \/ PassDone \/ WatchEnds

FinderNext ==
    \/ FinderLoop \/ HalfWindow \/ Report \/ Clear
    \/ \E t \in Tags \ Absent : Hear(t) \/ ResetTag(t)
    \/ Hear(Stranger)
    \/ \E t \in Tags : Connects(t)
    \/ \E n \in {"stop", "press"} : FinderNotify(n)

FinderSpec == FinderInit /\ [][FinderNext]_finderVars

\* loop() goes on, and every tag on the air finds room in the queue at times.
FinderFairness == WF_finderVars(FinderLoop) /\ \A t \in Tags \ Absent : SF_finderVars(Hear(t))
FinderFairSpec == FinderSpec /\ FinderFairness

------------------------------------------------------------------------------
\* Every tag that is on the air is matched again and again, whatever its
\* clock is within reach, although there is one estimate for all of them and
\* mending it for one tag may lose another (try_widen_and_correct_offset).
TagsFound ==
    \A t \in Tags \ Absent : []<>(seen # <<>> /\ seen[Len(seen)] = t)

\* "BUTTON PRESS DETECTED" is said only of a press in this very watch, not of
\* one left in the buffer by the watch before (ring_tag, listen_only).
PressIsReal == printing = "press" => pressed
==============================================================================
