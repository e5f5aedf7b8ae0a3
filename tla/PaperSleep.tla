------------------------------ MODULE PaperSleep ------------------------------
(***************************************************************************)
(* The paper display asleep and awake                                      *)
(* (SignalKPaperDisplay/internal/app: nopower.go, idle.go, app.go).  Two   *)
(* modes put it to sleep, no-power and idle; they share the front light's  *)
(* note of where it was, the screen and, through callbacks, the SignalK    *)
(* client.  Two threads run the same code: the main loop, which looks at   *)
(* the battery and at the switch, and a hand (a touch, the power button or *)
(* a web command), which wakes it.  a.mu is held only for the steps named  *)
(* "flag" and "record"; the light and the client are told outside it.      *)
(***************************************************************************)
EXTENDS Naturals

CONSTANT Brightest  \* Light.Max()

ASSUME SleepAssumption == Brightest \in Nat

VARIABLES
  asleep,        \* the modes that are on: a.noPower, a.idle
  lightLevel,    \* the app's record of the light
  lightBefore,   \* the level before sleep, 0 if none is noted
  light,         \* the light itself
  told,          \* the modes OnNoPower / OnIdle told the client of last
  sleepDrawn,    \* the sleeping picture taken to be on the screen
  screen,        \* the picture on the screen
  frame,         \* the picture the main loop has rendered
  pageChanged,
  plugged,       \* on external power
  drained,       \* off it for NoPowerMin (unpluggedSince)
  switch,        \* the idle switch: known to be "off", or "on" (or not known)
  prev,          \* a.swSeen, a.swOn: what the last idleTick saw
  quiet,         \* no touch or command for noPowerIdle
  hold,          \* a wake by hand holds idle mode off (idleHold)
  pc,            \* where the main loop is
  job,           \* what each thread is in the middle of
  todo,          \* the modes activity() found on, still to be left
  want,          \* the brightness a command sets after waking, or NoLevel
  failed,        \* history: the last picture could not be shown
  chosen,        \* history: the brightness the user chose last
  clash          \* history: both threads were in the shared code at once

lights == <<lightLevel, lightBefore, light>>
outside == <<plugged, drained, switch, quiet>>
drawing == <<sleepDrawn, screen, frame, pageChanged, failed>>
hand == <<todo, want, chosen>>
vars == <<asleep, lights, told, drawing, outside, prev, hold, pc, job, hand, clash>>

Modes == {"nopower", "idle"}
Other(m) == CHOOSE o \in Modes : o # m
Levels == 0 .. Brightest
NoLevel == Brightest + 1
NoJob == [do |-> "nothing"]
Threads == {"loop", "hand"}
\* do: enter or leave a mode, or set the light (mode is then of no account);
\* step: what comes next.
Job == [do : {"enter", "exit", "brighten"}, mode : Modes,
        step : {"flag", "set", "record", "call"}, level : Levels]

TypeOK ==
  /\ asleep \subseteq Modes /\ told \subseteq Modes /\ todo \subseteq Modes
  /\ lightLevel \in Levels /\ lightBefore \in Levels /\ light \in Levels
  /\ chosen \in Levels /\ want \in Levels \cup {NoLevel}
  /\ sleepDrawn \in Modes \cup {""}
  /\ screen \in Modes \cup {"page"} /\ frame \in Modes \cup {"page"}
  /\ pageChanged \in BOOLEAN
  /\ plugged \in BOOLEAN /\ drained \in BOOLEAN /\ quiet \in BOOLEAN
  /\ hold \in BOOLEAN
  /\ switch \in {"on", "off"} /\ prev \in {"on", "off"}
  /\ pc \in {"power", "idle", "draw", "render", "show"}
  /\ job \in [Threads -> Job \cup {NoJob}]
  /\ failed \in BOOLEAN
  /\ clash \in BOOLEAN

Init ==
  /\ asleep = {} /\ told = {}
  /\ light \in Levels /\ lightLevel = light /\ lightBefore = 0
  /\ sleepDrawn = "" /\ screen = "page" /\ frame = "page" /\ pageChanged = FALSE
  /\ plugged = TRUE /\ drained = FALSE /\ quiet = TRUE
  /\ switch = "on" /\ prev = "on" /\ hold = FALSE
  /\ pc = "power"
  /\ job = [t \in Threads |-> NoJob]
  /\ todo = {} /\ want = NoLevel
  /\ failed = FALSE
  /\ chosen = light
  /\ clash = FALSE

Free(t) == job[t] = NoJob
HandIdle == Free("hand") /\ todo = {} /\ want = NoLevel
Start(t, do, m) ==
  job' = [job EXCEPT ![t] = [do |-> do, mode |-> m, step |-> "flag", level |-> 0]]
Go(t, step) == job' = [job EXCEPT ![t].step = step]
Done(t) == job' = [job EXCEPT ![t] = NoJob]

-----------------------------------------------------------------------------
(***************************************************************************)
(* enterNoPower, enterIdle, exitNoPower and exitIdle, step by step.        *)
(***************************************************************************)

\* Under a.mu: the flag, the note of the light; nothing if the mode is on.
EnterFlag(t) ==
  LET m == job[t].mode
  IN /\ job[t].do = "enter" /\ job[t].step = "flag"
     /\ IF m \in asleep
        THEN Done(t) /\ UNCHANGED <<asleep, sleepDrawn, lightBefore>>
        ELSE /\ asleep' = asleep \cup {m}
             /\ sleepDrawn' = ""
             /\ lightBefore' = IF lightLevel > 0 THEN lightLevel ELSE lightBefore
             /\ Go(t, IF lightLevel > 0 THEN "set" ELSE "call")
     /\ UNCHANGED <<lightLevel, light, told, screen, frame, pageChanged,
                    failed, outside, prev, hold, pc, hand, clash>>

\* The light to put back: none while the other mode is on.
LevelBack(m) == IF Other(m) \in asleep THEN 0 ELSE lightBefore

\* Mutant of Redraw: the page is not marked as changed.
RedrawSleepOnly == sleepDrawn' = "" /\ UNCHANGED pageChanged

\* The screen is to be drawn anew, whatever is on it.
Redraw == sleepDrawn' = "" /\ pageChanged' = TRUE

\* Under a.mu: nothing if the mode is off; the light stays noted, and off,
\* while the other mode is on.  A wake by hand starts the timeout anew, or
\* holds idle mode off.
ExitFlag(t) ==
  LET m == job[t].mode
      back == LevelBack(m)
  IN /\ job[t].do = "exit" /\ job[t].step = "flag"
     /\ IF m \notin asleep
        THEN /\ Done(t)
             /\ UNCHANGED <<asleep, sleepDrawn, pageChanged, lightBefore, drained, hold>>
        ELSE /\ asleep' = asleep \ {m}
             /\ Redraw
             /\ lightBefore' = IF Other(m) \in asleep THEN lightBefore ELSE 0
             /\ job' = [job EXCEPT ![t].level = back,
                                   ![t].step = IF back > 0 THEN "set" ELSE "call"]
             /\ drained' = (drained /\ ~(t = "hand" /\ m = "nopower"))
             /\ hold' = (hold \/ (t = "hand" /\ m = "idle"))
     /\ UNCHANGED <<lightLevel, light, told, screen, frame, failed, plugged, switch,
                    quiet, prev, pc, hand, clash>>

\* Light.Set, outside the lock: off on the way in (level is still 0), back on
\* on the way out.
LightSet(t) ==
  /\ job[t] # NoJob /\ job[t].step = "set"
  /\ light' = job[t].level
  /\ Go(t, "record")
  /\ UNCHANGED <<asleep, lightLevel, lightBefore, told, drawing, outside, prev,
                 hold, pc, hand, clash>>

LightRecord(t) ==
  /\ job[t] # NoJob /\ job[t].step = "record"
  /\ lightLevel' = job[t].level
  /\ IF job[t].do = "brighten" THEN Done(t) ELSE Go(t, "call")
  /\ UNCHANGED <<asleep, lightBefore, light, told, drawing, outside, prev, hold,
                 pc, hand, clash>>

\* Mutant of Callback: the end of a mode is not told.
CallbackOnEnter(t) ==
  /\ job[t] # NoJob /\ job[t].step = "call"
  /\ told' = IF job[t].do = "enter" THEN told \cup {job[t].mode} ELSE told
  /\ Done(t)
  /\ UNCHANGED <<asleep, lights, drawing, outside, prev, hold, pc, hand, clash>>

\* OnNoPower or OnIdle, outside the lock: pause or narrow the client, or undo it.
Callback(t) ==
  /\ job[t] # NoJob /\ job[t].step = "call"
  /\ told' = IF job[t].do = "enter" THEN told \cup {job[t].mode}
             ELSE told \ {job[t].mode}
  /\ Done(t)
  /\ UNCHANGED <<asleep, lights, drawing, outside, prev, hold, pc, hand, clash>>

Step(t) ==
  EnterFlag(t) \/ ExitFlag(t) \/ LightSet(t) \/ LightRecord(t) \/ Callback(t)

-----------------------------------------------------------------------------
(***************************************************************************)
(* The main loop (Run): powerTick, idleTick, then draw; it waits between.   *)
(***************************************************************************)
LoopAt(p) == pc = p /\ Free("loop")

\* The main loop goes into the shared code while the hand is in it, or not.
LoopGoes == clash' = (clash \/ (job' # job /\ ~HandIdle))

\* powerTick's two conditions: to begin no-power mode and to end it.
PowerGone == ~plugged /\ drained /\ quiet /\ "nopower" \notin asleep
PowerBack == plugged /\ "nopower" \in asleep

powerTick ==
  /\ LoopAt("power")
  /\ pc' = "idle"
  /\ drained' = (drained /\ ~plugged)
  /\ IF PowerBack THEN Start("loop", "exit", "nopower")
     ELSE IF PowerGone THEN Start("loop", "enter", "nopower")
     ELSE UNCHANGED job
  /\ LoopGoes
  /\ UNCHANGED <<asleep, lights, told, drawing, plugged, switch, quiet, prev,
                 hold, hand>>

idleTick ==
  LET off == switch = "off"
  IN /\ LoopAt("idle")
     /\ pc' = "draw"
     /\ prev' = switch
     /\ hold' = (hold /\ ~(off /\ prev # "off"))
     /\ IF off /\ asleep = {} /\ ~hold' /\ quiet THEN Start("loop", "enter", "idle")
        ELSE IF ~off /\ "idle" \in asleep THEN Start("loop", "exit", "idle")
        ELSE UNCHANGED job
     /\ LoopGoes
     /\ UNCHANGED <<asleep, lights, told, drawing, outside, hand>>

\* sleepKindLocked, and the picture Frame renders.
Kind == IF "nopower" \in asleep THEN "nopower"
        ELSE IF "idle" \in asleep THEN "idle" ELSE ""
Picture == IF Kind = "" THEN "page" ELSE Kind

\* sleeping() and the start of showSleep: the picture counts as drawn from here
\* on; or, awake, what there is to draw.
Draw ==
  /\ LoopAt("draw")
  /\ IF asleep # {}
     THEN /\ pc' = IF sleepDrawn = Kind THEN "power" ELSE "render"
          /\ sleepDrawn' = Kind
          /\ UNCHANGED pageChanged
     ELSE /\ pc' \in IF pageChanged THEN {"render"} ELSE {"render", "power"}
          /\ pageChanged' = FALSE
          /\ UNCHANGED sleepDrawn
  /\ UNCHANGED <<asleep, lights, told, screen, frame, failed, outside, prev,
                 hold, job, hand, clash>>

\* Show renders a frame of what is on by now.
Render ==
  /\ pc = "render"
  /\ pc' = "show"
  /\ frame' = Picture
  /\ UNCHANGED <<asleep, lights, told, sleepDrawn, screen, pageChanged, failed,
                 outside, prev, hold, job, hand, clash>>

\* Display.Show, later.  A sleeping picture may fail; so may a page, but that is
\* tried again at the next refresh, and this stands for the try that does not.
Show ==
  /\ pc = "show"
  /\ pc' = "power"
  /\ \/ screen' = frame /\ failed' = FALSE
     \/ frame \in Modes \ {screen} /\ failed' = TRUE /\ UNCHANGED screen
  /\ frame' = "page"
  /\ UNCHANGED <<asleep, lights, told, sleepDrawn, pageChanged, outside, prev,
                 hold, job, hand, clash>>

-----------------------------------------------------------------------------
(***************************************************************************)
(* A hand.                                                                 *)
(***************************************************************************)
\* activity(), under a.mu.
Activity ==
  /\ HandIdle
  /\ quiet' = FALSE /\ todo' = asleep
  /\ clash' = (clash \/ ~Free("loop"))

\* A touch or a press of the power button.
Touch ==
  /\ Activity
  /\ UNCHANGED <<asleep, lights, told, drawing, plugged, drained, switch, prev,
                 hold, pc, job, want, chosen>>

\* SetBrightness from the web page: wake first, then set the light.
SetBrightness(n) ==
  /\ Activity
  /\ want' = n /\ chosen' = n
  /\ UNCHANGED <<asleep, lights, told, drawing, plugged, drained, switch, prev,
                 hold, pc, job>>

\* activity() leaves the modes it found on, no-power mode first.
WakeUp(m) ==
  /\ Free("hand")
  /\ m \in todo
  /\ m = "idle" => "nopower" \notin todo
  /\ todo' = todo \ {m}
  /\ Start("hand", "exit", m)
  /\ UNCHANGED <<asleep, lights, told, drawing, outside, prev, hold, pc, want,
                 chosen, clash>>

\* SetBrightness goes on once activity() is done: Light.Set, then the record.
Brighten ==
  /\ Free("hand") /\ todo = {}
  /\ want # NoLevel
  /\ job' = [job EXCEPT !["hand"] = [do |-> "brighten", mode |-> "idle",
                                    step |-> "set", level |-> want]]
  /\ want' = NoLevel
  /\ UNCHANGED <<asleep, lights, told, drawing, outside, prev, hold, pc, todo,
                 chosen, clash>>

-----------------------------------------------------------------------------
(***************************************************************************)
(* The boat.  The timeouts are far longer than a step of either thread.    *)
(***************************************************************************)
Plug ==
  /\ plugged' = ~plugged
  /\ UNCHANGED <<asleep, lights, told, drawing, drained, switch, quiet, prev,
                 hold, pc, job, hand, clash>>

Flip(v) ==
  /\ v # switch
  /\ switch' = v
  /\ UNCHANGED <<asleep, lights, told, drawing, plugged, drained, quiet, prev,
                 hold, pc, job, hand, clash>>

TimePasses ==
  /\ Free("loop") /\ HandIdle
  /\ quiet' = TRUE
  /\ drained' \in {drained, ~plugged}
  /\ hold' \in {hold, FALSE}
  /\ UNCHANGED <<asleep, lights, told, drawing, plugged, switch, prev, pc, job,
                 hand, clash>>

Next ==
  \/ \E t \in Threads : Step(t)
  \/ powerTick \/ idleTick \/ Draw \/ Render \/ Show
  \/ Touch
  \/ \E n \in Levels : SetBrightness(n)
  \/ \E m \in Modes : WakeUp(m)
  \/ Brighten
  \/ Plug
  \/ \E v \in {"on", "off"} : Flip(v)
  \/ TimePasses

Spec == Init /\ [][Next]_vars

\* Each thread goes on: the main loop for ever, a hand until it is done.
FairSpec ==
  /\ Spec
  /\ WF_vars(powerTick \/ idleTick \/ Draw \/ Render \/ Show \/ Step("loop"))
  /\ WF_vars(Step("hand") \/ Brighten \/ \E m \in Modes : WakeUp(m))

-----------------------------------------------------------------------------
\* Both threads have finished what they began.
Settled == Free("loop") /\ HandIdle

\* The client was last told what is so: paused in no-power mode and only then,
\* cut down to the switch in idle mode and only then.
ToldRight == Settled => told = asleep

\* So it is as long as the threads' changes of mode do not overlap.
ClientFollows == ~clash => ToldRight

\* Whatever order the two modes come and go in, the light is off while either
\* is on, and afterwards back where the user put it.
LightFollows == Settled /\ ~clash => light = (IF asleep = {} THEN chosen ELSE 0)

\* The app's record of the light is the truth.
LightIsKnown == Settled /\ ~clash => lightLevel = light

\* The two modes are in force on the client and on the light wherever the two
\* threads did not overlap, and for the loop's own record of the light.
ModesInForce == TypeOK /\ ClientFollows /\ LightFollows /\ LightIsKnown

\* "It never blanks in the middle of someone using it."
NeverBlanksInUse == [][~clash => \A m \in asleep' \ asleep : quiet]_vars

\* Power that is back ends no-power mode, and a switch that is on ends idle
\* mode, with nobody's help: neither lasts for ever beside its mode.
WakesByItself ==
  /\ []<>(plugged => "nopower" \notin asleep)
  /\ []<>(switch = "on" => "idle" \notin asleep)

\* The screen comes to show what the display is in, a sleeping picture or, once
\* it is awake, a page, unless that very picture could not be shown.
ScreenFollows ==
  \A k \in Modes \cup {"page"} : <>[](Picture = k /\ ~failed) => []<>(screen = k)

\* Both: the display, the mode and what is on the screen, follows what is around it,
\* even where the two threads have overlapped.
DisplayFollows == WakesByItself /\ ScreenFollows
=============================================================================
