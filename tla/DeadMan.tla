------------------------------- MODULE DeadMan -------------------------------
(***************************************************************************)
(* The dead-man chain behind a START button, with its clocks.              *)
(*   HELM panel      start_held, sent to the control board by the loop     *)
(*   CYD secondary   its frames arm g_cyd_start_until on the HELM, whose   *)
(*                   loop sends on the CYD's behalf until that time        *)
(*   control board   start_held, dropped HOLD_TIMEOUT_MS after the last    *)
(*                   frame, and CRANK_MAX_MS after cranking began          *)
(* (EngineControl/engine_display/src/engine_display.ino and                *)
(* EngineControl/can_sim/src/can_sim.ino, the repository's control board.) *)
(* One unit of time is HOLD_RESEND_MS.  millis() is an unsigned counter    *)
(* that wraps: here it counts modulo ClockSize.  GLOW and STOP follow the  *)
(* same discipline without the crank limit.                                *)
(***************************************************************************)
EXTENDS Integers, FiniteSetsExt

CONSTANTS HoldTimeout,  \* HOLD_TIMEOUT_MS
          CrankMax,     \* CRANK_MAX_MS
          Delay,        \* bound on the time a frame is under way
          ClockSize,    \* 2^32 ms: the value at which millis() wraps
          HelmUptime,   \* the HELM is restarted when it has run this long
          BoardBoot,    \* the board's clock when the HELM's is first 0
          Overtaken     \* the board's radio task runs inside its deadman_tick

ASSUME DeadManAssumption ==
  /\ HoldTimeout \in Nat \ {0} /\ CrankMax \in Nat \ {0} /\ Delay \in Nat
  /\ ClockSize \in Nat /\ ClockSize > 2 * (HoldTimeout + CrankMax)
  /\ HelmUptime \in 1 .. ClockSize
  /\ BoardBoot \in 0 .. ClockSize - 1
  /\ Overtaken \in BOOLEAN

VARIABLES
  fingers,        \* the displays whose START is being pressed
  air,            \* frames under way: [to |-> "helm" or "board", age |-> ...]
  hnow,           \* millis() on the HELM
  until,          \* g_cyd_start_until[e]
  bnow,           \* millis() on the board
  seen,           \* `now' of a deadman_tick that is not finished
  looped,         \* the board's loop has come round in this unit of time
  start_held, start_last_rx, crank_start, running,   \* sim_engine_t
  owed,           \* history: for how long a START may still be felt
  silence,        \* history: time since the board last took a frame
  cranked         \* history: for how long the starter has turned

helmClock == <<hnow, until>>
control == <<start_held, start_last_rx, crank_start, running>>
holdVars == <<fingers, air, helmClock, bnow, seen, looped, control,
              owed, silence, cranked>>

Displays == {"helm", "cyd"}
NotYet == -1
Clock == 0 .. ClockSize - 1

\* uint32_t subtraction, and the same difference read as int32_t.
Minus(a, b) == (a - b) % ClockSize
Signed(d) == IF d < ClockSize \div 2 THEN d ELSE d - ClockSize

\* How long after its release a button of each display may still be felt: the
\* CYD's frames are under way and held twice.
Echo == [helm |-> HoldTimeout + Delay,
         cyd |-> 2 * (HoldTimeout + Delay)]
\* One unit more for the board's loop to come round, and one if time may pass
\* inside its tick.
Slack == IF Overtaken THEN 2 ELSE 1

\* From when it is pressed until, released, it must no longer be felt.
Felt(d) == Echo[d] + Slack + 1

UpTo(n, bound) == IF n > bound THEN n ELSE n + 1

HoldTypeOK ==
  /\ fingers \subseteq Displays
  /\ air \subseteq [to : {"helm", "board"}, age : 0 .. Delay]
  /\ hnow \in Clock /\ until \in Clock
  /\ bnow \in Clock /\ seen \in Clock \cup {NotYet}
  /\ looped \in BOOLEAN
  /\ start_held \in BOOLEAN /\ running \in BOOLEAN
  /\ start_last_rx \in Clock /\ crank_start \in Clock
  /\ owed \in 0 .. Felt("cyd")
  /\ silence \in 0 .. HoldTimeout + Slack + 1
  /\ cranked \in 0 .. CrankMax + 3 + Slack

HoldInit ==
  /\ fingers = {} /\ air = {}
  /\ hnow = 0 /\ until = 0
  /\ bnow = BoardBoot
  /\ seen = NotYet /\ looped = FALSE
  /\ start_held = FALSE /\ start_last_rx = 0
  /\ crank_start = 0 /\ running = FALSE
  /\ owed = 0
  /\ silence = HoldTimeout + Slack + 1
  /\ cranked = 0

-----------------------------------------------------------------------------
\* start_cb on either display: START goes down or comes up.
Press(d) ==
  /\ d \notin fingers
  /\ fingers' = fingers \cup {d}
  /\ owed' = Max({owed, Felt(d)})
  /\ UNCHANGED <<air, helmClock, bnow, seen, looped, control, silence, cranked>>

LetGo(d) ==
  /\ fingers' = fingers \ {d}
  /\ d \in fingers
  /\ UNCHANGED <<air, helmClock, bnow, seen, looped, control, owed, silence, cranked>>

Sent(node) == air' = air \cup {[to |-> node, age |-> 0]}

\* can_send_commands on the CYD, which bus_send turns into a radio frame.
CydSend ==
  /\ "cyd" \in fingers
  /\ Sent("helm")
  /\ UNCHANGED <<fingers, helmClock, bnow, seen, looped, control,
                 owed, silence, cranked>>

\* cyd_command_frame, in the HELM's radio task: arm the hold.
CydCommandFrame ==
  /\ \E f \in air : f.to = "helm" /\ air' = air \ {f}
  /\ until' = (hnow + HoldTimeout) % ClockSize
  /\ UNCHANGED <<fingers, hnow, bnow, seen, looped, control,
                 owed, silence, cranked>>

\* The hold a CYD armed has not lapsed yet.
CydHolds == Signed(Minus(until, hnow)) > 0

\* can_send_commands on the HELM: its own button, and what a CYD armed.
HelmSend ==
  /\ "helm" \in fingers \/ CydHolds
  /\ Sent("board")
  /\ UNCHANGED <<fingers, helmClock, bnow, seen, looped, control,
                 owed, silence, cranked>>

\* A frame is lost, or the HELM does not relay it (the engine is not known to
\* have its ignition on).
Lose ==
  /\ \E f \in air : air' = air \ {f}
  /\ UNCHANGED <<fingers, helmClock, bnow, seen, looped, control,
                 owed, silence, cranked>>

\* sim_engine_recv_cmd, CMD_START_HELD.
StartHeld ==
  /\ \E f \in air : f.to = "board" /\ air' = air \ {f}
  /\ start_held' = TRUE
  /\ start_last_rx' = bnow
  /\ silence' = 0
  /\ UNCHANGED <<fingers, helmClock, bnow, seen, looped, crank_start, running,
                 owed, cranked>>

\* Mutants of Silent: a deadline that forgets the wrap, and a check made only
\* while the engine is cranked.
SilentByDeadline(now) == now > (start_last_rx + HoldTimeout) % ClockSize
SilentInCrank(now) == crank_start # 0 /\ Minus(now, start_last_rx) > HoldTimeout

\* sim_engine_deadman_tick, with the time it read at its start.
Silent(now) == Minus(now, start_last_rx) > HoldTimeout
CrankedOut(now) == crank_start # 0 /\ Minus(now, crank_start) > CrankMax

\* sim_engine_physics_tick: the crank clock (0: not cranking), an engine that
\* may catch while it is cranked, and one that runs and may be stopped.
Physics ==
  LET cranking == start_held' /\ ~running
  IN /\ crank_start' = IF ~cranking THEN 0
                       ELSE IF crank_start = 0 THEN bnow ELSE crank_start
     /\ running' \in BOOLEAN
     /\ running' => running \/ cranking

Deadman(now) ==
  /\ start_held' = (start_held /\ ~Silent(now) /\ ~CrankedOut(now))
  /\ Physics
  /\ looped' = TRUE
  /\ cranked' = IF start_held' /\ ~running THEN cranked ELSE 0
  /\ UNCHANGED <<fingers, air, helmClock, bnow, start_last_rx, owed, silence>>

\* sim_engine_tick, in one step or, when the radio task may run inside it,
\* in two: `now' is read before start_last_rx is.
BoardTick ==
  /\ seen = NotYet
  /\ Deadman(bnow)
  /\ UNCHANGED seen

BoardReadsClock ==
  /\ Overtaken
  /\ seen = NotYet
  /\ seen' = bnow
  /\ UNCHANGED <<fingers, air, helmClock, bnow, looped, control,
                 owed, silence, cranked>>

BoardCompares ==
  /\ seen # NotYet
  /\ Deadman(seen)
  /\ seen' = NotYet

\* The HELM is restarted, and its variables with it.
HelmReboot ==
  /\ hnow # 0
  /\ hnow' = 0 /\ until' = 0
  /\ fingers' = fingers \ {"helm"}
  /\ UNCHANGED <<air, bnow, seen, looped, control, owed, silence, cranked>>

\* A unit of time passes: the board's loop has come round at least once, and
\* no frame is under way for longer than Delay.
Pass ==
  /\ looped
  /\ \A f \in air : f.age < Delay
  /\ HelmUptime = ClockSize \/ hnow + 1 < HelmUptime
  /\ hnow' = (hnow + 1) % ClockSize
  /\ bnow' = (bnow + 1) % ClockSize
  /\ air' = {[f EXCEPT !.age = @ + 1] : f \in air}
  /\ looped' = FALSE
  /\ owed' = Max({0, owed - 1} \cup {Felt(d) : d \in fingers})
  /\ silence' = UpTo(silence, HoldTimeout + Slack)
  /\ cranked' = IF start_held /\ ~running THEN UpTo(cranked, CrankMax + 2 + Slack) ELSE cranked
  /\ UNCHANGED <<fingers, until, seen, control>>

HoldNext ==
  \/ \E d \in Displays : Press(d) \/ LetGo(d)
  \/ CydSend \/ CydCommandFrame
  \/ HelmSend \/ Lose
  \/ StartHeld
  \/ BoardTick \/ BoardReadsClock \/ BoardCompares
  \/ HelmReboot
  \/ Pass

HoldSpec == HoldInit /\ [][HoldNext]_holdVars

-----------------------------------------------------------------------------
\* The starter is engaged only while some START is pressed, or was within the
\* time its frames are held and under way: "finger is on the button NOW, never
\* a latch", through every loss, delay and restart of the HELM.
HeldByAFinger ==
  start_held => owed > 0

\* The starter never turns for longer than CRANK_MAX_MS in one go: the loop
\* starts its clock up to one unit late, compares it up to Slack units late, and
\* takes a start at millis() = 0 for not started.
CrankIsBounded == cranked <= CrankMax + 2 + Slack

\* So the starter is in hand: while it turns somebody holds it, and it stops.
StarterInHand == HoldTypeOK /\ HeldByAFinger /\ CrankIsBounded

\* The board drops a held START only when no frame came for HOLD_TIMEOUT_MS, or
\* the crank time is over, wherever its clock stands; but for a tick that was
\* overtaken by time and a frame after it read the clock.
DroppedForAReason ==
  [][start_held /\ ~start_held'
       => \/ silence > HoldTimeout \/ cranked >= CrankMax
          \/ seen \notin {NotYet, bnow}]_holdVars
=============================================================================
