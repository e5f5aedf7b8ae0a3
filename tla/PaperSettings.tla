--------------------------- MODULE PaperSettings ---------------------------
(***************************************************************************)
(* How a setting of the paper display is changed. The touch screen and the *)
(* web page are two threads: each changes the App's fields and copies what *)
(* is to be saved under a.mu, lets it go, and then does the rest one thing *)
(* after another: save the copy, tell the SignalK client its server, the   *)
(* State which paths to watch and which switch, and the demo's Controller. *)
(* The main loop's no-power mode stops and starts the demo's feed as well. *)
(* The feed ticks, and the server's messages arrive, in threads of their   *)
(* own. A save may fail, which is only logged: the file stays as it was.   *)
(*                                                                         *)
(* Values stand for themselves: two servers, two Nav boxes, two switches.  *)
(* One of each pair is the default. What the connection does about a new   *)
(* server is in SignalKClient, how the display sleeps in PaperSleep.       *)
(***************************************************************************)
EXTENDS Naturals, Sequences

CONSTANT Overlapping    \* the settings whose change may overlap another change

Fields == {"server", "box", "idle", "demo"}
ASSUME OverlapAssumption == Overlapping \subseteq Fields

VARIABLES app,    \* the App's fields under a.mu
          file,   \* settings.json
          url,    \* the client's server
          state,  \* signalk.State: watched paths, switch, demo mode, whose data it holds
          feed,   \* the demo's Controller and its goroutine
          msg,    \* a server's message in Client.handle: none, or past the demo check
          change,    \* what each thread has still to do for its change
          mixed,  \* history: two changes have been under way at once since the start
          lastSave  \* history: what settings.Save was last given, and whether it failed

settingsVars == <<app, file, url, state, feed, msg, change, mixed, lastSave>>

Pair == {"default", "other"}
Changers == {"touch", "web", "loop"}
FeedIdle == [on : BOOLEAN, path : Pair]
Saved == [server : Pair, box : Pair, idle : FeedIdle]
Switches == Pair \union {"none"}

SwitchOf(idle) == IF idle.on THEN idle.path ELSE "none"
Part(a) == [server |-> a.server, box |-> a.box, idle |-> a.idle]      \* settingsFileLocked

Fresh == [server |-> "default", box |-> "default",
          idle |-> [on |-> FALSE, path |-> "default"], demo |-> FALSE, noPower |-> FALSE]
Nothing == [todo |-> <<>>, field |-> "demo", want |-> Fresh, copy |-> Part(Fresh), on |-> FALSE]

NoChange == \A t \in Changers : change[t].todo = <<>>

SettingsTypeOK ==
    /\ app \in [server : Pair, box : Pair, idle : FeedIdle, demo : BOOLEAN, noPower : BOOLEAN]
    /\ file \in Saved /\ url \in Pair
    /\ state \in [watch : Pair, switch : Switches, demo : BOOLEAN, held : SUBSET {"demo", "server"}]
    /\ feed \in [at : {"none", "idle", "checked"}, stop : BOOLEAN, lock : Changers \union {"free"}]
    /\ msg \in {"none", "passed"}
    /\ mixed \in BOOLEAN /\ lastSave \in [copy : Saved, failed : BOOLEAN]

(* main: everything follows the file; the demo is off. *)
Boots(f) ==
    /\ app' = [server |-> f.server, box |-> f.box, idle |-> f.idle, demo |-> FALSE, noPower |-> FALSE]
    /\ url' = f.server
    /\ state' = [watch |-> f.box, switch |-> SwitchOf(f.idle), demo |-> FALSE, held |-> {}]
    /\ feed' = [at |-> "none", stop |-> FALSE, lock |-> "free"]
    /\ msg' = "none" /\ change' = [t \in Changers |-> Nothing] /\ mixed' = FALSE
    /\ lastSave' = [copy |-> f, failed |-> FALSE]

SettingsInit ==
    /\ app = Fresh
    /\ file = Part(app)
    /\ url = "default"
    /\ state = [watch |-> "default", switch |-> "none", demo |-> FALSE, held |-> {}]
    /\ feed = [at |-> "none", stop |-> FALSE, lock |-> "free"]
    /\ msg = "none" /\ change = [t \in Changers |-> Nothing] /\ mixed = FALSE
    /\ lastSave = [copy |-> file, failed |-> FALSE]

RestartApp == Boots(file) /\ UNCHANGED file

-----------------------------------------------------------------------------
(* A change begins. On the touch screen the fields change at once; a tap   *)
(* while the screen sleeps only wakes it. A request wakes it and then      *)
(* changes the fields; what it does not mention of the idle choice it took *)
(* from the App when it came in.                                           *)

MayChange(t) ==
    IF NoChange THEN Fields
    ELSE IF change[t].todo = <<>> /\ \A u \in Changers :
                 change[u].todo # <<>> => change[u].field \in Overlapping
         THEN Overlapping ELSE {}

Begins(t, j) ==
    /\ change' = [change EXCEPT ![t] = j]
    /\ mixed' = (mixed \/ ~NoChange)

Wakes == app.noPower
WakeSteps == <<"read", "demo">>

AfterUnsaved(t, field) ==
    CASE t = "touch" /\ field = "box"    -> <<"boxes", "watch", "save">>
      [] t = "touch" /\ field = "server" -> <<"save", "server">>
      [] t = "touch" /\ field = "idle"   -> <<"choice", "switch">>
      [] t = "touch" /\ field = "demo"   -> <<"reread", "demo", "reconnect">>
      [] t = "web"   /\ field = "box"    -> <<"save", "boxes", "watch">>
      [] t = "web"   /\ field = "server" -> <<"save", "server", "boxes", "watch">>
      [] t = "web"   /\ field = "idle"   -> <<"save", "choice", "switch">>
      [] t = "web"   /\ field = "demo"   -> <<"demo", "reconnect">>

After(t, field) ==
    CASE t = "touch" /\ field = "box"    -> <<"boxes", "watch", "save">>
      [] t = "touch" /\ field = "server" -> <<"save", "server">>
      [] t = "touch" /\ field = "idle"   -> <<"choice", "switch", "save">>
      [] t = "touch" /\ field = "demo"   -> <<"reread", "demo", "reconnect">>
      [] t = "web"   /\ field = "box"    -> <<"save", "boxes", "watch">>
      [] t = "web"   /\ field = "server" -> <<"save", "server", "boxes", "watch">>
      [] t = "web"   /\ field = "idle"   -> <<"save", "choice", "switch">>
      [] t = "web"   /\ field = "demo"   -> <<"demo", "reconnect">>

Changed(field, v) == [app EXCEPT ![field] = v]
Others == UNCHANGED <<file, url, state, feed, msg, lastSave>>

HandleSettingsTap ==
    /\ ~Wakes
    /\ \E field \in MayChange("touch") :
         \E v \in CASE field = "idle" -> {[app.idle EXCEPT !.on = ~@]}
                    [] field = "demo" -> {~app.demo}
                    [] OTHER -> Pair :
           /\ field = "server" => v # app.server
           /\ app' = Changed(field, v)
           /\ Begins("touch", [Nothing EXCEPT !.todo = After("touch", field), !.field = field,
                                               !.copy = Part(app')])
    /\ Others

WakingTap ==
    /\ Wakes /\ "demo" \in MayChange("touch")
    /\ app' = [app EXCEPT !.noPower = FALSE]
    /\ Begins("touch", [Nothing EXCEPT !.todo = WakeSteps])
    /\ Others

Control ==
    /\ app' = [app EXCEPT !.noPower = FALSE]
    /\ \E field \in MayChange("web") :
         \E v \in CASE field = "idle" -> {i \in FeedIdle : i.on = app.idle.on \/ i.path = app.idle.path}
                    [] field = "demo" -> BOOLEAN
                    [] OTHER -> Pair :
           Begins("web", [Nothing EXCEPT !.todo = (IF Wakes THEN WakeSteps ELSE <<>>) \o <<"set">>,
                                         !.field = field, !.want = [Fresh EXCEPT ![field] = v]])
    /\ Others

(* powerTick: on the battery for long enough; power is back. *)
EnterNoPower ==
    /\ ~app.noPower /\ "demo" \in MayChange("loop")
    /\ app' = [app EXCEPT !.noPower = TRUE]
    /\ Begins("loop", [Nothing EXCEPT !.todo = <<"read", "rest">>])
    /\ Others

ExitNoPower ==
    /\ app.noPower /\ "demo" \in MayChange("loop")
    /\ app' = [app EXCEPT !.noPower = FALSE]
    /\ Begins("loop", [Nothing EXCEPT !.todo = WakeSteps])
    /\ Others

-----------------------------------------------------------------------------
(* The steps that follow. *)

Due(t, step) == change[t].todo # <<>> /\ Head(change[t].todo) = step
Left(t, rest) == change' = [change EXCEPT ![t] = IF rest = <<>> THEN Nothing ELSE [@ EXCEPT !.todo = rest]]
StepDone(t) == Left(t, Tail(change[t].todo))

(* SetBox, SetServer, SetIdleSwitch, SetDemoMode: the fields, under a.mu. *)
SetField ==
    /\ Due("web", "set")
    /\ LET field == change["web"].field
           v == change["web"].want[field] IN
       /\ app' = Changed(field, v)
       /\ change' = [change EXCEPT !["web"].copy = Part(app'), !["web"].on = app'.demo,
                     !["web"].todo = CASE field = "server" /\ app.server = v -> <<"save">>
                                       [] field = "demo" /\ app.demo = v -> <<>>
                                       [] OTHER -> After("web", field)]
    /\ UNCHANGED <<file, url, state, feed, msg, mixed, lastSave>>

Save(t) ==
    /\ Due(t, "save")
    /\ \E failed \in BOOLEAN :
         /\ lastSave' = [copy |-> change[t].copy, failed |-> failed]
         /\ file' = IF failed THEN file ELSE change[t].copy
    /\ StepDone(t)
    /\ UNCHANGED <<app, url, state, feed, msg, mixed>>

SetServer(t) ==
    /\ Due(t, "server")
    /\ url' = change[t].copy.server
    /\ state' = [state EXCEPT !.held = {}] /\ StepDone(t)
    /\ UNCHANGED <<app, file, feed, msg, mixed, lastSave>>

SyncWatch(t) ==
    \/ /\ Due(t, "boxes")
       /\ change' = [change EXCEPT ![t].todo = Tail(@), ![t].want.box = app.box]
       /\ UNCHANGED <<app, file, url, state, feed, msg, mixed, lastSave>>
    \/ /\ Due(t, "watch")
       /\ state' = [state EXCEPT !.watch = change[t].want.box] /\ StepDone(t)
       /\ UNCHANGED <<app, file, url, feed, msg, mixed, lastSave>>

ApplyIdle(t) ==
    \/ /\ Due(t, "choice")
       /\ change' = [change EXCEPT ![t].todo = Tail(@), ![t].want.idle = app.idle]
       /\ UNCHANGED <<app, file, url, state, feed, msg, mixed, lastSave>>
    \/ /\ Due(t, "switch")
       /\ state' = [state EXCEPT !.switch = SwitchOf(change[t].want.idle)] /\ StepDone(t)
       /\ UNCHANGED <<app, file, url, feed, msg, mixed, lastSave>>

(* OnNoPower asks whether the demo is on, and leaves its feed alone if not. *)
ReadDemo(t) ==
    \/ /\ Due(t, "reread")
       /\ change' = [change EXCEPT ![t].todo = Tail(@), ![t].on = app.demo]
       /\ UNCHANGED <<app, file, url, state, feed, msg, mixed, lastSave>>
    \/ /\ Due(t, "read")
       /\ IF app.demo
          THEN change' = [change EXCEPT ![t].todo = Tail(@), ![t].on = change[t].todo[2] = "demo"]
          ELSE Left(t, Tail(Tail(change[t].todo)))
       /\ UNCHANGED <<app, file, url, state, feed, msg, mixed, lastSave>>

(* Controller.Set, under its own lock. Turning the feed off waits for the  *)
(* goroutine to end before the State leaves demo mode.                     *)
Due2(t) == Due(t, "demo") \/ Due(t, "rest")

SetDemoOn(t) ==
    /\ Due2(t) /\ feed.lock = "free" /\ change[t].on
    /\ IF feed.at = "none"
       THEN /\ state' = [state EXCEPT !.demo = TRUE, !.held = {}]
            /\ feed' = [feed EXCEPT !.at = "idle"]
       ELSE UNCHANGED <<state, feed>>
    /\ StepDone(t)
    /\ UNCHANGED <<app, file, url, msg, mixed, lastSave>>

SetDemoOff(t) ==
    /\ Due2(t) /\ feed.lock = "free" /\ ~change[t].on
    /\ IF feed.at = "none"
       THEN StepDone(t) /\ UNCHANGED feed
       ELSE /\ feed' = [feed EXCEPT !.stop = TRUE, !.lock = t]
            /\ change' = [change EXCEPT ![t].todo = <<"leave">> \o Tail(@)]
    /\ UNCHANGED <<app, file, url, state, msg, mixed, lastSave>>

LeaveDemoAtOnce(t) ==
    /\ Due(t, "leave")
    /\ state' = [state EXCEPT !.demo = FALSE, !.held = {}]
    /\ feed' = [feed EXCEPT !.stop = feed.at # "none", !.lock = "free"] /\ StepDone(t)
    /\ UNCHANGED <<app, file, url, msg, mixed, lastSave>>

LeaveDemo(t) ==
    /\ Due(t, "leave") /\ feed.at = "none"
    /\ state' = [state EXCEPT !.demo = FALSE, !.held = {}]
    /\ feed' = [feed EXCEPT !.stop = FALSE, !.lock = "free"] /\ StepDone(t)
    /\ UNCHANGED <<app, file, url, msg, mixed, lastSave>>

Reconnect(t) ==
    /\ Due(t, "reconnect")
    /\ state' = IF change[t].on THEN state ELSE [state EXCEPT !.held = {}]
    /\ StepDone(t)
    /\ UNCHANGED <<app, file, url, feed, msg, mixed, lastSave>>

-----------------------------------------------------------------------------
(* The feed's goroutine: FeedDemo asks whether demo mode is on, then       *)
(* applies. Client.handle asks whether it is off, then applies.            *)
FeedDemo ==
    \/ /\ feed.at = "idle" /\ state.demo
       /\ feed' = [feed EXCEPT !.at = "checked"] /\ UNCHANGED state
    \/ /\ feed.at = "checked"
       /\ state' = [state EXCEPT !.held = @ \union {"demo"}]
       /\ feed' = [feed EXCEPT !.at = "idle"]

FeedEnds == feed.at = "idle" /\ feed.stop /\ feed' = [feed EXCEPT !.at = "none"] /\ UNCHANGED state

Handle ==
    \/ /\ msg = "none" /\ ~app.noPower /\ ~state.demo
       /\ msg' = "passed" /\ UNCHANGED state
    \/ /\ msg = "passed"
       /\ state' = [state EXCEPT !.held = @ \union {"server"}]
       /\ msg' = "none"

ChangeSteps(t) ==
    \/ Save(t) \/ SetServer(t) \/ SyncWatch(t) \/ ApplyIdle(t) \/ ReadDemo(t)
    \/ SetDemoOn(t) \/ SetDemoOff(t) \/ LeaveDemo(t) \/ Reconnect(t)

SettingsNext ==
    \/ HandleSettingsTap \/ WakingTap \/ Control \/ EnterNoPower \/ ExitNoPower
    \/ SetField \/ \E t \in {u \in Changers : change[u].todo # <<>>} : ChangeSteps(t)
    \/ (FeedDemo \/ FeedEnds) /\ UNCHANGED <<app, file, url, msg, change, mixed, lastSave>>
    \/ Handle /\ UNCHANGED <<app, file, url, feed, change, mixed, lastSave>>
    \/ RestartApp

SettingsSpec == SettingsInit /\ [][SettingsNext]_settingsVars

-----------------------------------------------------------------------------
(* Once a change is done every setting as it is has been given to be       *)
(* saved, those of earlier saves that failed with it; the file holds that   *)
(* unless this last save failed; and whatever became of the file, the       *)
(* client, the watched paths, the switch and the demo's feed follow the     *)
(* settings, wherever the change was made: when no two changes were under   *)
(* way at once.                                                             *)
FileIsCurrent == NoChange /\ ~mixed =>
    lastSave.copy = Part(app) /\ (file = lastSave.copy \/ lastSave.failed)

OthersFollow == NoChange /\ ~mixed =>
    /\ url = app.server /\ state.watch = app.box /\ state.switch = SwitchOf(app.idle)
    /\ state.demo = (app.demo /\ ~app.noPower) /\ state.demo = (feed.at # "none")

SavedIsCurrent == SettingsTypeOK /\ FileIsCurrent /\ OthersFollow

(* However changes, ticks and messages overlap: out of demo mode the State *)
(* holds nothing the demo made up.                                         *)
DemoNeverLeaks == ~state.demo => "demo" \notin state.held

(* "While it is on, only FeedDemo changes the state" (SetDemo's comment). *)
DemoIsAlone == state.demo => "server" \notin state.held
=============================================================================
