# Verification of OpenBoatExperiments

TLA+ models of the parts of this repository whose correctness depends on order,
time, loss, restarts and several threads; the TLC runs that check them on small
instances; and TLAPS proofs of the properties that matter most for every instance.
Paths below are relative to the repository root (`src/`).

## 1. The system

The repository is a collection of boat electronics. What runs:

| part | what it is | state that matters | hard behaviour |
|---|---|---|---|
| **Engine bus** `EngineControl/` | A HELM display is the master of a CAN / ESP-NOW bus with up to four engine control boards, alarmers and small cockpit displays (CYD). `engine_display.ino` is both displays, `can_sim.ino` the repository's control board and alarmer, `can_protocol.h` the contract | enrolment table in RAM and flash; selected engine, per-engine power, dead-man flags, autostart; relay state, crank clock; alarm and silence tables; wizard, PIN, update queue | an LVGL task, a main loop and radio callbacks share variables with no lock; frames are lost, repeated, delayed; either end restarts; `millis()` wraps |
| **Fleet radio** `lib/TobeFleet` | ESP-NOW peers, keys, signed frames | replay slots, peer table, pending upgrade, channel | lost counters, restarts, several channels |
| **Paper display** `SignalKPaperDisplay/` | A Go program on e-ink readers that shows SignalK data, with a shell launcher | sleep modes, light, screen, client; settings; server connection; its own program file | main loop, touch reader and web handlers call each other; callbacks outside the lock; power cuts between renames |
| **SeaTalk bridge** `Esp32RaymarineSeatalk/` | SeaTalk datagrams to NMEA 2000, MQTT, SignalK | routing matrix, edge ring, queue, self-echo windows, logs | a shared wire that is heard again; a ring walked while it fills |
| **Man overboard** `ManOverBoard/` | BLE tags watched by hubs that alarm or resolve them | slots and last sightings, alarm stage, enrolled list, clock estimate | lost frames, identifiers that rotate, clocks that differ, a table that fills |
| **FishFinder bridges** `FishFinderProBluetooth*/` | BLE sonar to a serial port and to a screen | connection flags, settings, frame buffer, waterfall | a loop and the Bluetooth host's task without a lock |
| **OpenSensor** `OpenSensor/` | a sensor node with a portal | name and password, button, portal timer | an interrupt against the loop |
| **Tobe libraries** `lib/` | OTA, WiFi, command line, log, CYD drivers | update result, WiFi credentials, history, ring | power cuts between writes, several tasks printing |
| TheHub, `build/`, hardware | stubs, scripts, KiCad | - | - |

How they interact: engine boards, alarmers and displays exchange bus frames (CAN,
a direct wire or ESP-NOW, relayed by the HELM); within a display the LVGL task
writes flags that the main loop turns into frames. In the paper display the sleep
modes call the client through `OnNoPower` and `OnIdle`, the settings call it
through `OnServerChange`, the client fills the `State` the pages read, and a new
program is put under the running one and started by the launcher. The other
projects are devices of their own; every TOBE firmware has the command line and the
log, and the fish finder's screen is where WiFi and OTA libraries are used in full.

## 2. What is modelled

One module per component; `MC*` modules make the instances that are checked, `*Proofs`
modules hold the theorems: `HelmProofs` those of the HELM's screens, update check and
alarms, `UpdateProofs` those of both program updates, `PaperProofs` those of the paper
display's settings and sleep, `DeviceProofs` those of the other devices. Every module
says at its head what it leaves out; the main points:

### Engine bus

**`IdRegistry`, `Enrollment`, `EnrollmentProofs`, `MCEnrollment`.**
`IdRegistry` is the promise: an index is granted once, to one board, out of the
pool of its kind, for ever; a board takes only what it was granted. `Enrollment` is
the protocol. A frame is a member of a set: received any number of times, in any
order, until it is lost. `Scan`, `Claim`, `Store`, `Send` are the steps of
`enroll_find_or_assign` and `send_enroll_assign` between which another dispatching
task may run; `Contexts` says which tasks dispatch (`loop`: `can_poll`; `radio`: the
ESP-NOW callback). `HelmRestart` reloads the table from flash, `PowerCut` restarts a
board, `FactoryReset` is `prefs.clear()`. The refinement maps `owner` to the table in
flash: the grant is the write. Left out: the retry timers (a board asks at any
moment) and a boot with no flash.

**`HelmPanel`, `HelmPanelProofs`, `MCHelmPanel`, `MCPanel`.** Touch callbacks, the 200 ms
`ui_tick` with `autostart_tick` in it, the telemetry handler and the loop's commands
(`Outgoing`), of the primary role. `Tick` is the whole `ui_tick`, in its order. With
`Preempted`, the LVGL task may run between the handler's test of `sel_engine` and its
writes (`rx`). The `millis()` timers are abstracted to "run out" (`due`) and "not
long / long enough" (`catching`). `gPower` stands for `g_power` and `ign_commanded`,
which `ui_tick` sets together. A frame the loop sends arrives at once or is lost. A
released button is reported to a widget even after it was disabled, as LVGL does.

**`HelmScreen`.** The windows of the HELM's settings: wizard, lock, PIN pad, factory
reset, and what each writes to flash. `Finish` stores the wizard's answers key by key
and may be cut after any of them. Every callback runs on the LVGL task and is one step.

**`UpdateCheck`.** "Check for Updates": the tap's two writes, the loop's
`check_for_update_tick` (reading the request and clearing it are two steps), and
`ui_tick`, which shows the outcome or starts Update All for the serial line.

**`DeadMan`, `DeadManProofs`.** A START from the HELM or a CYD, through the HELM's loop to the board's
relay, with the clocks as they are: unsigned, wrapping (`ClockSize`), compared by
difference, signed (`g_cyd_start_until`) or unsigned (`deadman_tick`). One unit of
time is `HOLD_RESEND_MS`; frames take up to `Delay`; the board's loop comes round at
least once in a unit. With `Overtaken` the radio task stores `start_last_rx` between
`deadman_tick`'s reading of the clock and its comparison. `StartHeld` is the START
branch of `sim_engine_handle_cmd`, `Deadman` is `deadman_tick` with the physics'
crank clock. GLOW and STOP have the same discipline with no crank limit.

**`Alarms`.** The engine's flags, its telemetry to the HELM and the
alarmer (either may miss it), the panel's mirror (`can_handle_rx`, `ui_tick`,
`mute_cb`), the one CMD_ALARM_SILENCE the loop sends, and the alarmer's tables.
`overrev` is the HELM's own alarm. Telemetry keeps its order, as on the bus.

**`FleetRadio`.** `fleet_security.h`, `espnow_pairing.h` and the routing of
`espnow_bus.h`: replay slots and counters, the peer table and its delayed upgrade to
an encrypted peer (one `g_pending_upgrade_mac`), the hunt over channels after lost
contact, HELLO and ACK, and which transport the HELM sends an engine's commands down.
Every node has the fleet's secret, so a tag always matches; freshness is what is left.

**`FleetUpdate`.** Update All: manifest, the queue of engines, the two chunks that
carry an image's address and checksum (lost, in order, reassembled in one buffer), a
board's download (`apply()`: whole, cut short, with or without a length), its
restart, and the HELM's own update last. `ota_device_update_cb`,
`ota_send_remote_start` and `remote_ota_modal_tick` are called from nowhere and are
not modelled. What a board runs after a truncated image it accepted is `Broken`.

### Paper display

**`PaperSleep`.** No-power and idle mode on two threads: the main loop (`powerTick`,
`idleTick`, `Draw`, `Render`, `Show`) and a hand (touch, power key, web). `Step(t)`
runs the code the two share, one step for each stretch under `a.mu` and each call
outside it: `flag`, `set` (the light), `record`, `call` (`OnNoPower`, `OnIdle`).
`clash` remembers that the threads ever were in that code together, `failed` that the
last sleeping picture could not be shown. A switch whose value is not known counts as
on, as in `idleTick`.

**`SignalKClient`, `SignalKClientProofs`.** `Run` and `session` as one thread with a
program counter; `SetServer`, `Reconnect`, `Resync`, `SetIdle`, `SetPaused` from any
number of others, each in the pieces the code has: under `c.mu`, `State.Reset`, the
captured `cancel`. `cancel` means "c.cancel ends the session in use", a call's `mine`
the same of the one it captured. Of the values there is only from which servers State
holds some (`some`) and from which everything (`all`), which a server says once, on
connecting. `cancel()` closes nothing by itself: another goroutine does, once it sees
the context ended (`client.go:261-269`), and until it has, and from what was buffered
by then, messages of the ended session are still read and applied (`Read`, `Apply`);
`late` remembers that one was. `clash` remembers that Run, or another call, went on in
the middle of a call, or that a call came while a message was in hand.

**`PaperSettings`.** One setting of each kind (server, box, switch, demo), changed
from the screen and from the web: the field and the copy under `a.mu`, then saving,
the client, the watched paths, the demo's Controller, one after the other; the demo's
feed and the server's messages in threads of their own. A save may fail and leave the
file as it was; that is only logged (`app.go:648-650`, `control.go:156-158`), and
`lastSave` remembers what was to be written. `Overlapping` says for which settings two
changes may be under way at once; `mixed` remembers that they were.

**`PaperUpdate`.** `update.Apply` in its two threads (periodic, "Update now") as the
file operations it makes, inodes included, and `startpaper.sh`: start, crash count,
rollback, giving up, the `disable` and `pause` files. Power may fail between any two
steps, the renames of an update and the moves of a rollback included. `Apply` does not
sync what it writes: until `Writeback` a power cut may lose any part of the new file
(`unsynced`, `Unwritten`); renames are taken to reach the disk in their order, and the
rename that puts the old program back to succeed. `TwoAtOnce` admits both updaters in
`Apply` at once.

### The other devices

**`SeaTalkBridge`.** One loop by stages: the edge ring an interrupt fills, the queue,
the routing matrix, the four legs (SeaTalk, CAN, MQTT, SignalK), the demo and the
navigation test, the loop-back test. A reading remembers where it was born and how
often the board put it on the wire. **`ReceiveLog`**: the bridge's rings of received
messages and the page that walks them while they fill.

**`MobScreen`.** The hub that PlatformIO builds, `ESP32/src/display_mob_test.cpp`: a
pass of `loop()` part by part, the table's slots by identifier (EID) with eviction and
the pruning of stale strangers, the enrolled list (flash), missing tags, the role a
rotated identifier takes over, escalation, disabling (RAM), WiFi with its doubled
timers and the portal that never returns, every screen and the web page, boot. The
queue of frames is not kept: a frame is served or was never heard. The variant with
on-board cryptography in `archive_onboard_crypto/` is not built and not modelled.
**`TagFinder`**: the resolver of
`full_featured.cpp`, windows counted relative to the time, one clock estimate for all
tags, the wide search for the tag unheard for longest, ringing and listening.

**`SonarLink`.** The serial bridge's two tasks: flags, scan, connection, settings, the
frame buffer. **`SonarDisplay`**: the screen's waterfall, its scale and two views, drawn
in parts; a column on the panel keeps the scale it was drawn at. **`SonarSetup`**: its
modes, calibration, network picker, keyboard, update screen, setup mode, and the serial
and web commands of `TobeWifi`, `TobeWeb`, `TobeOta` and `TobeCyd` it uses, with a power
cut between any two flash writes.

**`SensorNode`** (OpenSensor's portal, button and loop), **`CommandLine`** (`TobeCli`:
editing, history, completion, masking), **`ConsoleLog`** (`TobeLog`: the ring, its
page, line ends from several tasks, and the capture that is off while the log command
prints the ring).

### How they are composed
The composition inside a component is in its module: HELM, board and CYD in
`DeadMan`; HELM, engines and alarmer in `Alarms`; HELM and boards in `Enrollment`,
`FleetRadio`, `FleetUpdate`; launcher and program in `PaperUpdate`; settings, client
address and demo in `PaperSettings`. Components that share no state are checked side
by side: `MCFlash`, `MCPanel`, `MCEngine`, `MCUpdates`,
`MCDevices`, `MCOverboard` and `MCSonar` extend
several modules (`MCEngine` and `MCSonar` INSTANCE those whose names coincide) and have
one more variable, `on`, that says which of them runs. The others stay parked in one of
their initial states, so the state graph is the union of the components' graphs, not
their product. A component's fairness is stated under `on`, and its liveness as
`XFair => P`.

## 3. What the runs check

A run that passes explores every state of its instance.

| run | modules | shows |
|---|---|---|
| `flash` | `Enrollment` refines `IdRegistry`; `HelmScreen` | unique indexes, the same index back, and the refinement, with 3 boards for 2 slots, a restart and power cuts; a display that thinks itself set up holds all it was told, wherever power failed; a PIN changes only by one who typed the present one on this pad, and to one typed twice |
| `panel` | `HelmPanel`, `UpdateCheck`, `DeadMan` | power is per engine and one `ui_tick` settles the panel, two engines, one with an electric stop; "Checking..." is shown only while an answer is on its way, unless a tap overlapped the tick's reading and clearing; a turning starter has a finger behind it, turns for a bounded time in one go, and is dropped for a reason |
| `engine` | `Alarms`, `HelmPanel`, `Enrollment`, `FleetRadio` | what is new sounds and what lasts is heard and shown; autostart ends and the ignition follows the panel, preemption and a restart included; every board ends up enrolled, a factory reset included; a board that lost the HELM finds it and its orders arrive |
| `updates` | `SignalKClient`, `FleetUpdate`, `PaperUpdate` | a session nobody is about to end is the one wanted, the state is whole, and that server's alone unless a message of the ended session came late; the HELM is updated last and after no failure, a checksum holds though the chunks of two images meet on a board and frames are lost, no board goes back, Update All ends; whatever is cut short, and wherever, a whole version of the paper display's program is left, a bad release is rolled back and a good one runs in the end |
| `paper_sleep` | `PaperSleep` | modes end when their cause does and the screen follows, at every interleaving; while the threads have not overlapped, light, its record and client follow the modes |
| `devices` | `SeaTalkBridge`, `PaperSettings`, `SonarDisplay`, `CommandLine`, `ReceiveLog`, `ConsoleLog` | see the table below |
| `overboard` | `MobScreen`, `TagFinder` | an alarm has a cause and escalates, and a trusted tag that stays gone is raised or replaced; a press that is reported was made; every tag on the air is found with one estimate for clocks that differ |
| `sonar` | `SonarLink`, `SonarSetup`, `SensorNode` | the sonar in range is connected in the end and works with the last setting, frames are whole; setup mode runs when asked for and the board can be brought onto a network whatever was cut short; the node gets to its sensors |

In `devices`:

| property | of | says |
|---|---|---|
| `NoFeedback` | `SeaTalkBridge` | nothing this board has put on the wire is put there again, whichever way it came back |
| `SavedIsCurrent`, `DemoNeverLeaks` | `PaperSettings` | after changes that did not overlap, what was last saved is what is set, the file holds it unless that save failed, and the client, the paths, the switch and the demo's feed follow the settings; out of the demo the state holds nothing made up |
| `SweepIsCurrent` | `SonarDisplay` | however drawing in parts is interrupted, each column on the panel shows its own entry, at the scale it was drawn at, which within a sweep never falls; the newest is at the present scale, and so is the legend |
| `ShownIsTheLine` | `CommandLine` | the terminal shows the line typed, its secrets as stars, and no secret is in the history |
| `PageIsWhole` | `ReceiveLog` | a page of messages is newest first and has passed over none still in its ring, however many arrive while it is made |
| `PageIsTheTail` | `ConsoleLog` | the web page of the console is the newest of what was printed and kept, oldest first |

A type invariant is a conjunct of a property a cfg lists (`StarterInHand`,
`RadioRecovers`, `Joinable`), or a theorem (section 4).

Four runs show disagreements between the code and what it says of itself; each
checks one property and TLC finds a behaviour that breaks it (`findings` in
`PROJECT.json` quotes the text):

| run | what happens |
|---|---|
| `enroll_race` | two dispatching tasks give two boards one index |
| `helm_reboot` | a restarted HELM switches a running engine's ignition off |
| `no_reunion` | a board that missed more than `Fresh` of a restarted HELM's first frames refuses the others, on the right channel |
| `update_cut` | power lost between the two renames leaves no program under its name, and the launcher exits before its rollback and without the stock screen |

### What does not hold
Further limits met while modelling. They are why some properties above carry a
condition; lifting it, or stating the plain property, makes TLC show the behaviour.
None of them is counted as a finding of a run.

*Engine bus*
* *Factory reset* (`factory_reset_do_cb`): the table is wiped under boards that keep
  their indexes, and a new board is given an index in use: `UniqueIndex` with
  `MayFactoryReset`. It asks for no PIN.
* *Preempted telemetry* (`can_handle_rx`): one engine's rpm is written after the panel
  moved to another, which is latched as powered: `NoGhostPower` with `Preempted`.
* *Until the next `ui_tick`* after a change of engine, autostart frames and the old
  engine's ignition state go to the new one: `SettledAfterATick` without `~stale`.
* *STOP held across a change of engine* reaches an engine that has no electric stop.
* *CYD deadline*: `g_cyd_start_until` is never cleared and comes alive again half a
  clock range (24.8 days) later: `HeldByAFinger` with a long `HelmUptime`.
* *START kept pressed* cranks again after the crank limit, which is per go.
* *A frame inside `deadman_tick`*, later than its `now`, wraps the unsigned difference
  and drops a held START: the last disjunct of `DroppedForAReason`.
* *Charge and raw-water alarms* sound but are not decoded by the HELM, so they cannot
  be muted: `LastingAlarmIsShown` is about `Mirrored` kinds.
* *The frame that says an alarm is over* may be lost: raised again it stays silent.
  And a silence frame names no condition: it silences one that came up after MUTE.
* *A full replay table* (`fleet_security.h:246`) takes slot 0 from another sender,
  whose old frames are then believed again (one sender per slot in the model).
* *A wire that is unplugged* (`MayUnplug`): `BUS_TRANSPORT_CAN` is never assigned, so
  a board heard once on the direct wire is never again sent frames by CAN:
  `CommandsArrive`; `engine_display.ino:3430-3433` says routing heals itself.
* *One pending upgrade* for all peers: a second pairing before the first is upgraded
  leaves the first unencrypted until it pairs again.
* *Two engines on one wired board* get two bursts; the board restarts on the first and
  Update All may take the HELM first: `HelmGoesLast` with `BoardOf` not injective.
* *Engine at rest*: the check that no engine runs is made when the update window
  opens, not when Update All is pressed nor while it runs: `UpdateOnlyAtRest`.
* *A tap* between the tick's reading of the request and its clearing, or between the
  tap's own two writes, leaves "Checking..." for ever: `AnswerOnItsWay` without
  `~torn`. A serial UPDATE overtaken by a tap never starts.
* *The wizard* lets a secondary keep a PIN typed before going back; Skip at the WiFi
  step stores the network name of an interrupted setup.

*Paper display*
* *Overlapping threads* leave the light off, or blank it on a touch: `LightFollows`
  without `~clash`. A sleeping picture that could not be shown is not drawn again:
  `ScreenFollows` (in `DisplayFollows`) without `~failed`. `Light.Set` failing on the way out
  (`nopower.go:135`) leaves the light off with the note cleared.
* *A wake-up by hand overtaken by the main loop* leaves the client paused
  (`nopower.go:105`: `OnNoPower(true)` is called outside `a.mu`, after the flag):
  `ClientFollows` without `~clash`. The comment at `app.go:114-116` promises the order.
* *The late reset* (`client.go:112`): `State.Reset` after `c.mu` was let go may wipe
  what the new server said once: `WholeStateHeld` without `~clash`. A new server waits
  out the back-off.
* *The old server's last messages*: one in hand, or read before the other goroutine has
  closed the connection (`client.go:269`), is applied after the reset, although
  `client.go:104` says "Everything learned from the old server is forgotten":
  `OldServerForgotten`; the run checks `ForgottenUnlessLate`.
* *Overlapping changes* of settings are saved and handed on in either order
  (`app.go:648`, `control_config.go:70`): `SavedIsCurrent` without `~mixed`. A message
  past the demo check lands in the demo's state (`client.go:331`): `DemoIsAlone`.
* *A file that was never synced*: power lost within a minute of an update may leave an
  incomplete program installed; the launcher counts its crashes and goes back, as long
  as its `.prev` is there.
* *Two updaters at once* (`update.go:104-105`): the second `Apply` overwrites the
  `.prev` of the first, and the worst interleaving leaves no whole version at all:
  `WholeVersionLeft` with `TwoAtOnce`. A release rolled back is installed again by the
  next check, and a shutdown slower than the launcher's wait counts as a crash.

*The other devices*
* *SeaTalk*: with SeaTalk and CAN ticked both ways, a value heard from SeaTalk comes
  back onto CAN through the bridge's own echo: `OnlyTheMatrix`. A value of the
  navigation test is relayed as real. Self-echo windows match again after 71.6 minutes.
* *Man overboard, a full table*: where every slot holds an enrolled tag, a stranger's
  frame takes the slot unheard for longest (`display_mob_test.cpp:842`), the missing
  tag's, and the stranger's next frame clears its alarm, though `:721-725` lets only a
  sighting of the tag itself do that. An alarm not yet raised is then never raised. A
  slot taken while its confirm screen is open enrols the tag that took it (`:106-108`).
* *Man overboard, WiFi*: a timer changed while they are doubled is saved with the other
  doubled (`:1134-1137` says the values in flash stay untouched), and turning WiFi off
  undoes the change until the next boot.
* *Man overboard, the rest*: only the list screen looks for missing tags; a disable
  timer is misjudged after 24.8 days; asked for WiFi with no network saved, the hub
  stays in its portal and watches nothing.
* *Tag resolver*: with a tag that is never on the air the wide search is spent on it
  alone, and the others may not be found after their clocks drifted: `EveryTagFound`
  with `Absent = {1}`. A press notified while the previous one is being printed, or
  after the last look, is lost.
* *Sonar bridge*: STOP while a connection is being made is overtaken by it:
  `StopHolds`. A link lost in the tail of `connectToFishFinder` leaves `s_bleConnected`
  set until the next loss is reported.
* *Sonar screen*: a column's depth and the depth the scale is chosen from are two reads
  of the shared reading (`display.cpp:368`, `:372`), so a column may be deeper than the
  scale (`NeverClips`); `maybeShrinkWaterfallScale` draws the legend even while the table
  is shown (`TableKeepsItsPanel`); the signal bars keep their last value (`HollowWithoutSignal`).
* *Sonar setup*: a power cut between name and password leaves a mixed pair, between
  calibration writes a calibration taken for whole; `Joinable` is about what a user
  can do afterwards. The password keyboard has no way back but submitting.
* *Sensor node*: with a network that does not answer, `WIFI_setup` waits for ever and
  ignores the button; a press between the pin's reading and the clearing of its note
  (`main.cpp:154-157`) is lost.
* *Command line*: a leading space leaves a secret line unmasked and remembered.
  *Console*: two tasks printing at once may send a bare LF (`NoStaircase`).
* *OpenPlotter's resolver* (`brain.py`, read, not modelled): known tags never seen
  since a restart never alarm, and `first_seen` is reset with the statistics.

### Bounds
* Enrolment: 3 boards for 2 slots, so that the pool fills; 1 restart, 1 power cut per
  board. A second restart repeats the first: the table is reloaded from flash. In
  `engine` 2 boards, with a factory reset and a restart of the HELM.
* Panel: `panel` has 2 engines (every property is about one engine or two) and 1
  retry; in `engine` 1 engine, for its size, 2 retries and 1 restart of the HELM.
* Dead-man: `HoldTimeout` 1, `CrankMax` 2, `Delay` 1 units and a clock of 7, the
  smallest the assumption allows, so that the board's clock wraps many times;
  `BoardBoot` 3 sets the two clocks apart. The HELM is restarted before half its clock
  range, which is what keeps the CYD deadline sound. `owed`, `silence` and `cranked`
  saturate past the values the properties compare.
* Alarms: 2 engines, 1 kind (the flags of a kind are treated alike, each on its own);
  `MaxLosses` 1 bounds how often an engine is given up by either node.
* Radio: 1 board, 3 channels, `MaxFaults` 3 restarts, moves or forgotten peers in any
  mix, `Fresh` 1 and `MaxCount` 2: a count is within the window or past it, so a frame
  may be refused. `RadioRecovers` is about nodes that do not refuse each other
  (`Refused`); run `no_reunion` is about one that does.
* Fleet update: 2 engines on 2 boards, one wired and one on ESP-NOW, 2 builds with or
  without checksum; and either board alone with 3 builds, so that the chunks of an older
  image are still on their way when those of a newer one are sent.
* Client: 2 servers, 1 caller. No other bound: its state is finite. With two callers
  the same safety properties hold; `SessionsFollow` is proved for any number.
* Program update: 3 versions, the middle one bad, 3 faults at any step, one updater at
  a time; the launcher's limits are the script's own.
* Sleep: light levels 0 and 1: off and on is what the modes tell apart.
* Devices: three PIN values would add nothing to two (equal or not); 3 questions; 1
  datagram of edges and 2 of queue, so that both overflow; 4 matrices; 2 depths, 2
  columns; a line of 3 letters and a history of 2; rings of 2 and 3 entries. Two changes
  of a setting may overlap for the demo switch; a save fails only out of demo and
  no-power mode and where nothing overlapped (`FailedApart`).
* Overboard: 2 slots, missing and escalation times of 1 and 2 ticks, a disabling of 1
  tick or without end. The hub runs in three ways: with two identifiers, the settings as
  delivered and no WiFi (`crew`); with one identifier and everything but disabling
  (`settings`); with three identifiers, so that slots are evicted, and a crew that only
  enrols and silences (`crowd`). The resolver's clocks 1 and 4 half windows off, 3
  windows of wide search, so that   one estimate cannot serve both tags. Sonar: 2
  settings and 1 dropped link; 2   networks and 1 power cut at any write.

### Fairness
* Enrolment: boards ask once a second for ever and tasks run, so a frame repeated for
  ever is received (SF on hearing and on scanning); what a task began it finishes (WF).
* Panel: `ui_tick`, the loop and time go on (WF); of the ignition frames, refreshed
  every second, some arrive (SF).
* Alarms: telemetry ten times a second, some of it to both (SF); ticks and loop (WF).
* Radio: loops and time go on (WF); of repeated HELLOs and frames on a shared channel
  some arrive (SF).
* Fleet update: `ui_tick` and time (WF). Nothing is asked of the boards.
* Sleep: the main loop goes round and a thread finishes what it began (WF).
* Client: Run runs, a call that was begun is finished (WF). None for the network.
* Program update: cron runs the launcher every minute, a started program reaches its
  check, a download or its failure ends, an operation begun goes on (WF).
* Man overboard: the loop goes on and time with it (WF); a tag on the air finds room in
  the queue at times (SF). Nobody is made to touch.
* Sonar link: both tasks run (WF); scans find, connections succeed now and then (SF).
  Setup: the board's own steps (WF), a join that can work does now and then (SF), a user
  who asks again and again for setup mode and gives the network (SF): `Joinable` is
  what such a user gets. Sensor node: its loop (WF), a join succeeds now and then (SF).

## 4. What is proved

TLAPS proves, for every value of the constants:

| module | about | theorem | beyond the named assumptions on constants |
|---|---|---|---|
| `EnrollmentProofs` | `Enrollment` | `TypeCorrect` | - |
| | | `IndexIsUnique`, `RefusalIsTrue`, `IndexComesBack`, `RegistryImplemented` (the refinement) | one dispatching task, no factory reset |
| `HelmPanelProofs` | `HelmPanel` | `TypeCorrect`, `HoldsOwned`, `PanelIsSettled` | - |
| | | `PowerIsEarned` | the telemetry handler is not preempted |
| `DeadManProofs` | `DeadMan` | `StarterIsInHand`, `DropsForAReason` | no HELM runs for half its clock range (`Half`, 24.8 days) |
| `HelmProofs` | `HelmScreen` | `ScreenTypeCorrect`, `SetupHolds`, `PinChangesByHand` | - |
| | `UpdateCheck` | `CheckTypeCorrect`, `AnswerComes` | - |
| | `Alarms` | `SilenceEndsWithAlarm`, `NewAlarmIsHeard` | - |
| `UpdateProofs` | `FleetUpdate` | `TypeCorrect`, `BoardsOnlyMoveForward`, `ChecksumIsBelieved`, `FlashedRight` | - |
| | | `HelmIsLast` | no two engines of the HELM on one board (`OneEach`) |
| | `PaperUpdate` | `WholeVersionStays` | the two updaters are not in `Apply` at once (`~TwoAtOnce`) |
| `SignalKClientProofs` | `SignalKClient` | `TypeCorrect`, `SessionsFollow`, `StatesFollow` | - |
| `PaperProofs` | `PaperSettings` | `SettingsTypeCorrect`, `SettingsAreSaved`, `DemoLeaksNothing` | - |
| | `PaperSleep` | `SleepTypeCorrect`, `ModesAreInForce` | - |
| `DeviceProofs` | `SeaTalkBridge` | `NothingGoesRound` | - |
| | `ReceiveLog`, `CommandLine` | `PagesAreWhole`, `LinesAreShown` | - |
| | `ConsoleLog` | `ConsoleTypeCorrect`, `PagesShowTheTail` | - |
| | `SonarLink` | `FramesAreWhole` | - |
| | `SonarDisplay` | `CydTypeCorrect`, `SweepStaysCurrent` | - |
| | `SonarSetup` | `SetupTypeCorrect`, `SetupRunsWhenAsked` | - |
| | `TagFinder`, `MobScreen` | `PressesAreReal`; `MobTypeCorrect`, `AlarmsHaveCause` | - |

None of the assumptions of the last column can be dropped: `enroll_race` and section 3
say what happens without them. The named assumptions (`EnrollAssumption`, ...) stand in
the modules and say what a constant is: a set is not empty, a bound is a number, a
ring has a slot; TLC evaluates them on every run. Where a property carries a condition
(`~clash`, `~mixed`, `~torn`), so does its theorem. Every safety property that a
passing run lists is stated by a theorem.

*Enrolment.* Uniqueness follows from flash: an enrolled board's index is on record
under its MAC, and a record never changes. Inductively this needs to know what is
under way: RAM and flash agree but for the slot being stored, a slot to be claimed is
still free and its board has none, every assignment on the bus is on record (or a
refusal made when the pool was full, which stays true because slots are never freed).
The refinement maps `Store` to `Grant`, `Adopt` to `Take` and `PowerCut` to `Drop`;
everything else stutters.

*Panel.* The dead-man flags are proved action by action with the finger and the
autostart phase; power with the telemetry in hand, which without preemption belongs
to the engine on the panel.

*Alarms.* The silenced flags stay within the alarm flags because the telemetry
handler intersects before it overwrites; that a new alarm sounds follows.

*Client.* `SessionFollows` is not inductive: a call that changes the address keeps it
only because the cancel captured with the change is the session's own. The
strengthening is that a live session's cancel is set (`Endable`): it is set with the
address under one lock and cleared only when the session is over.

*Dead-man chain.* A history variable `owed` says for how long a START may still be
felt; that it is positive while the starter is held is not inductive. `OwedAhead` says
what every button, frame under way and armed hold is still owed, `BoardClock` that the
board's unsigned difference is the true silence as long as a START may be held (after
that the difference wraps, and nothing is claimed), that the loop ends a silence that
is too long, and that a tick in progress is at most one unit late. `CrankClock` does
the same for the crank limit, where a clock that reads 0 is taken for one at rest: the
two units of slack in `CrankIsBounded`. The lemmas below them are about remainders: a
difference one unit later (`MinusNext`), one unit before (`MinusBefore`), and
`HoldIsRead`: below half a clock range the signed comparison of `g_cyd_start_until` is
the comparison of the times. Past it, it is not (section 3): hence `Half`.

*Wizard and PIN.* That a display set up is whole follows from the order of the writes
alone: "setup_done" is the last of them, and `SetupIsWhole` is inductive once the
types are known. That a PIN changes only by hand needs what the pad knows
(`PadInv`): an entry being confirmed was made by one who typed the present PIN on
this pad, and leaving the pad erases it.

*Update check.* `AnswerOnItsWay` rests on the order of numbers (`Numbered`: shown,
answered, taken up, asked, never the other way round) and on the two pieces the code
writes apart staying together (`Whole`): a tap half done has raised the flag, and
what the tick has read is what it will clear. A tap in between breaks `Whole`, which
is what `torn` records.

*Update All.* `NoDowngrade` needs `ForwardInv`: whatever is in the air, in a board's
buffer or in its hand is a build no older than the one it runs, and no newer than
what is released or what the HELM last read of it (`Reaches`); what the HELM has heard
of an engine is no newer than its board (`Heard`), which is why a burst for an engine
that looks out of date cannot carry an older build; and a board with a broken image
does nothing (`Dead`). That an engine may look older than it is, a restart being heard
of later, is in the invariant's second half: such a build has been released, and
read. `ChecksumHolds` is then the test at the end of the download. No run lists
`ForwardInv`; TLC agreed with it before it was proved, with engines on one board and on
two. Which frames are still in the air after a burst uses that engines are finitely
many (`FleetAssumption`).

That the HELM goes last needs `LastInv`, engine by engine: one that is waited for
either is behind the build it was sent, both in what it runs and in what the HELM heard
of it, or has it and nothing more under way that it would hear; and one that is done
has nothing in hand that a restart could flash over it. The second half is what a
rejected download, a late frame and an announcement before and after the restart have
to keep. With two engines on one board it is not kept (section 3): `OneEach`.

*Program update.* `WholeVersionLeft` is about names and the inodes behind them
(`UpdInv`). The file being written is under `exe.new` only, and never the inode of
another name (`Filed`); an updater that is past the hash has all parts of one release
there (`Good`), which a second writer could spoil: `Alone`. A file whose content the disk
does not have yet is `exe.new`, or what that became, so that a power cut spoils one of
the two names at most and never the one kept as `.prev`.

*Client.* For `StatesFollow`, `Undisturbed` relates Run to the calls under way: a call
that came during a session ends it (its captured cancel is the session's), the old
server's values are gone or some call is about to drop them, or a message of an ended
session brought them back (`late`), and a session at a message finds no call
unfinished. `clash` is set by exactly the steps that would break this.

*Paper settings.* `OwedInv` says, for the one thread that is changing something, what
each part not yet up to date follows from: a step that is still ahead of it in its
plan and the copy it carries. It is stated with predicates on a plan (`Ahead`), which
is a sequence, so that every step is "the first one done, the rest as before". What a
failed save was given is the copy that is current (`lastSave`), whatever the file has. That
the demo leaks nothing (`LeakInv`) needs only that the feed stands at a message in
demo mode, whatever overlaps.

*Sleep modes.* While the two threads have not overlapped, one job at most is under
way, and `InJob` says for each of its points (entering, leaving, brightening, step by
step) how light, record and client stand. `Apart` keeps the threads apart: a hand at
work is about to leave every mode that is on, so the main loop, which never enters a
mode with a hand at work, has nothing to do.

*SeaTalk bridge.* What comes back from a server is this board's own, or was never on
the wire (`FreshOrOwn`); on every leg a value is then dropped as an echo or is new.

*Message log.* A ring keeps its bus's last messages in the order of their slots
(`RingInv`, with a subtraction modulo the ring's size taken apart by cases); numbers
only grow, so what is added while a page is made is above it; the page has come down to
its last line (`PageInv`), and `FindOlder` is the greatest number below it.

*Console.* The ring is the tail of all that was printed, the oldest where the newest
ends (`OnTheRing`). A text longer than the ring keeps its end. The lemmas are about
remainders and about the end of a sequence. What each task has still to send
(`Sending`) is needed for the types alone.

*Command line.* `ShownIsTheLine` is inductive once it is known how the masked form of
a line changes with its last character: the mask begins with the first space of a
secret command (`FirstSpaceIsFirst`, `MaskedLast`, `MaskedStays`).

*Sonar link and screen.* A kept buffer is in step with the sonar: by what is in it the
next chunk is known (`InStep`), so that after a false head no frame is taken apart
wrongly, and a lost link empties it. Drawing by columns is proved with `SweepInv`:
what the panel is in the middle of an update, and that the scale only grows between two
wraps, so that no column of a sweep is at a larger one than those after it (`Rising`).

*Setup of the sonar's screen.* The request for setup mode is in flash exactly while
it has not been served (`Requested`), power cuts included.

*Man overboard.* `AlarmHasCause` is inductive with the types (`MobIInv`): what enrols,
disowns, frees or overwrites a slot either leaves the alarm's slot alone or takes the
alarm, or its cause, with it. The least of a set of ages or slots is taken from
well-founded induction (`WFMin`). `PressIsReal` needs that a note is only made in a
watch (`WatchInv`).

Only model-checked: everything temporal under fairness (liveness and ENABLED are out
of the prover's reach), and the modules not in the table, `FleetRadio` and `SensorNode`,
whose properties are of that kind but for their types. What a recursive function
computes for every input needs induction over data, which the installed provers cannot
use.

## 5. What is not modelled, and why

* *Control board simulator*: simulated sensor values, test pages and console; its
  dead-man, alarm, enrolment, radio and update parts are in the modules above.
* *Dashboards, gauges, labels, rendering, web pages, units*: drawing and formatting
  with no state whose order matters; what they show is checked where it is decided
  (`LastingAlarmIsShown`, `DisplayFollows`, `SweepIsCurrent`, `ConnectedIsShown`).
* *Paper display's drivers and its state of paths, metadata and AIS targets*: device
  files and a subprocess; tables by path with ages.
* *Cryptography*: tags and keys always match in `FleetRadio` and
  `TagFinder`; what an attacker without the keys could do is outside these models.
* *The man-overboard hub with on-board cryptography* (`archive_onboard_crypto/`), which
  is not built, and OpenPlotter's resolver: other versions of what `MobScreen` and
  `TagFinder` model.
* *A boot without flash* (`prefs_ok` false), which the panel reports.
* *Build scripts, hardware, images, vendored and generated code.*

Left for later: types and replay slots of `FleetRadio`, types of `SensorNode`.
