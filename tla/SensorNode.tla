----------------------------- MODULE SensorNode -----------------------------
(***************************************************************************)
(* The sensor node (OpenSensor): its button and the interrupt behind it,   *)
(* the portal that takes a network's name and password, the wait for that  *)
(* network, and the loop that prints the sensors.  A password is the       *)
(* network's own number: name and password belong together when equal.     *)
(***************************************************************************)
EXTENDS Naturals

CONSTANTS
    Nets,       \* the networks somebody may give it, numbered from 1
    Hold,       \* HOLD_TIME, in ticks
    Portal,     \* CONFIG_PORTAL_TIMEOUT, in ticks
    MaxCuts     \* bound: power failures

SensorAssumption == Nets \subseteq Nat \ {0} /\ Hold \in Nat \ {0} /\ Portal \in Nat \ {0}

Nothing == 0    \* "N/A"
Chips == {"bmp", "mpu"}     \* the compass is asked as the mpu is
Credentials == [name : Nets \cup {Nothing}, pass : Nets \cup {Nothing}]

VARIABLES
    flash,      \* device_prefs
    ram,        \* name, password
    where,      \* "boot", "portal", "saving", "join", "sensors", "loop" or "released"
    from,       \* who opened the portal: "setup" or "loop"
    done,       \* configDone
    timer,      \* ticks since the portal opened
    pressed,    \* buttonPressed
    since,      \* ticks since buttonPressStart
    down,       \* the pin is low
    chips,      \* the chips that answer on the bus
    found,      \* bmpsetup, MPU6050init
    printed,    \* what the last pass of the loop printed for each chip
    inRange,    \* the networks in range
    cuts

portal == <<from, done, timer>>
button == <<pressed, since, down>>
sensors == <<chips, found, printed>>
vars == <<flash, ram, where, portal, button, sensors, inRange, cuts>>

TypeOK ==
    /\ flash \in Credentials /\ ram \in Credentials
    /\ where \in {"boot", "portal", "saving", "join", "sensors", "loop", "released"}
    /\ from \in {"setup", "loop"} /\ done \in BOOLEAN /\ timer \in 0..Portal
    /\ pressed \in BOOLEAN /\ since \in 0..Hold /\ down \in BOOLEAN
    /\ chips \subseteq Chips /\ found \subseteq Chips
    /\ printed \in [Chips -> {"nothing", "a reading", "garbage"}]
    /\ inRange \subseteq Nets /\ cuts \in 0..MaxCuts

Silence == [c \in Chips |-> "nothing"]
Blank == [name |-> Nothing, pass |-> Nothing]

Init ==
    /\ flash = Blank /\ ram = Blank /\ where = "boot"
    /\ from = "setup" /\ done = FALSE /\ timer = 0
    /\ pressed = FALSE /\ since = 0 /\ down = FALSE
    /\ chips \in SUBSET Chips /\ found = {} /\ printed = Silence
    /\ inRange \in SUBSET Nets /\ cuts = 0

-----------------------------------------------------------------------------
OpenPortal(who) == where' = "portal" /\ from' = who /\ done' = FALSE /\ timer' = 0

(* CONFIG_setup(): what is stored, and the portal when a part is missing.   *)
ConfigSetup ==
    /\ where = "boot" /\ ram' = flash
    /\ IF Nothing \in {flash.name, flash.pass}
       THEN OpenPortal("setup")
       ELSE where' = "join" /\ UNCHANGED portal
    /\ UNCHANGED <<flash, button, sensors, inRange, cuts>>

(* handleSubmit(): the name, then the password; the form wants both.        *)
SubmitName(n) ==
    /\ where = "portal" /\ ~done
    /\ where' = "saving" /\ flash' = [flash EXCEPT !.name = n]
    /\ UNCHANGED <<ram, portal, button, sensors, inRange, cuts>>

SubmitPassword(p) ==
    /\ where = "saving" /\ where' = "portal"
    /\ flash' = [flash EXCEPT !.pass = p] /\ done' = TRUE
    /\ UNCHANGED <<ram, from, timer, button, sensors, inRange, cuts>>

(* The end of runConfigPortal(): the radio goes off, the new data is read.  *)
PortalEnds ==
    /\ where = "portal" /\ (done \/ timer = Portal)
    /\ ram' = flash
    /\ where' = IF from = "setup" THEN "join" ELSE "loop"
    /\ UNCHANGED <<flash, portal, button, sensors, inRange, cuts>>

(* WIFI_setup() waits for the network as long as it takes.                  *)
WifiSetup ==
    /\ where = "join" /\ ram.name \in inRange /\ ram.pass = ram.name
    /\ where' = "sensors"
    /\ UNCHANGED <<flash, ram, portal, button, sensors, inRange, cuts>>

(* BMP085_setup(), MPU6050_setup(), QMC5883_setup().                        *)
SensorSetup ==
    /\ where = "sensors" /\ where' = "loop"
    /\ found' = chips
    /\ UNCHANGED <<flash, ram, portal, button, chips, printed, inRange, cuts>>

-----------------------------------------------------------------------------
(* The loop prints a pressure sensor it found; the others it asks anyway.   *)
Readings ==
    [c \in Chips |-> IF c = "bmp" /\ c \notin found THEN "nothing"
                     ELSE IF c \in chips THEN "a reading" ELSE "garbage"]

(* CONFIG_loop(), without a press, and with the button held too short.      *)
Loop ==
    /\ where = "loop" /\ (pressed => down /\ since < Hold)
    /\ printed' = Readings
    /\ UNCHANGED <<flash, ram, where, portal, button, chips, found, inRange, cuts>>

LoopHeld ==
    /\ where = "loop" /\ pressed /\ down /\ since = Hold
    /\ pressed' = FALSE /\ OpenPortal("loop")
    /\ UNCHANGED <<flash, ram, since, down, sensors, inRange, cuts>>

(* The pin is read first, and the note of the press cleared after it.       *)
LoopReleased ==
    /\ where = "loop" /\ pressed /\ ~down /\ where' = "released"
    /\ UNCHANGED <<flash, ram, portal, button, sensors, inRange, cuts>>

LoopClears ==
    /\ where = "released" /\ where' = "loop"
    /\ pressed' = FALSE /\ printed' = Readings
    /\ UNCHANGED <<flash, ram, portal, since, down, chips, found, inRange, cuts>>

(* handleButtonInterrupt() notes the first edge only.                       *)
Press ==
    /\ ~down /\ down' = TRUE
    /\ pressed' = TRUE /\ since' = IF pressed THEN since ELSE 0
    /\ UNCHANGED <<flash, ram, where, portal, sensors, inRange, cuts>>

Release ==
    /\ down /\ down' = FALSE
    /\ UNCHANGED <<flash, ram, where, portal, pressed, since, sensors, inRange, cuts>>

-----------------------------------------------------------------------------
Tick ==
    /\ since' = IF pressed /\ since < Hold THEN since + 1 ELSE since
    /\ timer' = IF where \in {"portal", "saving"} /\ timer < Portal THEN timer + 1 ELSE timer
    /\ <<since, timer>>' # <<since, timer>>
    /\ UNCHANGED <<flash, ram, where, from, done, pressed, down, sensors, inRange, cuts>>

PowerCut ==
    /\ cuts < MaxCuts /\ cuts' = cuts + 1
    /\ where' = "boot" /\ ram' = Blank /\ from' = "setup" /\ done' = FALSE /\ timer' = 0
    /\ pressed' = FALSE /\ since' = 0 /\ found' = {} /\ printed' = Silence
    /\ UNCHANGED <<flash, down, chips, inRange>>

Outside ==
    /\ \/ \E n \in Nets : inRange' = (inRange \ {n}) \cup ({n} \ inRange) /\ UNCHANGED chips
       \/ \E c \in chips : chips' = chips \ {c} /\ UNCHANGED inRange
    /\ UNCHANGED <<flash, ram, where, portal, button, found, printed, cuts>>

Node ==
    \/ ConfigSetup \/ PortalEnds \/ WifiSetup \/ SensorSetup
    \/ Loop \/ LoopHeld \/ LoopReleased \/ LoopClears
    \/ \E p \in Nets : SubmitPassword(p)

Next ==
    \/ Node \/ Tick \/ Press \/ Release \/ PowerCut \/ Outside
    \/ \E n \in Nets : SubmitName(n)

Spec == Init /\ [][Next]_vars
Fairness == WF_vars(Node) /\ WF_vars(Tick) /\ SF_vars(WifiSetup)
FairSpec == Spec /\ Fairness

-----------------------------------------------------------------------------
(* Whatever is pressed, submitted and cut short, a node whose stored name   *)
(* and password are those of a network in range gets to its sensors again   *)
(* and again (WIFI_setup() and the portal are the places it can stay in).   *)
Usable == flash.name \in inRange /\ flash.pass = flash.name
Reports == <>[]Usable => []<>(where = "loop")

=============================================================================
