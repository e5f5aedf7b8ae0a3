------------------------------ MODULE SonarLink ------------------------------
(***************************************************************************)
(* The sonar bridge (FishFinderProBluetooth, src/main.cpp): a board that   *)
(* streams a Bluetooth fish finder to a serial port.  Two tasks share its  *)
(* variables without a lock.  The loop serves the command line, connects   *)
(* and writes the sonar's settings; the Bluetooth host's task reports what *)
(* a scan found, a lost link and the chunks of the sonar's frames.         *)
(*                                                                         *)
(* A frame is seven notifications of 20 bytes; here it is three: a head    *)
(* with the sync bytes, a middle that may hold them by chance, and a tail  *)
(* with the trailer.  Depth and the other values inside are left out.      *)
(***************************************************************************)
EXTENDS Naturals, Sequences

CONSTANTS
    Settings,   \* what s_sensitivity and s_range can be set to
    Default,    \* their value after a start
    MaxDrops    \* bound: links lost although the sonar is in range

ASSUME SettingsAssumption == Default \in Settings

VARIABLES
    mode,       \* "ble" or "wifi": OpMode::current(), which is also the stored one
    active, doConnect, connected, writeChar,    \* s_bleActive ... (writeChar: not null)
    setting,    \* s_sensitivity and s_range
    pending,    \* s_settingsSendPending
    buf,        \* s_buf
    at,         \* where the loop is
    hostAt,     \* "idle", or "rescan": inside onDisconnect(), past its test
    scan,       \* the radio scans
    link,       \* "none", "up", or "lost": gone, and onDisconnect() not yet called
    subscribed,
    near,       \* the sonar is switched on and in range
    sonar,      \* the setting the sonar works with
    next,       \* the chunk of its frame the sonar sends next
    torn,       \* ghost: a frame was written out that the sonar did not send whole
    drops

shared == <<active, doConnect, connected, writeChar, pending>>
radio == <<scan, link, subscribed>>
stream == <<buf, next, torn>>
outside == <<near, sonar, drops>>
linkVars == <<mode, shared, setting, at, hostAt, radio, stream, outside>>

Kinds == <<{"head"}, {"middle", "false head"}, {"tail"}>>
Chunk == [kind : {"head", "middle", "false head", "tail"}, old : BOOLEAN]
IsSync(c) == c.kind \in {"head", "false head"}

LinkTypeOK ==
    /\ mode \in {"ble", "wifi"}
    /\ {active, doConnect, connected, writeChar, pending} \subseteq BOOLEAN
    /\ setting \in Settings /\ sonar \in Settings \cup {0}
    /\ buf \in Seq(Chunk) /\ Len(buf) < 3
    /\ at \in {"command", "pick", "connect", "service", "control", "finish",
               "send", "write", "wifi"}
    /\ hostAt \in {"idle", "rescan"} /\ link \in {"none", "up", "lost"}
    /\ {scan, subscribed, near} \subseteq BOOLEAN
    /\ next \in 1..3 /\ torn \in BOOLEAN /\ drops \in 0..MaxDrops

(* What a start leaves in the board's memory: nothing is stored but the     *)
(* mode.  In Bluetooth mode it is idle until START.                         *)
Booted(m) ==
    /\ mode' = m
    /\ active' = FALSE /\ doConnect' = FALSE /\ connected' = FALSE
    /\ writeChar' = FALSE /\ pending' = FALSE
    /\ setting' = Default /\ buf' = <<>> /\ at' = IF m = "ble" THEN "command" ELSE "wifi"
    /\ hostAt' = "idle" /\ scan' = FALSE /\ link' = "none" /\ subscribed' = FALSE
    /\ UNCHANGED <<next, torn, outside>>

LinkInit ==
    /\ mode = "ble" /\ at = "command" /\ hostAt = "idle"
    /\ active = FALSE /\ doConnect = FALSE /\ connected = FALSE
    /\ writeChar = FALSE /\ pending = FALSE
    /\ setting = Default /\ buf = <<>>
    /\ scan = FALSE /\ link = "none" /\ subscribed = FALSE
    /\ near \in BOOLEAN /\ sonar = 0 /\ next = 1
    /\ torn = FALSE /\ drops = 0

-----------------------------------------------------------------------------
(* The command line, the first call of loop().                              *)
Start ==
    /\ at = "command" /\ at' = "pick"
    /\ IF active THEN UNCHANGED <<active, scan>> ELSE active' = TRUE /\ scan' = TRUE
    /\ UNCHANGED <<mode, doConnect, connected, writeChar, pending, setting, hostAt,
                   link, subscribed, stream, outside>>

(* STOP ends the scan and the link, not a connection about to be made: the  *)
(* host's task may have set s_doConnect since the last pass.                *)
Stop ==
    /\ at = "command" /\ at' = "pick" /\ active
    /\ active' = FALSE /\ scan' = FALSE
    /\ link' = IF link = "up" THEN "lost" ELSE link
    /\ UNCHANGED <<mode, doConnect, connected, writeChar, pending, setting, hostAt,
                   subscribed, stream, outside>>

SetSonar ==
    /\ at = "command" /\ at' = "pick"
    /\ \E v \in Settings : setting' = v
    /\ pending' = TRUE
    /\ UNCHANGED <<mode, active, doConnect, connected, writeChar, hostAt, radio,
                   stream, outside>>

NoCommand ==
    /\ at = "command" /\ at' = "pick"
    /\ UNCHANGED <<mode, shared, setting, hostAt, radio, stream, outside>>

(* MODE and BLE store the mode and restart the board, whichever mode it is  *)
(* in; a sonar whose board restarted is alone again.                        *)
SwitchMode == at \in {"command", "wifi"} /\ \E m \in {"ble", "wifi"} : Booted(m)

Pick ==
    /\ at = "pick"
    /\ IF doConnect THEN doConnect' = FALSE /\ at' = "connect"
                    ELSE at' = "send" /\ UNCHANGED doConnect
    /\ UNCHANGED <<mode, active, connected, writeChar, pending, setting, hostAt, radio,
                   stream, outside>>

(* connectToFishFinder(), in the pieces the host's task can come between.   *)
(* connect() refuses while a link is up or its end has not been handled.    *)
Connected ==
    /\ at = "connect" /\ near /\ link = "none"
    /\ link' = "up" /\ scan' = FALSE /\ at' = "service"
    /\ next' \in 1..3 /\ buf' = [i \in DOMAIN buf |-> [buf[i] EXCEPT !.old = TRUE]]
    /\ UNCHANGED <<mode, shared, setting, hostAt, subscribed, torn, outside>>

ConnectFails ==
    /\ at = "connect" /\ at' = "send" /\ scan' = TRUE
    /\ UNCHANGED <<mode, shared, setting, hostAt, link, subscribed, stream, outside>>

Subscribe ==
    /\ at = "service" /\ link = "up" /\ subscribed' = TRUE /\ at' = "control"
    /\ UNCHANGED <<mode, shared, setting, hostAt, scan, link, stream, outside>>

NoService ==
    /\ at = "service" /\ at' = "send"
    /\ link' = IF link = "up" THEN "lost" ELSE link
    /\ UNCHANGED <<mode, shared, setting, hostAt, scan, subscribed, stream, outside>>

FindControlOnly ==
    /\ at = "control" /\ at' = "finish"
    /\ \E found \in IF link = "up" THEN {TRUE} ELSE BOOLEAN : writeChar' = found
    /\ UNCHANGED <<mode, active, doConnect, connected, pending, setting, hostAt, radio,
                   stream, outside>>

(* The settings' characteristic is found, unless the link was lost first;   *)
(* a pointer found just before that is stored all the same.                 *)
FindControl ==
    /\ at = "control" /\ at' = "finish"
    /\ \E found \in IF link = "up" THEN {TRUE} ELSE BOOLEAN :
           /\ writeChar' = found
           /\ pending' = (pending \/ found)
    /\ UNCHANGED <<mode, active, doConnect, connected, setting, hostAt, radio, stream,
                   outside>>

(* The connection is marked as up without a look at whether it still is.    *)
Finish ==
    /\ at = "finish" /\ at' = "send" /\ connected' = TRUE
    /\ UNCHANGED <<mode, active, doConnect, writeChar, pending, setting, hostAt, radio,
                   stream, outside>>

(* sendSonarSettingsIfDue(): the request is dropped, then the characteristic*)
(* looked for, then written to, should the link have gone meanwhile or not. *)
Send ==
    /\ at = "send"
    /\ pending' = FALSE
    /\ at' = IF pending /\ writeChar THEN "write" ELSE "command"
    /\ UNCHANGED <<mode, active, doConnect, connected, writeChar, setting, hostAt, radio,
                   stream, outside>>

Write ==
    /\ at = "write" /\ at' = "command"
    /\ sonar' = IF link = "up" THEN setting ELSE sonar
    /\ UNCHANGED <<mode, shared, setting, hostAt, radio, stream, near, drops>>

-----------------------------------------------------------------------------
(* The host's task.  onResult(): a sonar with a link does not advertise.    *)
Found ==
    /\ hostAt = "idle" /\ scan /\ near /\ link = "none"
    /\ scan' = FALSE /\ doConnect' = TRUE
    /\ UNCHANGED <<mode, active, connected, writeChar, pending, setting, at, hostAt, link,
                   subscribed, stream, outside>>

(* onDisconnect(): the loop can come between its test of s_bleActive and    *)
(* the scan it starts.                                                      *)
OnDisconnectKeepingBytes ==
    /\ hostAt = "idle" /\ link = "lost"
    /\ link' = "none" /\ subscribed' = FALSE
    /\ connected' = FALSE /\ writeChar' = FALSE
    /\ hostAt' = IF active THEN "rescan" ELSE "idle"
    /\ UNCHANGED <<mode, active, doConnect, pending, setting, at, scan, buf, next, torn,
                   outside>>

OnDisconnect ==
    /\ hostAt = "idle" /\ link = "lost"
    /\ link' = "none" /\ subscribed' = FALSE
    /\ connected' = FALSE /\ writeChar' = FALSE /\ buf' = <<>>
    /\ hostAt' = IF active THEN "rescan" ELSE "idle"
    /\ UNCHANGED <<mode, active, doConnect, pending, setting, at, scan, next, torn,
                   outside>>

Rescan ==
    /\ hostAt = "rescan" /\ hostAt' = "idle" /\ scan' = TRUE
    /\ UNCHANGED <<mode, shared, setting, at, link, subscribed, stream, outside>>

(* tryExtractFrames() on a buffer that holds at most one frame's worth: what*)
(* precedes a sync is dropped, a frame with its trailer goes out, and one   *)
(* without it is given up to the next sync.                                 *)
From(b, i) ==
    LET syncs == {k \in i..Len(b) : IsSync(b[k])}
    IN  IF syncs = {} THEN <<>>
        ELSE SubSeq(b, CHOOSE k \in syncs : \A l \in syncs : k <= l, Len(b))

IsFrame(b) == Len(b) = 3 /\ b[3].kind = "tail"

Extract(b) ==
    LET synced == From(b, 1)
    IN  IF Len(synced) < 3 \/ IsFrame(synced)
        THEN [out |-> IF IsFrame(synced) THEN synced ELSE <<>>,
              rest |-> IF IsFrame(synced) THEN <<>> ELSE synced]
        ELSE [out |-> <<>>, rest |-> From(synced, 2)]

(* What the sonar sent as one frame, on one connection.                     *)
IsWhole(f) == \A i \in 1..3 : f[i].kind \in Kinds[i] /\ f[i].old = f[1].old

(* onNotify(), and emitFrame(): a frame is not written out when the serial  *)
(* port has no room for it.                                                 *)
Notify ==
    /\ hostAt = "idle" /\ link = "up" /\ subscribed
    /\ \E k \in Kinds[next], room \in BOOLEAN :
           LET e == Extract(Append(buf, [kind |-> k, old |-> FALSE]))
           IN  /\ buf' = e.rest
               /\ torn' = (torn \/ (room /\ e.out # <<>> /\ ~IsWhole(e.out)))
    /\ next' = 1 + (next % 3)
    /\ UNCHANGED <<mode, shared, setting, at, hostAt, radio, outside>>

-----------------------------------------------------------------------------
(* The sonar: it comes and goes, and the radio may lose it while it is near.*)
ComeOrGo ==
    /\ near' = ~near
    /\ UNCHANGED <<mode, shared, setting, at, hostAt, radio, stream, sonar, drops>>

Drop ==
    /\ link = "up" /\ link' = "lost"
    /\ IF near THEN drops < MaxDrops /\ drops' = drops + 1 ELSE UNCHANGED drops
    /\ UNCHANGED <<mode, shared, setting, at, hostAt, scan, subscribed, stream,
                   near, sonar>>

Command == Start \/ Stop \/ SetSonar \/ NoCommand
Loop ==
    \/ Command \/ Pick \/ Connected \/ ConnectFails \/ Subscribe \/ NoService
    \/ FindControl \/ Finish \/ Send \/ Write
Host == OnDisconnect \/ Rescan

LinkNext == Loop \/ Host \/ Found \/ Notify \/ SwitchMode \/ ComeOrGo \/ Drop

LinkSpec == LinkInit /\ [][LinkNext]_linkVars

(* Both tasks run; a scan finds a sonar that keeps advertising; connecting  *)
(* and discovery succeed now and then; a sonar out of range loses the link. *)
LinkFairness ==
    /\ WF_linkVars(Loop) /\ WF_linkVars(Host) /\ SF_linkVars(Found)
    /\ SF_linkVars(Connected) /\ SF_linkVars(Subscribe) /\ WF_linkVars(~near /\ Drop)
LinkFairSpec == LinkSpec /\ LinkFairness

-----------------------------------------------------------------------------
(* What goes out is one frame of one connection: its head, its middle, its  *)
(* tail, none of them left over from before a reconnection.                 *)
WholeFrames == ~torn

(* Whatever order the two tasks run in, a sonar that stays in range of a    *)
(* started board is connected, in the end for good.                         *)
Recovers == <>[](near /\ active) => <>[](link = "up" /\ connected)

(* A setting made once, connected or not, is what the sonar works with.     *)
SettingsArrive ==
    \A v \in Settings : <>[](near /\ active /\ setting = v) => <>[](sonar = v)

(* main.cpp's comment on STOP ("so "start" can resume"): a stopped board    *)
(* makes no connection.                                                     *)
StopHolds == [][Connected => active]_linkVars

=============================================================================
