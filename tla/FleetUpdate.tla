------------------------------ MODULE FleetUpdate ------------------------------
(***************************************************************************)
(* Firmware updates of a boat's boards, driven by the HELM: the check of   *)
(* the manifest, "Update All", the bursts that carry an image's address    *)
(* and checksum over the bus, each board's download, and the HELM's own    *)
(* update last of all.  How a check is asked for and answered on the       *)
(* screen is HelmScreen's.                                                 *)
(*                                                                         *)
(* A build is a number, 0 for none.  An image's address ("url") and its    *)
(* checksum ("sum", 0 for none) are the build they belong to.  A burst is  *)
(* two frames, url then sum; any frame may be lost.  Payloads with a       *)
(* checksum have one length and those without another, so that frames of   *)
(* two bursts may be taken for one.  The HELM's image and the boards' have *)
(* the same build.  WiFi.status() and the holds are read anew at every     *)
(* test and may say anything.  A board's ACK is left out: nothing in       *)
(* Update All awaits it.                                                   *)
(***************************************************************************)
EXTENDS Integers, Sequences, FiniteSets

CONSTANTS
    Engines,    \* the indices of the engines the HELM knows
    Boards,     \* the engine boards
    BoardOf,    \* the board an engine is on
    Wireless,   \* the boards reached over ESP-NOW
    MaxBuild,   \* bound: the newest build that is released
    Broken      \* what a board runs whose flash does not hold a whole image

ASSUME FleetAssumption ==
    /\ IsFiniteSet(Engines)   \* MAX_ENGINES
    /\ BoardOf \in [Engines -> Boards]
    /\ Wireless \subseteq Boards
    /\ MaxBuild \in Nat \ {0}
    /\ Broken \notin Int

Build == 0..MaxBuild
Image == [url : Build, sum : Build]

VARIABLES
    newest,     \* the image the manifest names
    node,       \* what the last check that went well read of it: g_node_update,
                \*   g_helm_update_build
    heard,      \* engines[].fw_build of an engine that is present, 0 if it is not
    ua,         \* g_ua_active, g_ua_helm_after, g_ua_helm_at_ms # 0, UA_TIMEOUT_MS over
    item,       \* g_ua_items by engine
    helmFw,     \* the build the HELM runs
    air,        \* the frames under way to a board
    board       \* a board: g_ota_buf, g_ota_url and _md5, g_ota_ready, whether
                \*   ota_tick blocks its loop, whether it is enrolled, the build it runs

helmVars == <<node, heard, ua, item, helmFw>>
boardVars == <<air, board>>
fleetVars == <<newest, helmVars, boardVars>>

FleetTypeOK ==
    /\ newest \in Image /\ node \in Image
    /\ heard \in [Engines -> Build]
    /\ ua \in [active : BOOLEAN, after : BOOLEAN, due : BOOLEAN, late : BOOLEAN]
    /\ item \in [Engines -> [build : Build, st : {"none", "waiting", "done", "failed"}]]
    /\ helmFw \in Build
    /\ air \in [Boards -> Seq([part : {"url", "sum"}, of : Image])]
    /\ board \in [Boards -> [buf : Image, url : Build, sum : Build, ready : BOOLEAN,
                             joining : BOOLEAN, on : BOOLEAN, fw : Build \cup {Broken}]]

NoImage == [url |-> 0, sum |-> 0]
NoUpdate == [active |-> FALSE, after |-> FALSE, due |-> FALSE, late |-> FALSE]
NoItem == [build |-> 0, st |-> "none"]
Booted(f) == [buf |-> NoImage, url |-> 0, sum |-> 0, ready |-> FALSE, joining |-> FALSE,
              on |-> FALSE, fw |-> f]

FleetInit ==
    /\ newest = [url |-> 1, sum |-> 1]
    /\ node = NoImage /\ heard = [e \in Engines |-> 0]
    /\ ua = NoUpdate /\ item = [e \in Engines |-> NoItem]
    /\ helmFw = 1
    /\ air = [b \in Boards |-> <<>>]
    /\ board \in [Boards -> {Booted(f) : f \in 1..MaxBuild}]

-----------------------------------------------------------------------------
(* apply(): the image of build u is fetched, whole or cut short, its length  *)
(* known or not, and compared with the checksum m if there is one.           *)

Outcome == [whole : BOOLEAN, sized : BOOLEAN]
AcceptedBySize(u, m, o) == /\ o.sized => o.whole
                           /\ m # 0 => o.whole
Accepted(u, m, o) == /\ o.sized => o.whole
                     /\ m # 0 => (o.whole /\ u = m)
Flashed(u, o) == IF o.whole THEN u ELSE Broken

-----------------------------------------------------------------------------
(* The HELM.                                                                 *)

\* check_for_update_tick, when it may run and its fetch goes well.
CheckFleet ==
    /\ node' = newest
    /\ UNCHANGED <<newest, heard, ua, item, helmFw, boardVars>>

HelmNew == node.url > helmFw
OutOfDate(e) == heard[e] # 0 /\ heard[e] < node.url

\* Cancel, or "Close (updates carry on)".
Close ==
    /\ ua' = [ua EXCEPT !.active = FALSE, !.due = FALSE]
    /\ UNCHANGED <<newest, node, heard, item, helmFw, boardVars>>

\* A burst for each engine that needs one, but one only for an ESP-NOW board.
Bursts(b) == LET n == Cardinality({e \in Engines : BoardOf[e] = b /\ OutOfDate(e)})
             IN  IF b \in Wireless /\ n > 0 THEN 1 ELSE n
Burst(n) == [i \in 1..2 * n |-> [part |-> IF i % 2 = 1 THEN "url" ELSE "sum", of |-> node]]

\* The progress window and the bursts; without a network the window alone.  A
\* hand is slower than a burst, so that no frame of an earlier one is under way.
UpdateAllStart ==
    /\ ~ua.active /\ (HelmNew \/ \E e \in Engines : OutOfDate(e))
    /\ \A b \in Boards : air[b] = <<>>
    /\ LET todo == {e \in Engines : OutOfDate(e)}
       IN  /\ ua' = [active |-> TRUE, after |-> HelmNew, due |-> todo = {}, late |-> FALSE]
           /\ item' = [e \in Engines |-> IF e \in todo THEN [build |-> node.url, st |-> "waiting"]
                                         ELSE NoItem]
           /\ air' = [b \in Boards |-> Burst(Bursts(b))]
    /\ UNCHANGED <<newest, node, heard, helmFw, board>>

\* update_all_tick watches the boards, and schedules the HELM when all are back.
WaitForEver(e) == IF item[e].st = "waiting" /\ heard[e] >= item[e].build
                  THEN [item[e] EXCEPT !.st = "done"] ELSE item[e]
Watched(e) == IF item[e].st # "waiting" THEN item[e]
              ELSE [item[e] EXCEPT !.st = IF heard[e] >= item[e].build THEN "done"
                                          ELSE IF ua.late THEN "failed" ELSE @]

WatchWhateverFails ==
    /\ ua.active
    /\ item' = [e \in Engines |-> Watched(e)]
    /\ ua' = IF ua.due \/ \E e \in Engines : item'[e].st = "waiting" THEN ua
             ELSE IF ua.after THEN [ua EXCEPT !.due = TRUE]
                  ELSE [ua EXCEPT !.active = FALSE]
    /\ UNCHANGED <<newest, node, heard, helmFw, boardVars>>
Watch ==
    /\ ua.active
    /\ item' = [e \in Engines |-> Watched(e)]
    /\ ua' = IF ua.due \/ \E e \in Engines : item'[e].st = "waiting" THEN ua
             ELSE IF ua.after /\ \A e \in Engines : item'[e].st # "failed"
                  THEN [ua EXCEPT !.due = TRUE]
                  ELSE [ua EXCEPT !.active = FALSE]
    /\ UNCHANGED <<newest, node, heard, helmFw, boardVars>>

\* UA_TIMEOUT_MS are over.
Timeout ==
    /\ ua.active /\ ~ua.late
    /\ ua' = [ua EXCEPT !.late = TRUE]
    /\ UNCHANGED <<newest, node, heard, item, helmFw, boardVars>>

\* ota_helm_self_update: a failure is shown, a new image is followed by a restart.
HelmUpdates ==
    /\ ua.active /\ ua.due
    /\ \/ ua' = [ua EXCEPT !.active = FALSE, !.due = FALSE] /\ UNCHANGED <<node, heard, item, helmFw>>
       \/ /\ helmFw' = node.url
          /\ node' = NoImage /\ heard' = [e \in Engines |-> 0]
          /\ ua' = NoUpdate /\ item' = [e \in Engines |-> NoItem]
    /\ UNCHANGED <<newest, boardVars>>

\* ANNOUNCE of an engine, from a board that runs: the first follows its enrolment
\* in the same pass of the loop, and outlasts a burst.  And its silence.
Announce(e) ==
    LET b == BoardOf[e]
    IN  /\ ~board[b].joining /\ board[b].fw # Broken
        /\ board[b].on \/ air[b] = <<>>
        /\ heard' = [heard EXCEPT ![e] = board[b].fw]
        /\ board' = [board EXCEPT ![b].on = TRUE]
        /\ UNCHANGED <<newest, node, ua, item, helmFw, air>>

AgeOut(e) ==
    /\ heard[e] # 0
    /\ heard' = [heard EXCEPT ![e] = 0]
    /\ UNCHANGED <<newest, node, ua, item, helmFw, boardVars>>

-----------------------------------------------------------------------------
(* The boards.                                                               *)

\* ota_handle_start_chunk, for an enrolled engine.  While ota_tick blocks the loop
\* only the radio hears.
Hears(b) == board[b].on /\ (~board[b].joining \/ b \in Wireless)
SameLength(i, j) == i.url # 0 /\ (i.sum = 0 <=> j.sum = 0)
Chunk(r, f) ==
    IF f.part = "url" THEN [r EXCEPT !.buf = f.of]
    ELSE IF ~SameLength(r.buf, f.of) THEN r
    ELSE [r EXCEPT !.buf = NoImage, !.url = r.buf.url, !.sum = f.of.sum, !.ready = TRUE]

Deliver(b) ==
    /\ air[b] # <<>>
    /\ air' = [air EXCEPT ![b] = Tail(@)]
    /\ board' = IF Hears(b) THEN [board EXCEPT ![b] = Chunk(@, Head(air[b]))] ELSE board
    /\ UNCHANGED <<newest, helmVars>>

Lose(b) ==
    /\ air[b] # <<>>
    /\ air' = [air EXCEPT ![b] = Tail(@)]
    /\ UNCHANGED <<newest, helmVars, board>>

\* ota_tick: off the bus and onto the network ...
Join(b) ==
    /\ board[b].ready /\ ~board[b].joining
    /\ board' = [board EXCEPT ![b].ready = FALSE, ![b].joining = TRUE]
    /\ UNCHANGED <<newest, helmVars, air>>

\* ... a new image or not, and a restart; a burst is long over by then.
FleetRestart(b) ==
    /\ board[b].joining /\ air[b] = <<>>
    /\ \/ board' = [board EXCEPT ![b] = Booted(board[b].fw)]
       \/ \E o \in Outcome :
             /\ Accepted(board[b].url, board[b].sum, o)
             /\ board' = [board EXCEPT ![b] = Booted(Flashed(board[b].url, o))]
    /\ UNCHANGED <<newest, helmVars, air>>

\* "Join WiFi": the network's name and key alone, saved, and a restart.
WifiJoin(b) ==
    /\ board[b].on /\ ~board[b].joining /\ air[b] = <<>>
    /\ board' = [board EXCEPT ![b] = Booted(board[b].fw)]
    /\ UNCHANGED <<newest, helmVars, air>>

-----------------------------------------------------------------------------
\* A release, with its checksum or, as in older manifests, without.
Release ==
    /\ newest.url < MaxBuild
    /\ \E m \in {0, newest.url + 1} : newest' = [url |-> newest.url + 1, sum |-> m]
    /\ UNCHANGED <<helmVars, boardVars>>

FleetNext ==
    \/ CheckFleet \/ Close \/ UpdateAllStart \/ Watch \/ Timeout \/ HelmUpdates
    \/ \E b \in Boards : Deliver(b) \/ Lose(b) \/ Join(b) \/ FleetRestart(b) \/ WifiJoin(b)
    \/ \E e \in Engines : Announce(e) \/ AgeOut(e)
    \/ Release

FleetSpec == FleetInit /\ [][FleetNext]_fleetVars

\* ui_tick comes round and time passes.
FleetFairness == WF_fleetVars(Watch) /\ WF_fleetVars(HelmUpdates) /\ WF_fleetVars(Timeout)

FleetFairSpec == FleetSpec /\ FleetFairness

-----------------------------------------------------------------------------
(* Properties.                                                               *)

\* When the HELM takes a new build, every board Update All sent an image to runs
\* that build or a newer one: it goes last, and not after a failure.
HelmStep ==
    helmFw' # helmFw => \A e \in Engines :
          item[e].st # "none" => /\ board[BoardOf[e]].fw # Broken
                                 /\ board[BoardOf[e]].fw >= item[e].build
HelmGoesLast == [][HelmStep]_fleetVars

\* A board flashed from a burst with a checksum runs the very build the checksum is
\* of, whatever was lost of which bursts and wherever the download stopped.
ChecksumStep ==
    \A b \in Boards : board'[b].fw # board[b].fw => board[b].sum \in {0, board'[b].fw}
ChecksumHolds == [][ChecksumStep]_fleetVars

\* No board ever goes back to an older build.
ForwardStep ==
    \A b \in Boards : board[b].fw # Broken /\ board'[b].fw # Broken
                      => board'[b].fw >= board[b].fw
NoDowngrade == [][ForwardStep]_fleetVars

\* So a board never goes back, and one told a checksum runs the very build the
\* checksum is of, whatever frames were lost.
FlashedAsMeant == [][ForwardStep /\ ChecksumStep]_fleetVars
================================================================================
