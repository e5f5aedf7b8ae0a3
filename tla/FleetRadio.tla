------------------------------ MODULE FleetRadio ------------------------------
(***************************************************************************)
(* The fleet's radio network and the way commands take: engine boards and  *)
(* displays (CYD) look for the HELM's channel, join it, lose it and find   *)
(* it again; both ends check every frame's session and counter; the HELM   *)
(* learns from what it hears whether an engine is reached by ESP-NOW or by *)
(* wire, else it uses CAN.                                                 *)
(*                                                                         *)
(* Every node holds the same secret, so that tags always match; what is    *)
(* left of the check of a frame is its freshness.  A receiver's slot for a *)
(* sender is "this" (the sender's running session), "old" (an earlier one) *)
(* or "none": frames of a session come in order, hence a frame is refused  *)
(* only by a slot that still holds an earlier session, and then for good   *)
(* once the count is past Fresh.  Counters stop at MaxCount, beyond Fresh. *)
(* Frames are lost at will; a broadcast may be heard, faintly, on another  *)
(* channel, an addressed frame may not.  A channel named in a heartbeat is *)
(* adopted in the pass of the loop that follows at once.                   *)
(***************************************************************************)
EXTENDS Integers, FiniteSets

CONSTANTS
    Boards,     \* engine boards
    Displays,   \* CYD displays
    Channels,   \* CHANNEL_SCAN_MAX
    Retries,    \* CACHED_CHANNEL_RETRIES
    Fresh,      \* FSEC_NEW_SESSION_MAX_COUNTER
    MaxPaired,  \* ESPNOW_MAX_PAIRED
    MaxCount,   \* bound: where counters stop
    MaxFaults,  \* bound: restarts, cleared pairings, moved wires
    MayUnplug   \* the direct wire may be pulled while CAN works

RadioAssumption ==
    /\ Boards \cap Displays = {}
    /\ Channels \in Nat \ {0} /\ MaxPaired \in Nat
    /\ {Retries, Fresh, MaxCount, MaxFaults} \subseteq Nat
    /\ MayUnplug \in BOOLEAN

Nodes == Boards \cup Displays
Channel == 1..Channels
Slot == {"none", "this", "old"}

VARIABLES
    helm,       \* the HELM: its channel, g_fsec_counter, g_pending_upgrade_mac ({} for none)
    peer,       \* espnow_peers and how each is registered with the radio
    seen,       \* the HELM's g_fsec_replay
    route,      \* engine_slots[].transport
    node,       \* a node: g_paired, g_channel, "lastch", g_hunting, tries left, whether
                \*   LOST_CONTACT_MS are over, g_fsec_counter, its g_fsec_replay of the HELM
    wire,       \* the boards on the direct wire
    can,        \* the boards whose CAN works
    faults      \* how much has happened

helmVars == <<helm, peer, seen, route>>
linkVars == <<wire, can>>
vars == <<helmVars, node, linkVars, faults>>

TypeOK ==
    /\ helm \in [ch : Channel, count : 0..MaxCount, pending : SUBSET Nodes]
    /\ peer \in [Nodes -> {"none", "plain", "cipher"}]
    /\ seen \in [Nodes -> Slot]
    /\ route \in [Boards -> {"unknown", "espnow", "wired"}]
    /\ node \in [Nodes -> [paired : BOOLEAN, ch : Channel, last : Channel, hunting : BOOLEAN,
                           tries : 0..Retries, silent : BOOLEAN, count : 0..MaxCount, slot : Slot]]
    /\ wire \subseteq Boards /\ can \subseteq Boards
    /\ faults \in 0..MaxFaults

Fault == faults < MaxFaults /\ faults' = faults + 1
Next1(k) == IF k < MaxCount THEN k + 1 ELSE k
Known == {n \in Nodes : peer[n] # "none"}

Started(p, c) == [paired |-> p, ch |-> c, last |-> c, hunting |-> FALSE, tries |-> 0,
                  silent |-> FALSE, count |-> 0, slot |-> "none"]

Init ==
    /\ helm \in [ch : Channel, count : {0}, pending : {{}}]
    /\ peer = [n \in Nodes |-> "none"] /\ seen = [n \in Nodes |-> "none"]
    /\ route = [b \in Boards |-> "unknown"]
    /\ node = [n \in Nodes |-> Started(FALSE, 1)]
    /\ wire = {} /\ can \in SUBSET Boards
    /\ faults = 0

-----------------------------------------------------------------------------
\* fsec_frame_verify: of frame number k from a sender whose slot is s.
Believed(s, k) == s # "old" \/ k <= Fresh

\* A sender that restarts: what was its session is an earlier one.
Aged(s) == IF s = "this" THEN "old" ELSE s

Reach(n) == node[n].ch = helm.ch
WiredActive(n) == n \in wire

-----------------------------------------------------------------------------
(* A node looks for the HELM.                                                *)

\* LOST_CONTACT_MS are over: nothing addressed to the node came in between.
Lost(n) ==
    /\ node[n].paired /\ ~node[n].silent
    /\ ~(Reach(n) /\ n \in Known /\ Believed(node[n].slot, Next1(helm.count)))
    /\ node' = [node EXCEPT ![n].silent = TRUE]
    /\ UNCHANGED <<helmVars, linkVars, faults>>

NeedHunt(n) == ~WiredActive(n) /\ (~node[n].paired \/ node[n].silent)

\* Where the next HELLO is sent: first on the last good channel, a few times, then
\* on one after the other.
HopOnce(r) ==   \* mutant: only the last good channel is tried
    IF ~r.hunting THEN [r EXCEPT !.hunting = TRUE, !.ch = r.last] ELSE r

Hop(r) ==
    IF ~r.hunting THEN [r EXCEPT !.hunting = TRUE, !.ch = r.last, !.tries = Retries]
    ELSE IF r.tries > 0 THEN [r EXCEPT !.tries = @ - 1]
    ELSE [r EXCEPT !.ch = (@ % Channels) + 1]

\* pairing_requester_tick, cyd_pairing_tick: a HELLO that nobody hears.
HelloLost(n) ==
    /\ NeedHunt(n)
    /\ node' = [node EXCEPT ![n] = Hop(@)]
    /\ UNCHANGED <<helmVars, linkVars, faults>>

\* A HELLO the HELM hears: espnow_pairing_accept_mac, in the clear for now; and
\* its answer, which may be lost, and which a node that has joined ignores.
Accepts(n) == n \in Known \/ Cardinality(Known) < MaxPaired
Joined(r) == IF r.paired THEN r ELSE [r EXCEPT !.paired = TRUE, !.silent = FALSE]

HelloHeard(n, answered) ==
    /\ NeedHunt(n) /\ Hop(node[n]).ch = helm.ch /\ Accepts(n)
    /\ peer' = [peer EXCEPT ![n] = "plain"]
    /\ helm' = [helm EXCEPT !.pending = {n}]
    /\ node' = [node EXCEPT ![n] = IF answered THEN Joined(Hop(@)) ELSE Hop(@)]
    /\ UNCHANGED <<seen, route, linkVars, faults>>

\* Contact again: the channel is kept for the next time.
Found(n) ==
    /\ ~WiredActive(n) /\ ~NeedHunt(n) /\ node[n].hunting
    /\ node' = [node EXCEPT ![n].hunting = FALSE, ![n].last = node[n].ch]
    /\ UNCHANGED <<helmVars, linkVars, faults>>

\* espnow_upgrade_tick, PAIR_UPGRADE_DELAY_MS after the last HELLO.
Upgrade ==
    /\ helm.pending # {}
    /\ peer' = [n \in Nodes |-> IF n \in helm.pending \cap Known THEN "cipher" ELSE peer[n]]
    /\ helm' = [helm EXCEPT !.pending = {}]
    /\ UNCHANGED <<seen, route, node, linkVars, faults>>

-----------------------------------------------------------------------------
(* Frames.                                                                   *)

\* What a frame of the HELM does to a node r: r moves to the channel it names, if
\* it does not go by wire; only a frame addressed to r counts as contact.
Heard(r, moves, addressed) ==
    LET s == IF addressed THEN [r EXCEPT !.slot = "this", !.silent = FALSE] ELSE [r EXCEPT !.slot = "this"]
    IN  IF moves /\ r.ch # helm.ch THEN [s EXCEPT !.ch = helm.ch, !.last = helm.ch] ELSE s

\* The heartbeat: broadcast, and addressed to every peer.
Broadcast(n) ==
    /\ Known # {} /\ node[n].paired /\ Believed(node[n].slot, Next1(helm.count))
    /\ node' = [node EXCEPT ![n] = Heard(@, ~WiredActive(n), FALSE)]
    /\ helm' = [helm EXCEPT !.count = Next1(@)]
    /\ UNCHANGED <<peer, seen, route, linkVars, faults>>

Addressed(n) ==
    /\ n \in Known /\ Reach(n) /\ node[n].paired /\ Believed(node[n].slot, Next1(helm.count))
    /\ node' = [node EXCEPT ![n] = Heard(@, ~WiredActive(n), TRUE)]
    /\ helm' = [helm EXCEPT !.count = Next1(@)]
    /\ UNCHANGED <<peer, seen, route, linkVars, faults>>

HelmUnheard ==
    /\ Known # {} /\ helm.count < MaxCount
    /\ helm' = [helm EXCEPT !.count = @ + 1]
    /\ UNCHANGED <<peer, seen, route, node, linkVars, faults>>

\* bus_send of a board without CAN; a display's glow and start.  From a peer the
\* HELM believes, it learns the engine's transport.
Radio(n) == node[n].paired /\ n \notin can

Learned(n) == [b \in Boards |-> IF b = n THEN "espnow" ELSE route[b]]

FrameHeard(n) ==
    /\ Radio(n) /\ Reach(n) /\ n \in Known /\ Believed(seen[n], Next1(node[n].count))
    /\ seen' = [seen EXCEPT ![n] = "this"]
    /\ route' = Learned(n)
    /\ node' = [node EXCEPT ![n].count = Next1(@)]
    /\ UNCHANGED <<helm, peer, linkVars, faults>>

FrameUnheard(n) ==
    /\ Radio(n) /\ node[n].count < MaxCount
    /\ node' = [node EXCEPT ![n].count = @ + 1]
    /\ UNCHANGED <<helmVars, linkVars, faults>>

\* A board sends everything over the wire too.
WiredFrame(b) ==
    /\ b \in wire
    /\ route' = [route EXCEPT ![b] = "wired"]
    /\ UNCHANGED <<helm, peer, seen, node, linkVars, faults>>

-----------------------------------------------------------------------------
(* What happens to them.                                                     *)

\* A restart of a node: it starts on channel 1 or the last good one, its CAN anew.
Restart(n) ==
    /\ Fault
    /\ \E c \in {1, node[n].last} :
          node' = [node EXCEPT ![n] = [Started(node[n].paired, c) EXCEPT !.last = node[n].last]]
    /\ seen' = [seen EXCEPT ![n] = Aged(@)]
    /\ UNCHANGED <<helm, peer, route, linkVars>>

\* REPAIR.
Forget(n) ==
    /\ Fault /\ node[n].paired
    /\ node' = [node EXCEPT ![n].paired = FALSE]
    /\ UNCHANGED <<helmVars, linkVars>>

\* The HELM restarts, perhaps on another network: its peers come back encrypted,
\* what it knew of sessions and transports is gone.
HelmRestart ==
    /\ Fault
    /\ \E c \in Channel : helm' = [ch |-> c, count |-> 0, pending |-> {}]
    /\ peer' = [n \in Nodes |-> IF n \in Known THEN "cipher" ELSE "none"]
    /\ seen' = [n \in Nodes |-> "none"] /\ route' = [b \in Boards |-> "unknown"]
    /\ node' = [n \in Nodes |-> [node[n] EXCEPT !.slot = Aged(@)]]
    /\ UNCHANGED linkVars

\* CLEARPEERS.
ClearPeers ==
    /\ Fault /\ Known # {}
    /\ peer' = [n \in Nodes |-> "none"]
    /\ UNCHANGED <<helm, seen, route, node, linkVars>>

\* A wire is plugged or pulled, CAN goes bus-off.
Plug(b) ==
    /\ Fault
    /\ b \in wire => MayUnplug \/ b \notin can
    /\ wire' = IF b \in wire THEN wire \ {b} ELSE wire \cup {b}
    /\ UNCHANGED <<helmVars, node, can>>

BusOff(b) ==
    /\ Fault /\ b \in can
    /\ can' = can \ {b}
    /\ UNCHANGED <<helmVars, node, wire>>

-----------------------------------------------------------------------------
Next ==
    \/ Upgrade \/ HelmUnheard \/ HelmRestart \/ ClearPeers
    \/ \E n \in Nodes :
          \/ Lost(n) \/ HelloLost(n) \/ (\E a \in BOOLEAN : HelloHeard(n, a)) \/ Found(n)
          \/ Broadcast(n) \/ Addressed(n) \/ FrameHeard(n) \/ FrameUnheard(n)
          \/ Restart(n) \/ Forget(n)
    \/ \E b \in Boards : WiredFrame(b) \/ Plug(b) \/ BusOff(b)

Spec == Init /\ [][Next]_vars

\* The loops come round, time passes, and a channel that is shared again and again
\* does not lose every HELLO with its answer, nor every frame.
Fairness ==
    /\ WF_vars(Upgrade)
    /\ \A n \in Nodes :
        /\ WF_vars(Lost(n)) /\ WF_vars(Found(n))
        /\ WF_vars(\E a \in BOOLEAN : HelloLost(n) \/ HelloHeard(n, a))
        /\ SF_vars(HelloHeard(n, TRUE))
        /\ SF_vars(Addressed(n)) /\ SF_vars(FrameHeard(n))
    /\ \A b \in Boards : WF_vars(WiredFrame(b))

FairSpec == Spec /\ Fairness

-----------------------------------------------------------------------------
(* Properties.                                                               *)

\* Whatever restarted, moved to another channel or forgot the other, a node and the
\* HELM find each other again, and the node knows it. (So the comment above
\* pairing_requester_tick; the freshness check does not let it: see Refused.)
InContact(n) == /\ node[n].paired /\ n \in Known /\ Reach(n) /\ ~node[n].silent
Reunited == \A n \in Nodes : <>[](InContact(n) \/ WiredActive(n))

\* One of the two has restarted and sent more than Fresh frames before the other
\* heard any: the other refuses every frame of this session.
Refused(n) == \/ ~Believed(node[n].slot, Next1(helm.count))
              \/ ~Believed(seen[n], Next1(node[n].count))
ReunitedOrRefused == \A n \in Nodes : <>[](InContact(n) \/ WiredActive(n) \/ Refused(n))

\* In the end the HELM sends an engine's commands down a way that leads to it.
Leads(b) == \/ route[b] = "wired" /\ b \in wire
            \/ route[b] = "espnow" /\ InContact(b)
            \/ route[b] = "unknown" /\ b \in can
CommandsArrive == \A b \in Boards : <>[](Leads(b) \/ Refused(b))
================================================================================
