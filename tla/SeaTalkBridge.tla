--------------------------- MODULE SeaTalkBridge ---------------------------
(***************************************************************************)
(* The Raymarine bridge: one loop that moves readings between the SeaTalk  *)
(* wire, CAN (NMEA 2000), an MQTT broker and a SignalK server by a routing *)
(* matrix, and plays a demo or a fixed test onto the wire. SeaTalk is one  *)
(* open-drain wire: the board hears every datagram it sends. An interrupt  *)
(* logs the edges of the wire at any time; the loop turns them into a      *)
(* queue of datagrams and hands these out.                                 *)
(*                                                                         *)
(* A reading stands for a decoded value (a position, a heading with its    *)
(* rudder: joined) and remembers where it was born and how often this      *)
(* board has put it on the wire; the code keeps neither. `out` holds what  *)
(* the last step sent. EdgeRoom and QueueRoom are the room of the two      *)
(* buffers, in datagrams; Matrices the routing matrices a person may save. *)
(***************************************************************************)
EXTENDS Naturals, Sequences

CONSTANTS EdgeRoom, QueueRoom, Matrices

Sinks == {"seatalk", "can", "mqtt", "signalk"}
Played == {"demo", "nav", "test"}      \* values this board makes up itself
MaxHops == 2
Readings == [from : Sinks \union Played, hops : 0..MaxHops]
Datagrams == [r : Readings, good : BOOLEAN, win : BOOLEAN]

(* isConfigurable: the six columns of the matrix. *)
Pairs == {<<"seatalk", "can">>, <<"can", "seatalk">>, <<"mqtt", "seatalk">>,
          <<"mqtt", "can">>, <<"signalk", "seatalk">>, <<"signalk", "can">>}
Stages == <<"web", "nav", "demo", "mqtt", "signalk", "can", "test", "drain">>

VARIABLES stage,   \* where the loop is
          allowed, \* s_masks, for one type
          demo,    \* on; dest: the checkboxes
          nav,     \* s_navCycling
          edges,   \* datagrams on the wire whose edges are logged: s_edgeT
          queue,   \* s_queue
          marked,  \* s_windows has an entry
          up,      \* which of MQTT and SignalK are connected; neither is tried without WiFi
          server,  \* the delta (one of them) the SignalK server has yet to send to its subscribers
          tested,  \* s_loopbackTestDone
          out      \* what the last step sent: [to, r]

bridgeVars == <<stage, allowed, demo, nav, edges, queue, marked, up, server, tested, out>>

BridgeTypeOK ==
    /\ stage \in 1..Len(Stages) /\ allowed \in Matrices
    /\ demo \in [on : BOOLEAN, dest : SUBSET {"seatalk", "mqtt", "signalk"}]
    /\ nav \in BOOLEAN /\ marked \in BOOLEAN /\ tested \in BOOLEAN
    /\ edges \in Seq(Datagrams) /\ Len(edges) <= EdgeRoom
    /\ queue \in Seq(Datagrams) /\ Len(queue) <= QueueRoom
    /\ up \subseteq {"mqtt", "signalk"}
    /\ server \subseteq [r : Readings, own : BOOLEAN]
    /\ out \subseteq [to : Sinks, r : Readings]

(* setup: everything in the matrix is off until a person turns it on. *)
BridgeInit ==
    /\ stage = 1 /\ allowed = {} /\ demo = [on |-> FALSE, dest |-> {"seatalk"}] /\ nav = FALSE
    /\ edges = <<>> /\ queue = <<>> /\ marked = FALSE
    /\ up = {} /\ server = {} /\ tested = FALSE /\ out = {}

At(s) == Stages[stage] = s
Onward == stage' = (stage % Len(Stages)) + 1
Born(b) == [from |-> b, hops |-> 0]

(* onEdge: while the log is full, edges are lost. *)
Heard(log, d) == IF Len(log) < EdgeRoom THEN Append(log, d) ELSE log

OnTheWire(r) == [r EXCEPT !.hops = IF @ < MaxHops THEN @ + 1 ELSE @]

Kept(d) == IF server = {} THEN {d} ELSE server

(* What leaves for `to`, and what comes of it: the wire is heard back at   *)
(* once (win: within a marked window), the server keeps a delta to hand on *)
(* to its subscribers, this board included.                                *)
Sent(to, r) == {[to |-> s, r |-> r] : s \in to}
WireAfter(to, r, win) ==
    IF "seatalk" \in to THEN Heard(edges, [r |-> OnTheWire(r), good |-> TRUE, win |-> win])
                        ELSE edges
ServerAfter(to, r) == IF "signalk" \in to THEN Kept([r |-> r, own |-> TRUE]) ELSE server

Emit(to, r, win) ==
    /\ out' = Sent(to, r)
    /\ edges' = WireAfter(to, r, win)
    /\ server' = ServerAfter(to, r)

Quiet == out' = {} /\ UNCHANGED <<edges, server>>

(* RouteConfig::relay and the four publishers. *)
Legs(source) ==
    (IF source \in {"seatalk", "can"} THEN up ELSE {})
      \union {s \in {"seatalk", "can"} : s # source /\ <<source, s>> \in allowed}

Relay(source, r) == Emit(Legs(source), r, FALSE)

----------------------------------------------------------------------------
(* The loop, in the order of its calls. *)
RouteSave ==
    /\ allowed' \in Matrices
    /\ UNCHANGED <<demo, nav, up>>

DemoPage ==
    /\ \/ \E on \in BOOLEAN : demo' = [demo EXCEPT !.on = on]
       \/ \E dest \in SUBSET {"seatalk", "mqtt", "signalk"} : demo' = [demo EXCEPT !.dest = dest]
    /\ UNCHANGED <<allowed, nav, up>>

NavPage == nav' = ~nav /\ UNCHANGED <<allowed, demo, up>>

(* A broker or server saved: the connection to the one before is dropped. *)
LinkSave == \E l \in up : up' = up \ {l} /\ UNCHANGED <<allowed, demo, nav>>

Web ==
    /\ At("web") /\ Onward /\ Quiet
    /\ RouteSave \/ DemoPage \/ NavPage \/ LinkSave \/ UNCHANGED <<allowed, demo, nav, up>>
    /\ UNCHANGED <<queue, marked, tested>>

(* WebConfig::tick: the fixed values go out as any other transmission. *)
NavTick ==
    /\ At("nav") /\ Onward
    /\ \/ nav /\ Emit({"seatalk"}, Born("nav"), FALSE)
       \/ Quiet
    /\ UNCHANGED <<allowed, demo, nav, queue, marked, up, tested>>

(* DemoMode::tick, once a second: what it sends lies in a marked window. *)
DemoSends == demo.dest \intersect (up \union {"seatalk"})

DemoTick ==
    /\ At("demo") /\ Onward
    /\ \/ /\ demo.on
          /\ Emit(DemoSends, Born("demo"), TRUE)
          /\ marked' = TRUE
       \/ Quiet /\ UNCHANGED marked
    /\ UNCHANGED <<allowed, demo, nav, queue, up, tested>>

(* MqttManager::handleMessage: {base}/set/... is routed, {base}/raw/.../send *)
(* goes straight to the bus it names. Nothing the board publishes itself is *)
(* under either topic.                                                      *)
SetTopic == Relay("mqtt", Born("mqtt"))

RawTopic ==
    \/ \E bus \in {"seatalk", "can"} : Emit({bus}, Born("mqtt"), FALSE)
    \/ /\ "signalk" \in up
       /\ out' = Sent({"signalk"}, Born("mqtt"))
       /\ server' = Kept([r |-> Born("mqtt"), own |-> FALSE])
       /\ UNCHANGED edges

MqttTick ==
    /\ At("mqtt") /\ Onward
    /\ \/ "mqtt" \in up /\ (SetTopic \/ RawTopic) /\ UNCHANGED up
       \/ "mqtt" \notin up /\ up' = up \union {"mqtt"} /\ Quiet
       \/ Quiet /\ UNCHANGED up
    /\ UNCHANGED <<allowed, demo, nav, queue, marked, tested>>

(* handleDelta: an update that carries this board's own label is skipped. *)
IsOwnUnchecked(d) == FALSE   \* mutant: no label check
IsOwn(d) == d.own

Delta(d) ==
    LET to == IF IsOwn(d) THEN {} ELSE Legs("signalk")
    IN  out' = Sent(to, d.r) /\ edges' = WireAfter(to, d.r, FALSE)

SignalKTick ==
    /\ At("signalk") /\ Onward
    /\ \/ "signalk" \notin up /\ up' = up \union {"signalk"} /\ Quiet
       \/ /\ "signalk" \in up
          /\ \/ \E d \in server : Delta(d) /\ server' = server \ {d}
             \/ Relay("signalk", Born("signalk"))
          /\ UNCHANGED up
       \/ Quiet /\ UNCHANGED up
    /\ UNCHANGED <<allowed, demo, nav, queue, marked, tested>>

(* handleN2kMsg. The board does not receive its own CAN frames. *)
CanTick ==
    /\ At("can") /\ Onward
    /\ Relay("can", Born("can")) \/ Quiet
    /\ UNCHANGED <<allowed, demo, nav, queue, marked, up, tested>>

(* runLoopbackTest, once: it sends a depth and takes the first datagram    *)
(* that comes, whosever it is. What it does not take stays in the queue.   *)
SelfAt(d) == d.win
Forwarded(d) == d.good

FirstOf(log) == SubSeq(log, 1, IF Len(log) < QueueRoom THEN Len(log) ELSE QueueRoom)
Decoded == IF queue # <<>> THEN queue ELSE FirstOf(edges)

LoopbackTest ==
    /\ At("test") /\ Onward
    /\ \/ tested /\ Quiet /\ UNCHANGED <<queue, tested>>
       \/ /\ ~tested /\ tested' = TRUE
          /\ out' = Sent({"seatalk"}, Born("test"))
          /\ queue' = Tail(FirstOf(WireAfter({"seatalk"}, Born("test"), FALSE)))
          /\ edges' = <<>> /\ UNCHANGED server
    /\ UNCHANGED <<allowed, demo, nav, marked, up>>

(* poll: when the queue is empty every logged datagram moves into it, as   *)
(* far as there is room. A datagram of the board's own demo, a placeholder *)
(* and an implausible value go no further.                                 *)
Drain ==
    /\ At("drain")
    /\ \/ /\ Decoded = <<>> /\ Onward /\ Quiet /\ UNCHANGED queue
       \/ /\ Decoded # <<>>
          /\ queue' = Tail(Decoded)
          /\ LET d == Head(Decoded)
                 to == IF SelfAt(d) \/ ~Forwarded(d) THEN {} ELSE Legs("seatalk")
             IN  out' = Sent(to, d.r) /\ server' = ServerAfter(to, d.r)
          /\ edges' = IF queue = <<>> THEN <<>> ELSE edges
          /\ UNCHANGED stage
    /\ UNCHANGED <<allowed, demo, nav, marked, up, tested>>

----------------------------------------------------------------------------
(* Around it. An instrument talks: what it says may be a placeholder or    *)
(* damaged, and may fall into a marked window: one that is still open, or  *)
(* an old one once the 32-bit microseconds have come round.                *)
Instrument ==
    /\ Len(edges) < EdgeRoom
    /\ \E good \in BOOLEAN, win \in {FALSE} \union (IF marked THEN {TRUE} ELSE {}) :
         edges' = Append(edges, [r |-> Born("seatalk"), good |-> good, win |-> win])
    /\ out' = {}
    /\ UNCHANGED <<stage, allowed, demo, nav, queue, marked, up, server, tested>>

(* A connection, or a delta on its way, is lost. *)
Network ==
    /\ \/ \E l \in up : up' = up \ {l}
                        /\ server' = (IF l = "signalk" THEN {} ELSE server)
       \/ \E d \in server : server' = server \ {d} /\ UNCHANGED up
    /\ out' = {}
    /\ UNCHANGED <<stage, allowed, demo, nav, edges, queue, marked, tested>>

BridgeNext ==
    \/ Web \/ NavTick \/ DemoTick \/ MqttTick \/ SignalKTick \/ CanTick
    \/ LoopbackTest \/ Drain \/ Instrument \/ Network

BridgeSpec == BridgeInit /\ [][BridgeNext]_bridgeVars

----------------------------------------------------------------------------
(* The checkboxes alone decide where demo values appear, although the      *)
(* board hears them back on the wire, relays what it hears there, and the  *)
(* server sends them back to it (README 84-87, demo tick, main loop).      *)
DemoStep == \A o \in out' : o.r.from = "demo" => o.to \in demo.dest /\ demo.on

DemoOnlyWhereTold == [][DemoStep]_bridgeVars

(* No value goes round: what this board has once put on the wire it never  *)
(* puts there again, whichever way it came back (its own ears, the server, *)
(* the matrix).                                                            *)
NoFeedback == \A o \in out : o.to = "seatalk" => o.r.hops = 0

(* What the routing section says of the matrix: a value leaves only along  *)
(* a column that is ticked, or from SeaTalk or CAN to MQTT and SignalK;    *)
(* never to the bus it came from, never between MQTT and SignalK.          *)
OnlyTheMatrix ==
    [][\A o \in out' : o.r.from \in Sinks /\ Stages[stage] # "mqtt" =>
          \/ <<o.r.from, o.to>> \in allowed
          \/ o.r.from \in {"seatalk", "can"} /\ o.to \in {"mqtt", "signalk"}]_bridgeVars
=============================================================================
