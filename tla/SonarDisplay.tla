---------------------------- MODULE SonarDisplay ----------------------------
(***************************************************************************)
(* The fish finder's own screen (FishFinderProBluetoothCYD: sonar_ble.cpp, *)
(* display.cpp, main.cpp), in its Bluetooth mode.  The Bluetooth host's    *)
(* task decodes frames into one Reading that the loop draws from, without  *)
(* a lock.  Only what changed is drawn: a table rewritten on every update, *)
(* or a sweep of columns of which an update draws one; s_needsFullRedraw   *)
(* asks for all of it.  The panel keeps what nobody draws over: a column   *)
(* stays at the scale it was drawn at when the scale changes.              *)
(*                                                                         *)
(* Depths are bands, one for each vertical scale that would be chosen.     *)
(***************************************************************************)
EXTENDS Naturals, Sequences

CONSTANTS
    Deepest,    \* the depth bands are 1..Deepest
    Rows,       \* readings in the table
    Columns     \* columns of the waterfall

ASSUME DisplayAssumption == Deepest \in Nat \ {0} /\ Rows \in Nat \ {0} /\ Columns \in Nat \ {0}

VARIABLES
    cyd_link,       \* "none", "up", or "lost": its end not yet reported
    cyd_scan, cyd_doConnect, cyd_connected,     \* the scan, s_doConnect, s_bleConnected
    cyd_hostAt,     \* "idle", or "frame": in the middle of decodeFrame()
    fresh,      \* s_reading.frameCount # s_lastFrameCount
    reading,    \* s_reading: [valid, depth, out]
    cyd_at,         \* where the loop is
    view,       \* s_viewMode: "table" or "waterfall"
    redraw,     \* s_needsFullRedraw
    history,    \* s_history, the newest first
    cols, cyd_head, \* s_waterfallCols, s_waterfallHead
    scale,      \* s_waterfallScaleMax
    panel       \* what the panel shows: [body, cols, legend, bars]

ble == <<cyd_link, cyd_scan, cyd_doConnect, cyd_connected>>
data == <<history, cols, cyd_head, scale>>
cydVars == <<ble, cyd_hostAt, fresh, reading, cyd_at, view, redraw, data, panel>>

Bands == 1..Deepest
Column == 0..(Columns - 1)
NoEntry == [valid |-> FALSE, depth |-> 1]
Entry == [valid : BOOLEAN, depth : Bands]
Drawn(e, s) == [e |-> e, at |-> IF e.valid THEN s ELSE 0]   \* a mark has no scale
Pictures == [e : Entry, at : 0..Deepest]            \* a column's entry, drawn at a scale
CydBlank == [e |-> NoEntry, at |-> Deepest + 1]     \* a column nothing is drawn in
Sweep == [e |-> NoEntry, at |-> Deepest + 2]        \* the bright line ahead of the data
CydMaxOf(S) == CHOOSE m \in S : \A n \in S : n <= m

CydTypeOK ==
    /\ cyd_link \in {"none", "up", "lost"} /\ {cyd_scan, cyd_doConnect, cyd_connected} \subseteq BOOLEAN
    /\ cyd_hostAt \in {"idle", "frame"} /\ fresh \in BOOLEAN
    /\ reading \in [valid : BOOLEAN, depth : Bands, out : BOOLEAN]
    /\ cyd_at \in {"tick", "connect", "tail", "draw", "store", "scale", "finish"}
    /\ view \in {"table", "waterfall"} /\ redraw \in BOOLEAN
    /\ history \in [1..Rows -> Entry] /\ cols \in [Column -> Entry]
    /\ cyd_head \in Column /\ scale \in Bands
    /\ panel \in [body : {"blank", "searching", "table", "waterfall"},
                  cols : [Column -> Pictures \cup {CydBlank, Sweep}],
                  legend : 0..Deepest, bars : 0..1]

CydInit ==
    /\ cyd_link = "none" /\ cyd_scan = TRUE /\ cyd_doConnect = FALSE /\ cyd_connected = FALSE
    /\ cyd_hostAt = "idle" /\ fresh = FALSE
    /\ reading = [valid |-> FALSE, depth |-> 1, out |-> FALSE]
    /\ cyd_at = "tick" /\ view = "table" /\ redraw = TRUE
    /\ history = [i \in 1..Rows |-> NoEntry]
    /\ cols = [c \in Column |-> NoEntry] /\ cyd_head = 0 /\ scale = 1
    /\ panel = [body |-> "blank", cols |-> [c \in Column |-> CydBlank], legend |-> 0, bars |-> 0]

-----------------------------------------------------------------------------
(* The host's task.                                                         *)
CydFound ==
    /\ cyd_hostAt = "idle" /\ cyd_scan /\ cyd_link = "none"
    /\ cyd_scan' = FALSE /\ cyd_doConnect' = TRUE
    /\ UNCHANGED <<cyd_link, cyd_connected, cyd_hostAt, fresh, reading, cyd_at, view, redraw, data, panel>>

CydOnDisconnect ==
    /\ cyd_hostAt = "idle" /\ cyd_link = "lost"
    /\ cyd_link' = "none" /\ cyd_connected' = FALSE /\ cyd_scan' = TRUE
    /\ UNCHANGED <<cyd_doConnect, cyd_hostAt, fresh, reading, cyd_at, view, redraw, data, panel>>

(* decodeFrame(): the frame is counted before its depth is stored.          *)
FrameCounted ==
    /\ cyd_hostAt = "idle" /\ cyd_link = "up" /\ cyd_at # "connect"
    /\ cyd_hostAt' = "frame" /\ fresh' = TRUE
    /\ \E out \in BOOLEAN : reading' = [reading EXCEPT !.out = out]
    /\ UNCHANGED <<ble, cyd_at, view, redraw, data, panel>>

(* A depth out of range leaves the one before it, which stays valid.        *)
FrameStored ==
    /\ cyd_hostAt = "frame" /\ cyd_hostAt' = "idle"
    /\ \/ \E d \in Bands : reading' = [reading EXCEPT !.depth = d, !.valid = TRUE]
       \/ UNCHANGED reading
    /\ UNCHANGED <<ble, fresh, cyd_at, view, redraw, data, panel>>

CydDrop ==
    /\ cyd_link = "up" /\ cyd_link' = "lost"
    /\ UNCHANGED <<cyd_scan, cyd_doConnect, cyd_connected, cyd_hostAt, fresh, reading, cyd_at, view, redraw,
                   data, panel>>

-----------------------------------------------------------------------------
(* The loop.  The DISPLAY command, and the end of its colour bars, clear the*)
(* panel and ask for everything again.                                      *)
RepaintAll ==
    /\ cyd_at = "tick" /\ redraw' = TRUE
    /\ panel' = [body |-> "blank", cols |-> [c \in Column |-> CydBlank], legend |-> 0, bars |-> 0]
    /\ UNCHANGED <<ble, cyd_hostAt, fresh, reading, cyd_at, view, data>>

(* connectToFishFinder(): what can go wrong, and its tail.                  *)
CydPick ==
    /\ cyd_at = "tick" /\ cyd_doConnect
    /\ cyd_doConnect' = FALSE /\ cyd_at' = "connect"
    /\ UNCHANGED <<cyd_link, cyd_scan, cyd_connected, cyd_hostAt, fresh, reading, view, redraw, data, panel>>

Connect ==
    /\ cyd_at = "connect"
    /\ \/ cyd_link = "none" /\ cyd_link' = "up" /\ cyd_scan' = FALSE /\ cyd_at' = "tail"
       \/ cyd_link' = cyd_link /\ cyd_scan' = TRUE /\ cyd_at' = "tick"
    /\ UNCHANGED <<cyd_doConnect, cyd_connected, cyd_hostAt, fresh, reading, view, redraw, data, panel>>

Subscribed ==
    /\ cyd_at = "tail" /\ cyd_at' = "tick"
    /\ \/ cyd_connected' = TRUE /\ UNCHANGED cyd_link
       \/ cyd_link' = (IF cyd_link = "up" THEN "lost" ELSE cyd_link) /\ UNCHANGED cyd_connected
    /\ UNCHANGED <<cyd_scan, cyd_doConnect, cyd_hostAt, fresh, reading, view, redraw, data, panel>>

CycleUnasked ==
    /\ cyd_at = "tick"
    /\ view' = IF view = "table" THEN "waterfall" ELSE "table"
    /\ UNCHANGED <<ble, cyd_hostAt, fresh, reading, cyd_at, redraw, data, panel>>

(* A tap on the mode button.                                                *)
CycleViewMode ==
    /\ cyd_at = "tick"
    /\ view' = IF view = "table" THEN "waterfall" ELSE "table"
    /\ redraw' = TRUE
    /\ UNCHANGED <<ble, cyd_hostAt, fresh, reading, cyd_at, data, panel>>

(* update(), part one: the status bar and, without a sonar, the message.    *)
(* drawSignalIcon() fills bars and never clears one.                        *)
Bars(filled) == IF filled THEN 1 ELSE panel.bars

Searching ==
    /\ cyd_at = "tick" /\ ~cyd_connected
    /\ redraw' = TRUE
    /\ panel' = [body |-> "searching", cols |-> [c \in Column |-> CydBlank], legend |-> 0,
                 bars |-> Bars(FALSE)]
    /\ UNCHANGED <<ble, cyd_hostAt, fresh, reading, cyd_at, view, data>>

(* A full redraw clears the body, then draws the table's headings or all of *)
(* the waterfall.                                                           *)
Everything(p) ==
    IF view = "table"
    THEN [p EXCEPT !.body = "table", !.cols = [c \in Column |-> CydBlank], !.legend = 0]
    ELSE [p EXCEPT !.body = "waterfall", !.legend = scale,
                   !.cols = [c \in Column |-> IF c = cyd_head THEN Sweep ELSE Drawn(cols[c], scale)]]

Update ==
    /\ cyd_at = "tick" /\ cyd_connected
    /\ redraw' = FALSE
    /\ LET p == [panel EXCEPT !.bars = Bars(TRUE)]
       IN  panel' = IF redraw THEN Everything(p) ELSE p
    /\ cyd_at' = IF fresh THEN "draw" ELSE "tick"
    /\ fresh' = FALSE
    /\ UNCHANGED <<ble, cyd_hostAt, reading, view, data>>

(* The reading is looked at once for the table ... (Of an entry that is not *)
(* valid the depth is never read.)                                          *)
CydNewest == IF reading.valid /\ ~reading.out THEN [valid |-> TRUE, depth |-> reading.depth]
             ELSE NoEntry

PushHistory ==
    /\ cyd_at = "draw" /\ cyd_at' = "store"
    /\ history' = [i \in 1..Rows |-> IF i = 1 THEN CydNewest ELSE history[i - 1]]
    /\ UNCHANGED <<ble, cyd_hostAt, fresh, reading, view, redraw, cols, cyd_head, scale, panel>>

(* ... once for the column ...                                              *)
PushColumn ==
    /\ cyd_at = "store" /\ cyd_at' = "scale"
    /\ cols' = [cols EXCEPT ![cyd_head] = CydNewest]
    /\ UNCHANGED <<ble, cyd_hostAt, fresh, reading, view, redraw, history, cyd_head, scale, panel>>

(* ... and once more for the scale, which a deeper reading raises at once.  *)
Visible == view = "waterfall"

DrawColumn(p, c, s) == [p EXCEPT !.cols[c] = Drawn(cols[c], s)]

Grow ==
    /\ cyd_at = "scale" /\ cyd_at' = "finish"
    /\ scale' = IF cols[cyd_head].valid THEN CydMaxOf({scale, reading.depth}) ELSE scale
    /\ panel' = IF Visible THEN DrawColumn([panel EXCEPT !.legend = scale'], cyd_head, scale') ELSE panel
    /\ UNCHANGED <<ble, cyd_hostAt, fresh, reading, view, redraw, history, cols, cyd_head>>

(* The head moves on.  At the wrap the scale falls to what the columns need,*)
(* and its legend is drawn, whichever view is up.                           *)
Needed == CydMaxOf({1} \cup {cols[c].depth : c \in {d \in Column : cols[d].valid}})
Shrinks == (cyd_head + 1) % Columns = 0 /\ Needed < scale

Advance ==
    /\ cyd_at = "finish" /\ cyd_at' = "tick"
    /\ cyd_head' = (cyd_head + 1) % Columns
    /\ scale' = IF Shrinks THEN Needed ELSE scale
    /\ LET p == IF Shrinks THEN [panel EXCEPT !.legend = Needed] ELSE panel
       IN  panel' = IF Visible THEN [p EXCEPT !.cols[cyd_head'] = Sweep] ELSE p
    /\ UNCHANGED <<ble, cyd_hostAt, fresh, reading, view, redraw, history, cols>>

CydLoop ==
    \/ CydPick \/ Connect \/ Subscribed \/ Searching \/ Update
    \/ PushHistory \/ PushColumn \/ Grow \/ Advance

CydNext ==
    \/ CydLoop \/ RepaintAll \/ CycleViewMode
    \/ CydFound \/ CydOnDisconnect \/ FrameCounted \/ FrameStored \/ CydDrop

CydSpec == CydInit /\ [][CydNext]_cydVars

-----------------------------------------------------------------------------
(* Under every order of taps, repaints, lost links and frames, the          *)
(* waterfall on show has each column's own data, the sweep at the head and  *)
(* the present scale as its legend. The columns themselves need not be at   *)
(* that scale, but the newest of a sweep is, and none is at a larger scale  *)
(* than one drawn after it in the same sweep: the scale is "only ever       *)
(* shrunk at the wrap point".                                               *)
SameSweep(c, d) == c < d /\ c # cyd_head /\ d # cyd_head /\ (d < cyd_head \/ c > cyd_head)
Rising(f) ==
    \A c, d \in Column : SameSweep(c, d) /\ f[c].e.valid /\ f[d].e.valid => f[c].at <= f[d].at

SweepIsCurrent ==
    view = "waterfall" /\ cyd_connected /\ ~redraw /\ cyd_at = "tick" =>
        /\ panel.body = "waterfall" /\ panel.legend = scale
        /\ panel.cols[cyd_head] = Sweep
        /\ \A c \in Column \ {cyd_head} : panel.cols[c].e = cols[c]
        /\ Rising(panel.cols)
        /\ \A c \in Column : c + 1 = cyd_head /\ cols[c].valid => panel.cols[c].at = scale

(* display.cpp says of the scale that it "never clips": no column is deeper *)
(* than the scale it is drawn at.                                           *)
NeverClips == cyd_at = "tick" => \A c \in Column : cols[c].valid => cols[c].depth <= scale

(* display.cpp says of a new column that it "only touches the panel when    *)
(* Waterfall is actually the one visible right now".                        *)
TableKeepsItsPanel == panel.body = "table" => panel.legend = 0

(* display.cpp says of the signal icon that without a connection its bars   *)
(* are "all hollow".                                                        *)
HollowWithoutSignal == panel.body = "searching" => panel.bars = 0

=============================================================================
