--------------------------- MODULE DeviceProofs ----------------------------
(***************************************************************************)
(* The devices outside the engine system and the paper display, each for   *)
(* every value of its constants: the SeaTalk bridge with its log and its   *)
(* command line, the console log, the fish finder's link, screen and       *)
(* setup, the man-overboard resolver and hub.                              *)
(***************************************************************************)
EXTENDS SonarSetup, SonarLink, SonarDisplay, SeaTalkBridge, ReceiveLog, CommandLine,
        ConsoleLog, MobScreen, TagFinder,
        FiniteSetTheorems, SequenceTheorems, WellFoundedInduction, TLAPS

-----------------------------------------------------------------------------
(* SonarSetup: types.                                                        *)

USE DEF entry, around, ghosts

SetupFlash == [wifi : BOOLEAN, ssid : Nets \cup {Nobody}, pass : Nets \cup {Nobody},
               webmode : BOOLEAN, cal : {"none", "part"} \cup Rotations, rot : Rotations]

\* What a step writes to flash is a setting like those before.
LEMMA SetupFlashStep ==
  ASSUME SetupTypeOK, [SetupNext]_setupVars
  PROVE  flash' \in SetupFlash
<1>1. flash \in SetupFlash /\ flash.rot \in Rotations /\ chosen \in Nets \cup {Nobody}
      /\ secret \in Nets \cup {Nobody}
  BY DEF SetupTypeOK, SetupFlash
<1>2. CASE Setup \/ Calibrate \/ Calibrated \/ Webmode \/ ForgetCalibration
           \/ TapCheckUpdate \/ TapBackToSonar
  BY <1>1, <1>2 DEF Setup, Calibrate, Calibrated, Webmode, ForgetCalibration, TapCheckUpdate,
     TapBackToSonar, SwitchTo, SetupFlash
<1>3. CASE TapForgetWifi \/ SaveSsid \/ SavePass \/ SetupRestart
  BY <1>1, <1>3 DEF TapForgetWifi, SaveSsid, SavePass, SetupRestart, SetupFlash
<1>4. CASE CmdDisplay \/ WebDisplay
  <2>1. (CHOOSE r \in Rotations : r # flash.rot) \in Rotations
    <3>1. \E r \in Rotations : r # flash.rot
      BY DEF Rotations
    <3> QED
      BY <3>1
  <2> QED
    BY <1>1, <1>4, <2>1 DEF CmdDisplay, WebDisplay, Turn, SetupFlash
<1>5. CASE flash' = flash
  BY <1>1, <1>5
<1> QED
  BY <1>2, <1>3, <1>4, <1>5
  DEF SetupNext, Board, User, Begin, Join, JoinFails, Check, TapManual, TapPhone, TapDoOta,
      WebCheck, WebApply, CmdUpdate, TapNetwork, TypeName, TypePassword, GiveNetwork, WebWifi,
      CmdWifi, Given, TimeIsUp, PowerCut, Outside, setupVars

\* Only setup mode's start and its request touch the ghosts.
LEMMA GhostsKept ==
  ASSUME SetupNext
  PROVE  UNCHANGED ghosts \/ Setup \/ Webmode
BY DEF SetupNext, Board, User, Begin, Calibrate, Calibrated, Join, JoinFails, Check,
       TapCheckUpdate, TapBackToSonar, TapManual, TapPhone, TapDoOta, TapForgetWifi,
       SaveSsid, SavePass, WebCheck, WebApply, SetupRestart, CmdUpdate, CmdDisplay, WebDisplay,
       Turn, ForgetCalibration, TapNetwork, TypeName, TypePassword, GiveNetwork, WebWifi, CmdWifi,
       Given, TimeIsUp, PowerCut, Outside

\* Every step keeps the types.
LEMMA SetupTypeStep ==
  ASSUME SetupTypeOK, [SetupNext]_setupVars
  PROVE  SetupTypeOK'
<1>1. flash' \in SetupFlash
  BY SetupFlashStep
<1>2. /\ where' \in {"boot", "calibrate", "store", "sonar", "join", "picker", "phone", "name",
                     "password", "check", "screen", "setup join", "setup", "save ssid",
                     "save pass", "turned"}
      /\ going' \in {"sonar", "join"} /\ chosen' \in Nets \cup {Nobody}
      /\ secret' \in Nets \cup {Nobody} /\ joined' \in Nets \cup {Nobody}
      /\ info' \in [{"screen", "page"} -> {"unchecked", "none", "newer"}]
  <2>1. CASE Restarted
    BY <2>1 DEF Restarted, Unchecked
  <2>2. CASE ~Restarted
    BY <2>2 DEF SetupTypeOK, SetupNext, Board, User, Setup, Begin, Calibrate, Calibrated, Join, CanJoin,
       JoinFails, Check, Checked, TapCheckUpdate, TapBackToSonar, SwitchTo, TapManual, TapPhone,
       TapDoOta, Install, TapForgetWifi, SaveSsid, SavePass, WebCheck, WebApply, SetupRestart, CmdUpdate,
       Webmode, CmdDisplay, WebDisplay, Turn, ForgetCalibration, TapNetwork, TypeName, TypePassword,
       GiveNetwork, WebWifi, CmdWifi, Given, TimeIsUp, PowerCut, Outside, setupVars
  <2> QED
    BY <2>1, <2>2
<1>3. newer' \in BOOLEAN
  BY DEF SetupTypeOK, SetupNext, Board, User, Setup, Begin, Calibrate, Calibrated, Join,
     JoinFails, Check, TapCheckUpdate, TapBackToSonar, TapManual, TapPhone,
     TapDoOta, Install, TapForgetWifi, SaveSsid, SavePass, WebCheck, WebApply, SetupRestart, CmdUpdate,
     Webmode, CmdDisplay, WebDisplay, Turn, ForgetCalibration, TapNetwork, TypeName, TypePassword,
     GiveNetwork, WebWifi, CmdWifi, Given, TimeIsUp, PowerCut, Outside, setupVars
<1>5. inRange' \subseteq Nets
  <2>1. CASE Outside
    BY <2>1 DEF SetupTypeOK, Outside
  <2>2. CASE inRange' = inRange
    BY <2>2 DEF SetupTypeOK
  <2> QED
    BY <2>1, <2>2 DEF SetupNext, Board, User, Setup, Begin, Calibrate, Calibrated, Join,
       JoinFails, Check, TapCheckUpdate, TapBackToSonar, TapManual, TapPhone,
       TapDoOta, Install, TapForgetWifi, SaveSsid, SavePass, WebCheck, WebApply, SetupRestart,
       CmdUpdate, Webmode, CmdDisplay, WebDisplay, Turn, ForgetCalibration, TapNetwork, TypeName,
       TypePassword, GiveNetwork, WebWifi, CmdWifi, Given, TimeIsUp, PowerCut, setupVars
<1>6. listed' \subseteq Nets
  <2>1. CASE Restarted \/ JoinFails
    BY <2>1 DEF Restarted, JoinFails, SetupTypeOK
  <2>2. CASE listed' = listed
    BY <2>2 DEF SetupTypeOK
  <2> QED
    <3>1. listed' = listed \/ Restarted \/ JoinFails \/ Board \/ TimeIsUp \/ PowerCut \/ User
      BY DEF SetupNext, Outside, setupVars
    <3>2. Board => listed' = listed \/ Restarted \/ JoinFails
      BY DEF Board, Setup, Begin, Calibrated, Join, Check, SaveSsid, SavePass, ForgetCalibration
    <3>3. User => listed' = listed \/ Restarted
      BY DEF User, Calibrate, TapCheckUpdate, TapBackToSonar, SwitchTo, TapManual, TapPhone,
         TapDoOta, Install, TapForgetWifi, WebCheck, WebApply, SetupRestart, CmdUpdate, Webmode,
         CmdDisplay, WebDisplay, Turn, TapNetwork, TypeName, TypePassword, GiveNetwork, WebWifi,
         CmdWifi, Given
    <3>4. TimeIsUp \/ PowerCut => Restarted
      BY DEF TimeIsUp, PowerCut
    <3> QED
      BY <2>1, <2>2, <3>1, <3>2, <3>3, <3>4
<1>4. asked' \in BOOLEAN /\ surprised' \in BOOLEAN
  <2>0. asked \in BOOLEAN /\ surprised \in BOOLEAN
    BY DEF SetupTypeOK
  <2>1. CASE Setup
    BY <2>1, Zenon DEF Setup
  <2>2. CASE Webmode
    <3>1. asked' \in BOOLEAN
      BY <2>2, Zenon DEF Webmode
    <3>2. surprised' \in BOOLEAN
      <4>1. surprised' = surprised
        BY <2>2, Zenon DEF Webmode
      <4> QED
        BY <2>0, <4>1, Zenon
    <3> QED
      BY <3>1, <3>2, Zenon
  <2>3. CASE UNCHANGED ghosts
    BY <2>0, <2>3, Zenon
  <2> QED
    BY <2>1, <2>2, <2>3, GhostsKept DEF setupVars
<1>7. cuts' \in 0..MaxCuts
  <2>1. CASE PowerCut
    <3>1. cuts \in 0..MaxCuts
      BY Zenon DEF SetupTypeOK
    <3>3. MaxCuts \in Nat
      BY NetsAssumption
    <3>2. cuts < MaxCuts /\ cuts' = cuts + 1
      BY <2>1 DEF PowerCut
    <3> QED
      BY <3>1, <3>2, <3>3
  <2>2. CASE cuts' = cuts
    BY <2>2 DEF SetupTypeOK
  <2> QED
    BY <2>1, <2>2 DEF SetupNext, Board, User, Setup, Begin, Calibrate, Calibrated, Join, JoinFails,
       Check, TapCheckUpdate, TapBackToSonar, TapManual, TapPhone, TapDoOta, TapForgetWifi,
       SaveSsid, SavePass, WebCheck, WebApply, SetupRestart, CmdUpdate, Webmode, CmdDisplay,
       WebDisplay, Turn, ForgetCalibration, TapNetwork, TypeName, TypePassword, GiveNetwork,
       WebWifi, CmdWifi, Given, TimeIsUp, Outside, setupVars
<1> QED
  BY <1>1, <1>2, <1>3, <1>4, <1>5, <1>6, <1>7 DEF SetupTypeOK, SetupFlash

\* They hold at the start.
LEMMA SetupTypeInit ==
  SetupInit => SetupTypeOK
<1> SUFFICES ASSUME SetupInit PROVE SetupTypeOK
  OBVIOUS
<1>1. flash \in SetupFlash
  BY DEF SetupInit, SetupFlash, Rotations
<1>2. info \in [{"screen", "page"} -> {"unchecked", "none", "newer"}]
  BY DEF SetupInit, Unchecked
<1>3. newer \in BOOLEAN /\ asked \in BOOLEAN /\ surprised \in BOOLEAN
  BY DEF SetupInit
<1>4. inRange \subseteq Nets /\ listed \subseteq Nets /\ cuts \in 0..MaxCuts
  BY NetsAssumption DEF SetupInit
<1> QED
  BY <1>1, <1>2, <1>3, <1>4 DEF SetupInit, SetupTypeOK, SetupFlash

\* What is in flash and where the board is keep their types, for any networks.
THEOREM SetupTypeCorrect ==
  SetupSpec => []SetupTypeOK
BY SetupTypeInit, SetupTypeStep, PTL DEF SetupSpec

-----------------------------------------------------------------------------
(* SonarSetup: setup mode.                                                   *)

\* A request in flash was made, and one that was made is in flash.
Requested == flash.webmode <=> asked

\* Every step keeps the request and what it leads to.
LEMMA RequestedStep ==
  ASSUME SetupTypeOK, Requested, SetupWhenAsked, [SetupNext]_setupVars
  PROVE  Requested' /\ SetupWhenAsked'
<1>1. flash \in SetupFlash
  BY DEF SetupTypeOK, SetupFlash
<1>2. CASE Setup
  <2>1. flash'.webmode = FALSE /\ asked' = FALSE /\ asked
    BY <1>1, <1>2 DEF Setup, Requested, SetupFlash
  <2> QED
    BY <1>2, <2>1 DEF Setup, Requested, SetupWhenAsked
<1>3. CASE Webmode
  <2>1. flash'.webmode = TRUE /\ asked' = TRUE
    BY <1>1, <1>3 DEF Webmode, SetupFlash
  <2> QED
    BY <1>3, <2>1 DEF Webmode, Requested, SetupWhenAsked
<1>4. CASE flash'.webmode = flash.webmode /\ UNCHANGED ghosts
  BY <1>4 DEF Requested, SetupWhenAsked
<1>5. flash'.webmode = flash.webmode \/ Setup \/ Webmode
  BY <1>1
  DEF SetupNext, Board, User, Begin, Calibrate, Calibrated, Join, JoinFails, Check,
      TapCheckUpdate, TapBackToSonar, SwitchTo, TapManual, TapPhone, TapDoOta, TapForgetWifi,
      SaveSsid, SavePass, WebCheck, WebApply, SetupRestart, CmdUpdate, CmdDisplay, WebDisplay,
      Turn, ForgetCalibration, TapNetwork, TypeName, TypePassword, GiveNetwork, WebWifi, CmdWifi,
      Given, TimeIsUp, PowerCut, Outside, setupVars, SetupFlash
<1>6. UNCHANGED ghosts \/ Setup \/ Webmode
  BY GhostsKept DEF setupVars
<1> QED
  BY <1>2, <1>3, <1>4, <1>5, <1>6

\* Setup mode runs once for each time it was asked for, with power cuts between any
\* two writes: the request and its being on record go together (setup, CMD WEBMODE).
THEOREM SetupRunsWhenAsked ==
  SetupSpec => []SetupWhenAsked
<1>1. SetupInit => Requested /\ SetupWhenAsked
  BY DEF SetupInit, Requested, SetupWhenAsked
<1> QED
  BY <1>1, RequestedStep, SetupTypeCorrect, PTL DEF SetupSpec

-----------------------------------------------------------------------------
(* SeaTalkBridge: what the server hands back is this board's own, or has     *)
(* never been on the wire.                                                   *)

FreshOrOwn == \A d \in server : d.own \/ d.r.hops = 0

BridgeInv == FreshOrOwn /\ NoFeedback /\ up \subseteq {"mqtt", "signalk"}

\* A value that is born has been nowhere.
LEMMA BornFresh == \A b : Born(b).hops = 0
  BY DEF Born

\* A value that goes out where it was born.
LEMMA EmitFresh ==
  ASSUME FreshOrOwn, NEW to, NEW r, r.hops = 0, NEW win, Emit(to, r, win)
  PROVE  FreshOrOwn' /\ NoFeedback'
<1>1. NoFeedback'
  BY DEF NoFeedback, Emit, Sent
<1>2. server' = server \/ server' = {[r |-> r, own |-> TRUE]}
  BY DEF Emit, ServerAfter, Kept
<1> QED
  BY <1>1, <1>2 DEF FreshOrOwn

\* What hands the server nothing leaves what it holds as it was.
LEMMA QuietFresh ==
  ASSUME FreshOrOwn, Quiet
  PROVE  FreshOrOwn' /\ NoFeedback'
  BY DEF FreshOrOwn, NoFeedback, Quiet

\* Every step keeps own values off the wire they came from.
LEMMA BridgeStep ==
  ASSUME BridgeInv, [BridgeNext]_bridgeVars
  PROVE  BridgeInv'
<1>1. up' \subseteq {"mqtt", "signalk"}
  BY DEF BridgeInv, BridgeNext, Web, RouteSave, DemoPage, NavPage, LinkSave, NavTick, DemoTick, MqttTick,
     SignalKTick, CanTick, LoopbackTest, Drain, Instrument, Network, bridgeVars
<1>2. CASE Web \/ NavTick \/ DemoTick \/ CanTick
  BY <1>1, <1>2, EmitFresh, QuietFresh, BornFresh
  DEF BridgeInv, Web, NavTick, DemoTick, CanTick, Relay
<1>3. CASE MqttTick
  <2>1. CASE Quiet
    BY <1>1, <2>1, QuietFresh DEF BridgeInv
  <2>2. CASE SetTopic \/ \E bus \in {"seatalk", "can"} : Emit({bus}, Born("mqtt"), FALSE)
    BY <1>1, <2>2, EmitFresh, BornFresh DEF BridgeInv, SetTopic, Relay
  <2>3. CASE /\ out' = Sent({"signalk"}, Born("mqtt"))
             /\ server' = Kept([r |-> Born("mqtt"), own |-> FALSE])
    BY <1>1, <2>3, BornFresh DEF BridgeInv, FreshOrOwn, NoFeedback, Sent, Kept
  <2> QED
    BY <1>3, <2>1, <2>2, <2>3 DEF MqttTick, RawTopic
<1>4. CASE SignalKTick
  <2>1. CASE Quiet
    BY <1>1, <2>1, QuietFresh DEF BridgeInv
  <2>2. CASE Relay("signalk", Born("signalk"))
    BY <1>1, <2>2, EmitFresh, BornFresh DEF BridgeInv, Relay
  <2>3. ASSUME NEW d \in server, Delta(d), server' = server \ {d}
        PROVE  BridgeInv'
    <3>1. FreshOrOwn'
      BY <2>3 DEF BridgeInv, FreshOrOwn
    <3>2. d.own \/ d.r.hops = 0
      BY DEF BridgeInv, FreshOrOwn
    <3>3. NoFeedback'
      <4>1. CASE d.own
        BY <2>3, <4>1 DEF Delta, IsOwn, NoFeedback, Sent
      <4>2. CASE d.r.hops = 0
        BY <2>3, <4>2 DEF Delta, IsOwn, NoFeedback, Sent
      <4> QED
        BY <3>2, <4>1, <4>2
    <3> QED
      BY <1>1, <3>1, <3>3 DEF BridgeInv
  <2> QED
    BY <1>4, <2>1, <2>2, <2>3 DEF SignalKTick
<1>5. CASE LoopbackTest
  <2>1. CASE Quiet
    BY <1>1, <2>1, QuietFresh DEF BridgeInv
  <2>2. CASE out' = Sent({"seatalk"}, Born("test")) /\ server' = server
    <3>1. NoFeedback'
      BY <2>2, BornFresh DEF NoFeedback, Sent
    <3>2. FreshOrOwn'
      BY <2>2 DEF BridgeInv, FreshOrOwn
    <3> QED
      BY <1>1, <3>1, <3>2 DEF BridgeInv
  <2> QED
    BY <1>5, <2>1, <2>2 DEF LoopbackTest
<1>6. CASE Drain
  <2>1. CASE Quiet
    BY <1>1, <2>1, QuietFresh DEF BridgeInv
  <2>2. ASSUME NEW d, NEW to, to = {} \/ to = Legs("seatalk"),
               out' = Sent(to, d.r), server' = ServerAfter(to, d.r)
        PROVE  BridgeInv'
    <3>1. "seatalk" \notin to
      BY <2>2 DEF Legs, BridgeInv
    <3>2. NoFeedback'
      BY <2>2, <3>1 DEF NoFeedback, Sent
    <3>3. server' = server \/ server' = {[r |-> d.r, own |-> TRUE]}
      BY <2>2 DEF ServerAfter, Kept
    <3>4. FreshOrOwn'
      BY <3>3 DEF BridgeInv, FreshOrOwn
    <3> QED
      BY <1>1, <3>2, <3>4 DEF BridgeInv
  <2> QED
    BY <1>6, <2>1, <2>2 DEF Drain
<1>7. CASE Instrument \/ Network
  BY <1>1, <1>7 DEF Instrument, Network, BridgeInv, FreshOrOwn, NoFeedback
<1>8. CASE UNCHANGED bridgeVars
  BY <1>8 DEF bridgeVars, BridgeInv, FreshOrOwn, NoFeedback
<1> QED
  BY <1>2, <1>3, <1>4, <1>5, <1>6, <1>7, <1>8 DEF BridgeNext

\* For any buffers and any matrices a person may save, no value this board has put on the
\* SeaTalk wire is put there again, whichever way it came back (main loop, handleDelta).
THEOREM NothingGoesRound == BridgeSpec => []NoFeedback
<1>1. BridgeInit => BridgeInv
  BY DEF BridgeInit, BridgeInv, FreshOrOwn, NoFeedback
<1>2. BridgeInv => NoFeedback
  BY DEF BridgeInv
<1>3. BridgeInv /\ [BridgeNext]_bridgeVars => BridgeInv'
  BY BridgeStep
<1> QED
  BY <1>1, <1>2, <1>3, PTL DEF BridgeSpec

-----------------------------------------------------------------------------
(* SonarDisplay: the sweep.                                                  *)

\* A set of naturals that is not empty has a least element.
LEMMA LeastOfASet ==
  ASSUME NEW S \in SUBSET Nat, S # {}
  PROVE  \E m \in S : \A n \in S : m <= n
<1> DEFINE R == OpToRel(<, Nat)
<1>1. IsWellFoundedOn(R, Nat)
  BY NatLessThanWellFounded, Zenon
<1>2. \A n \in Nat, m \in Nat : n < m => <<n, m>> \in R
  <2>1. SUFFICES ASSUME NEW n \in Nat, NEW m \in Nat, n < m
                 PROVE  <<n, m>> \in R
    BY Zenon
  <2>2. <<n, m>> \in Nat \X Nat
    BY Zenon
  <2> QED
    BY <2>1, <2>2, Zenon DEF OpToRel
<1> HIDE DEF R
<1>3. PICK m \in S : \A n \in S : ~ (<<n, m>> \in R)
  <2>1. \E m \in S : \A n \in S : ~ (<<n, m>> \in R)
    BY <1>1, WFMin, Zenon
  <2> QED
    BY <2>1, Zenon
<1>4. \A n \in S : ~ (n < m)
  BY <1>2, <1>3
<1> QED
  BY <1>4

\* One that lies below a bound has a greatest: the least of its upper bounds.
LEMMA GreatestOfASet ==
  ASSUME NEW S \in SUBSET Nat, S # {}, NEW b \in Nat, \A n \in S : n <= b
  PROVE  \E m \in S : \A n \in S : n <= m
<1> DEFINE Above == {u \in Nat : \A n \in S : n <= u}
<1>1. PICK u \in Above : \A v \in Above : u <= v
  <2>1. Above # {} /\ Above \in SUBSET Nat
    OBVIOUS
  <2> HIDE DEF Above
  <2> QED
    BY <2>1, LeastOfASet
<1>2. u \in Nat /\ \A n \in S : n <= u
  OBVIOUS
<1>3. u \in S
  <2>1. SUFFICES ASSUME u \notin S
                 PROVE  FALSE
    OBVIOUS
  <2>2. \A n \in S : n \in Nat /\ n <= u /\ n # u
    BY <1>2, <2>1
  <2>3. \A n \in S : n + 1 <= u
    BY <1>2, <2>2
  <2>4. PICK s \in S : TRUE
    OBVIOUS
  <2>5. s + 1 <= u /\ s \in Nat
    BY <2>3, <2>4
  <2>6. u - 1 \in Nat
    BY <1>2, <2>5
  <2>7. \A n \in S : n <= u - 1
    BY <1>2, <2>3
  <2>8. u - 1 \in Above
    BY <2>6, <2>7
  <2> QED
    BY <1>1, <1>2, <2>8
<1> QED
  BY <1>2, <1>3

-----------------------------------------------------------------------------
(* SonarDisplay: what the panel shows of the columns, and at which scale.    *)

\* The deepest of some bands is a band.
LEMMA CydMaxOfASet ==
  ASSUME NEW S \in SUBSET Bands, S # {}
  PROVE  CydMaxOf(S) \in Bands
<1>1. S \in SUBSET Nat /\ Deepest \in Nat /\ \A n \in S : n <= Deepest
  BY DisplayAssumption DEF Bands
<1>2. \E m \in S : \A n \in S : n <= m
  BY <1>1, GreatestOfASet
<1>3. CydMaxOf(S) \in S
  BY <1>2 DEF CydMaxOf
<1> QED
  BY <1>3

\* While an update is under way nothing is asked for again. A column of this sweep is at
\* no larger scale than the present one; the newest is at just that until the scale may
\* grow, and after that the next is, drawn where the sweep line was.
OthersShown(f) == \A c \in Column \ {cyd_head} : f[c].e = cols[c]
Below(f) == \A c \in Column : c < cyd_head /\ cols[c].valid => f[c].at <= scale
NewestAtScale(f) == \A c \in Column : c + 1 = cyd_head /\ cols[c].valid => f[c].at = scale
SweepInv ==
    /\ cyd_at \in {"draw", "store", "scale", "finish"} => ~redraw
    /\ view = "waterfall" /\ ~redraw =>
          /\ panel.body = "waterfall" /\ panel.legend = scale
          /\ OthersShown(panel.cols) /\ Rising(panel.cols) /\ Below(panel.cols)
          /\ cyd_at = "finish" => panel.cols[cyd_head] = Drawn(cols[cyd_head], scale)
          /\ cyd_at # "finish" => panel.cols[cyd_head] = Sweep /\ NewestAtScale(panel.cols)
SweepIInv == CydTypeOK /\ SweepInv

\* The types in the form the lemmas below use.
LEMMA CydTyped ==
  ASSUME CydTypeOK
  PROVE  /\ cols \in [Column -> Entry] /\ cyd_head \in Column /\ scale \in Bands
         /\ history \in [1..Rows -> Entry] /\ redraw \in BOOLEAN
         /\ panel \in [body : {"blank", "searching", "table", "waterfall"},
                       cols : [Column -> Pictures \cup {CydBlank, Sweep}],
                       legend : 0..Deepest, bars : 0..1]
         /\ reading \in [valid : BOOLEAN, depth : Bands, out : BOOLEAN]
         /\ view \in {"table", "waterfall"}
  BY DEF CydTypeOK

Panels == [body : {"blank", "searching", "table", "waterfall"},
           cols : [Column -> Pictures \cup {CydBlank, Sweep}], legend : 0..Deepest, bars : 0..1]

\* What changes neither the data nor the panel's shape keeps the types.
LEMMA CydKeeps ==
  ASSUME CydTypeOK, UNCHANGED data, panel' \in Panels, reading' \in [valid : BOOLEAN, depth : Bands, out : BOOLEAN],
         cyd_link' \in {"none", "up", "lost"}, {cyd_scan', cyd_doConnect', cyd_connected'} \subseteq BOOLEAN,
         cyd_hostAt' \in {"idle", "frame"}, fresh' \in BOOLEAN,
         cyd_at' \in {"tick", "connect", "tail", "draw", "store", "scale", "finish"},
         view' \in {"table", "waterfall"}, redraw' \in BOOLEAN
  PROVE  CydTypeOK'
  BY DEF CydTypeOK, data, Panels

\* The radio task.
LEMMA CydHostTyped ==
  ASSUME CydTypeOK, CydFound \/ CydOnDisconnect \/ FrameCounted \/ FrameStored \/ CydDrop
  PROVE  CydTypeOK'
<1>1. CASE CydFound \/ CydOnDisconnect \/ CydDrop
  BY <1>1 DEF CydTypeOK, CydFound, CydOnDisconnect, CydDrop, data
<1>2. CASE FrameCounted
  <2>1. reading' \in [valid : BOOLEAN, depth : Bands, out : BOOLEAN]
    BY <1>2 DEF FrameCounted, CydTypeOK
  <2> QED
    BY <1>2, <2>1 DEF CydTypeOK, FrameCounted, data, ble
<1>3. CASE FrameStored
  <2>1. reading' \in [valid : BOOLEAN, depth : Bands, out : BOOLEAN]
    BY <1>3 DEF FrameStored, CydTypeOK
  <2> QED
    BY <1>3, <2>1 DEF CydTypeOK, FrameStored, data, ble
<1> QED
  BY <1>1, <1>2, <1>3

\* A column drawn at a scale is a picture.
LEMMA DrawnTyped ==
  ASSUME NEW e \in Entry, NEW z \in Bands
  PROVE  /\ Drawn(e, z) \in Pictures /\ Drawn(e, z).e = e
         /\ Drawn(e, z).at \in 0..Deepest /\ (e.valid => Drawn(e, z).at = z)
  BY DisplayAssumption DEF Drawn, Pictures, Bands, Entry

\* A blank panel is a panel.
LEMMA CydBlankPanel == [body |-> "blank", cols |-> [c \in Column |-> CydBlank], legend |-> 0, bars |-> 0] \in Panels
  BY DisplayAssumption DEF Panels

\* The battery's bars.
LEMMA CydBars ==
  ASSUME CydTypeOK, NEW b \in BOOLEAN
  PROVE  Bars(b) \in 0..1
  BY DEF CydTypeOK, Bars

\* Drawing everything gives a panel, with every column at the present scale.
LEMMA EverythingTyped ==
  ASSUME CydTypeOK, NEW p \in Panels
  PROVE  /\ Everything(p) \in Panels
         /\ view = "waterfall" =>
              /\ Everything(p).body = "waterfall" /\ Everything(p).legend = scale
              /\ Everything(p).cols =
                    [c \in Column |-> IF c = cyd_head THEN Sweep ELSE Drawn(cols[c], scale)]
<1> DEFINE all == [c \in Column |-> IF c = cyd_head THEN Sweep ELSE Drawn(cols[c], scale)]
<1>1. [c \in Column |-> CydBlank] \in [Column -> Pictures \cup {CydBlank, Sweep}]
  OBVIOUS
<1>2. all \in [Column -> Pictures \cup {CydBlank, Sweep}]
  <2>1. \A c \in Column : Drawn(cols[c], scale) \in Pictures
    BY CydTyped, DrawnTyped
  <2> QED
    BY <2>1
<1>3. scale \in 0..Deepest /\ 0 \in 0..Deepest
  BY CydTyped, DisplayAssumption DEF Bands
<1>4. [p EXCEPT !.body = "table", !.cols = [c \in Column |-> CydBlank], !.legend = 0] \in Panels
  BY <1>1, <1>3 DEF Panels
<1>5. Everything(p) = IF view = "table"
                      THEN [p EXCEPT !.body = "table", !.cols = [c \in Column |-> CydBlank], !.legend = 0]
                      ELSE [p EXCEPT !.body = "waterfall", !.legend = scale, !.cols = all]
  BY DEF Everything
<1> HIDE DEF all
<1>6. [p EXCEPT !.body = "waterfall", !.legend = scale, !.cols = all] \in Panels
  BY <1>2, <1>3 DEF Panels
<1>7. /\ [p EXCEPT !.body = "waterfall", !.legend = scale, !.cols = all].body = "waterfall"
      /\ [p EXCEPT !.body = "waterfall", !.legend = scale, !.cols = all].legend = scale
      /\ [p EXCEPT !.body = "waterfall", !.legend = scale, !.cols = all].cols = all
  BY DEF Panels
<1>8. Everything(p) \in Panels
  BY <1>4, <1>5, <1>6
<1>9. view = "waterfall" => /\ Everything(p).body = "waterfall" /\ Everything(p).legend = scale
                            /\ Everything(p).cols = all
  BY <1>5, <1>7
<1> QED
  BY <1>8, <1>9 DEF all

\* The loop, but for the drawing.
LEMMA CydLoopTyped ==
  ASSUME CydTypeOK,
         CydPick \/ Connect \/ Subscribed \/ Searching \/ Update \/ RepaintAll \/ CycleViewMode
  PROVE  CydTypeOK'
<1>1. CASE CydPick \/ Connect \/ Subscribed \/ CycleViewMode
  BY <1>1 DEF CydTypeOK, CydPick, Connect, Subscribed, CycleViewMode, data, ble
<1>2. CASE Searching
  <2>1. Bars(FALSE) \in 0..1
    BY CydTyped DEF Bars
  <2>0. 0 \in 0..Deepest
    BY DisplayAssumption
  <2>2. panel' \in Panels
    BY <1>2, <2>0, <2>1 DEF Searching, Panels
  <2> QED
    BY <1>2, <2>2, CydKeeps DEF Searching, CydTypeOK, ble
<1>3. CASE RepaintAll
  <2>1. panel' \in Panels
    BY <1>3, CydBlankPanel DEF RepaintAll
  <2> QED
    BY <1>3, <2>1, CydKeeps DEF RepaintAll, CydTypeOK, ble
<1>4. CASE Update
  <2> DEFINE p == [panel EXCEPT !.bars = Bars(TRUE)]
  <2>1. p \in Panels
    BY CydTyped, CydBars DEF Panels
  <2>2. panel' = IF redraw THEN Everything(p) ELSE p
    BY <1>4 DEF Update
  <2> HIDE DEF p
  <2>3. panel' \in Panels
    BY <2>1, <2>2, EverythingTyped
  <2>4. UNCHANGED data /\ reading' = reading /\ redraw' = FALSE /\ fresh' = FALSE /\ UNCHANGED ble
        /\ UNCHANGED cyd_hostAt /\ cyd_at' \in {"draw", "tick"} /\ view' = view
    BY <1>4 DEF Update
  <2> QED
    BY <2>3, <2>4, CydKeeps DEF CydTypeOK, ble
<1> QED
  BY <1>1, <1>2, <1>3, <1>4

\* The newest column is an entry.
LEMMA CydNewestTyped ==
  ASSUME CydTypeOK
  PROVE  CydNewest \in Entry
<1>1. 1 \in Bands
  BY DisplayAssumption DEF Bands
<1>2. NoEntry \in Entry
  BY <1>1 DEF NoEntry, Entry
<1>3. reading.depth \in Bands
  <2>1. reading \in [valid : BOOLEAN, depth : Bands, out : BOOLEAN]
    BY CydTyped
  <2> QED
    BY <2>1
<1>4. [valid |-> TRUE, depth |-> reading.depth] \in Entry
  BY <1>3 DEF Entry
<1>5. CASE reading.valid /\ ~reading.out
  BY <1>4, <1>5, Zenon DEF CydNewest
<1>6. CASE ~(reading.valid /\ ~reading.out)
  BY <1>2, <1>6, Zenon DEF CydNewest
<1> QED
  BY <1>5, <1>6

\* The scale that is needed is a band.
LEMMA NeededTyped ==
  ASSUME CydTypeOK
  PROVE  Needed \in Bands
<1>1. 1 \in Bands
  BY DisplayAssumption DEF Bands
<1>2. \A c \in Column : cols[c].depth \in Bands
  BY CydTyped DEF Entry
<1> DEFINE S == {1} \cup {cols[c].depth : c \in {d \in Column : cols[d].valid}}
<1>3. S \in SUBSET Bands /\ S # {}
  BY <1>1, <1>2
<1> HIDE DEF S
<1>4. CydMaxOf(S) \in Bands
  BY <1>3, CydMaxOfASet
<1> QED
  BY <1>4 DEF Needed, S

\* The scale grown.
LEMMA GrowTyped ==
  ASSUME CydTypeOK, Grow
  PROVE  scale' \in Bands /\ panel' \in Panels
<1>1. CydMaxOf({scale, reading.depth}) \in Bands
  <2>1. {scale, reading.depth} \in SUBSET Bands /\ {scale, reading.depth} # {}
    BY CydTyped
  <2> QED
    BY <2>1, CydMaxOfASet
<1>2. scale' \in Bands
  BY <1>1, CydTyped DEF Grow
<1>3. cols[cyd_head] \in Entry /\ scale' \in 0..Deepest
  BY <1>2, CydTyped, DisplayAssumption DEF Bands
<1>4. [panel EXCEPT !.legend = scale'] \in Panels
  BY <1>3, CydTyped DEF Panels
<1> DEFINE q == [panel EXCEPT !.legend = scale']
<1>5. q \in Panels
  BY <1>4
<1>6. panel' = IF Visible THEN DrawColumn(q, cyd_head, scale') ELSE panel
  BY DEF Grow
<1> HIDE DEF q
<1>8. Drawn(cols[cyd_head], scale') \in Pictures
  BY <1>2, <1>3, DrawnTyped
<1>7. DrawColumn(q, cyd_head, scale') \in Panels
  BY <1>5, <1>8, CydTyped DEF DrawColumn, Panels
<1> QED
  BY <1>2, <1>6, <1>7, CydTyped DEF Panels

\* The head stays on the ring.
LEMMA NextHead ==
  ASSUME NEW h \in Column
  PROVE  /\ (h + 1) % Columns \in Column
         /\ (h + 1) % Columns = IF h + 1 = Columns THEN 0 ELSE h + 1
  BY DisplayAssumption DEF Column

\* The sweep moves on.
LEMMA AdvanceTyped ==
  ASSUME CydTypeOK, Advance
  PROVE  cyd_head' \in Column /\ scale' \in Bands /\ panel' \in Panels
<1>1. cyd_head' \in Column
  BY CydTyped, NextHead DEF Advance
<1>2. Needed \in Bands /\ Needed \in 0..Deepest
  BY NeededTyped, DisplayAssumption DEF Bands
<1>3. scale' \in Bands
  BY <1>2, CydTyped DEF Advance
<1> DEFINE p == IF Shrinks THEN [panel EXCEPT !.legend = Needed] ELSE panel
<1>4. panel \in Panels /\ [panel EXCEPT !.legend = Needed] \in Panels
  BY <1>2, CydTyped DEF Panels
<1>5. p \in Panels
  BY <1>4
<1>6. panel' = IF Visible THEN [p EXCEPT !.cols[cyd_head'] = Sweep] ELSE p
  BY DEF Advance
<1> HIDE DEF p
<1>7. [p EXCEPT !.cols[cyd_head'] = Sweep] \in Panels
  BY <1>1, <1>5 DEF Panels
<1> QED
  BY <1>1, <1>3, <1>5, <1>6, <1>7

\* The drawing of one reading.
LEMMA CydUpdateTyped ==
  ASSUME CydTypeOK, PushHistory \/ PushColumn \/ Grow \/ Advance
  PROVE  CydTypeOK'
<1>1. CASE PushHistory
  <2>1. history' \in [1..Rows -> Entry]
    <3>1. \A i \in 1..Rows : i # 1 => i - 1 \in 1..Rows
      BY DisplayAssumption
    <3>2. \A i \in 1..Rows : (IF i = 1 THEN CydNewest ELSE history[i - 1]) \in Entry
      BY <3>1, CydTyped, CydNewestTyped
    <3> QED
      BY <1>1, <3>2 DEF PushHistory
  <2> QED
    BY <1>1, <2>1 DEF PushHistory, CydTypeOK, ble
<1>2. CASE PushColumn
  <2>1. cols' \in [Column -> Entry]
    BY <1>2, CydTyped, CydNewestTyped DEF PushColumn
  <2> QED
    BY <1>2, <2>1 DEF PushColumn, CydTypeOK, ble
<1>3. CASE Grow
  <2>1. scale' \in Bands /\ panel' \in Panels
    BY <1>3, GrowTyped
  <2>2. UNCHANGED <<ble, cyd_hostAt, fresh, reading, view, redraw, history, cols, cyd_head>> /\ cyd_at' = "finish"
    BY <1>3 DEF Grow
  <2> QED
    BY <2>1, <2>2 DEF CydTypeOK, ble, Panels
<1>4. CASE Advance
  <2>1. cyd_head' \in Column /\ scale' \in Bands /\ panel' \in Panels
    BY <1>4, AdvanceTyped
  <2>2. UNCHANGED <<ble, cyd_hostAt, fresh, reading, view, redraw, history, cols>> /\ cyd_at' = "tick"
    BY <1>4 DEF Advance
  <2> QED
    BY <2>1, <2>2 DEF CydTypeOK, ble, Panels
<1> QED
  BY <1>1, <1>2, <1>3, <1>4

\* Every step keeps the types.
LEMMA CydTypeStep ==
  ASSUME CydTypeOK, [CydNext]_cydVars
  PROVE  CydTypeOK'
<1>1. CASE CydNext
  BY <1>1, CydHostTyped, CydLoopTyped, CydUpdateTyped DEF CydNext, CydLoop
<1>2. CASE UNCHANGED cydVars
  BY <1>2 DEF cydVars, ble, data, CydTypeOK
<1> QED
  BY <1>1, <1>2

\* They hold at the start.
LEMMA CydTypeInit ==
  ASSUME CydInit
  PROVE  CydTypeOK
<1>1. 1 \in Bands /\ 0 \in Column /\ 0 \in 0..Deepest /\ NoEntry \in Entry
  BY DisplayAssumption DEF Bands, Column, NoEntry, Entry
<1>2. [i \in 1..Rows |-> NoEntry] \in [1..Rows -> Entry] /\ [c \in Column |-> NoEntry] \in [Column -> Entry]
  BY <1>1
<1> QED
  BY <1>1, <1>2, CydBlankPanel DEF CydInit, CydTypeOK, Panels

-----------------------------------------------------------------------------
\* What leaves the columns and the panel leaves the sweep.
LEMMA SweepKept ==
  ASSUME SweepInv, UNCHANGED <<cols, cyd_head, scale, panel, view, redraw>>, cyd_at' = "finish" <=> cyd_at = "finish",
         cyd_at' \in {"draw", "store", "scale", "finish"} => cyd_at \in {"draw", "store", "scale", "finish"}
  PROVE  SweepInv'
  BY DEF SweepInv, OthersShown, Rising, SameSweep, Below, NewestAtScale

\* Everything is drawn.
LEMMA AllDrawn ==
  ASSUME CydTypeOK, NEW f,
         f = [c \in Column |-> IF c = cyd_head THEN Sweep ELSE Drawn(cols[c], scale)]
  PROVE  OthersShown(f) /\ Rising(f) /\ Below(f) /\ f[cyd_head] = Sweep /\ NewestAtScale(f)
<1>1. /\ cols \in [Column -> Entry] /\ cyd_head \in Column /\ scale \in Bands
      /\ Column \subseteq Nat /\ scale \in Nat
  BY CydTyped, DisplayAssumption DEF Column, Bands
<1>2. \A c \in Column \ {cyd_head} : f[c].e = cols[c] /\ (cols[c].valid => f[c].at = scale)
  BY <1>1, DrawnTyped
<1>3. f[cyd_head] = Sweep
  BY <1>1
<1>4. OthersShown(f)
  BY <1>2 DEF OthersShown
<1>5. Rising(f)
  BY <1>1, <1>2 DEF Rising, SameSweep
<1>6. Below(f)
  BY <1>1, <1>2 DEF Below
<1>7. NewestAtScale(f)
  BY <1>1, <1>2 DEF NewestAtScale
<1> QED
  BY <1>3, <1>4, <1>5, <1>6, <1>7

\* A column on show is at a scale.
LEMMA ShownAt ==
  ASSUME CydTypeOK, OthersShown(panel.cols), NEW c \in Column \ {cyd_head}
  PROVE  panel.cols[c].at \in Nat
<1>1. panel.cols[c] \in Pictures \cup {CydBlank, Sweep}
  BY CydTyped
<1> QED
  BY <1>1, DisplayAssumption DEF Pictures, CydBlank, Sweep

\* Every step keeps the sweep.
LEMMA SweepStep ==
  ASSUME CydTypeOK, SweepInv, [CydNext]_cydVars
  PROVE  SweepInv'
<1>1. CASE CydFound \/ CydOnDisconnect \/ FrameCounted \/ FrameStored \/ CydDrop \/ UNCHANGED cydVars
  BY <1>1, SweepKept DEF CydFound, CydOnDisconnect, FrameCounted, FrameStored, CydDrop, cydVars, ble, data
<1>2. CASE CydPick \/ Connect \/ Subscribed
  BY <1>2, SweepKept DEF CydPick, Connect, Subscribed, data
<1>3. CASE RepaintAll \/ CycleViewMode \/ Searching
  BY <1>3 DEF RepaintAll, CycleViewMode, Searching, SweepInv
<1>4. CASE Update
  <2> DEFINE p == [panel EXCEPT !.bars = Bars(TRUE)]
  <2>1. p \in Panels /\ p.body = panel.body /\ p.legend = panel.legend /\ p.cols = panel.cols
    BY CydTyped, CydBars DEF Panels
  <2>2. panel' = IF redraw THEN Everything(p) ELSE p
    BY <1>4 DEF Update
  <2> HIDE DEF p
  <2>3. UNCHANGED <<view, cols, cyd_head, scale>> /\ ~redraw' /\ cyd_at' # "finish" /\ cyd_at = "tick"
    BY <1>4 DEF Update, data
  <2>4. CASE redraw
    <3>1. SUFFICES ASSUME view = "waterfall" PROVE SweepInv'
      BY <2>3 DEF SweepInv
    <3>2. panel' = Everything(p)
      BY <2>2, <2>4
    <3>3. /\ panel'.body = "waterfall" /\ panel'.legend = scale
          /\ panel'.cols = [c \in Column |-> IF c = cyd_head THEN Sweep ELSE Drawn(cols[c], scale)]
      BY <2>1, <3>1, <3>2, EverythingTyped
    <3> DEFINE f == panel'.cols
    <3>4. OthersShown(f) /\ Rising(f) /\ Below(f) /\ f[cyd_head] = Sweep /\ NewestAtScale(f)
      BY <3>3, AllDrawn
    <3> QED
      BY <2>3, <3>3, <3>4 DEF SweepInv, OthersShown, Rising, SameSweep, Below, NewestAtScale
  <2>5. CASE ~redraw
    BY <2>1, <2>2, <2>3, <2>5 DEF SweepInv, OthersShown, Rising, SameSweep, Below, NewestAtScale
  <2> QED
    BY <2>4, <2>5
<1>5. CASE PushHistory
  BY <1>5 DEF PushHistory, SweepInv, OthersShown, Rising, SameSweep, Below, NewestAtScale
<1>6. CASE PushColumn
  <2>1. cols' = [cols EXCEPT ![cyd_head] = CydNewest] /\ UNCHANGED <<view, redraw, cyd_head, scale, panel>>
        /\ cyd_at = "store" /\ cyd_at' = "scale"
    BY <1>6 DEF PushColumn
  <2>2. \A c \in Column : c # cyd_head => cols'[c] = cols[c]
    BY <2>1, CydTyped
  <2>3. cyd_head \in Nat /\ Column \subseteq Nat
    BY CydTyped, DisplayAssumption DEF Column
  <2> QED
    BY <2>1, <2>2, <2>3 DEF SweepInv, OthersShown, Rising, SameSweep, Below, NewestAtScale
<1>7. CASE Grow
  <2> DEFINE q == [panel EXCEPT !.legend = scale']
  <2>1. scale' \in Bands /\ scale' \in 0..Deepest /\ scale <= scale'
    <3>1. scale' \in Bands /\ scale' \in 0..Deepest
      BY <1>7, GrowTyped, DisplayAssumption DEF Bands
    <3>2. scale \in Bands /\ reading.depth \in Bands /\ scale \in Nat
      BY CydTyped, DisplayAssumption DEF Bands
    <3>3. scale' = scale \/ scale' = CydMaxOf({scale, reading.depth})
      BY <1>7 DEF Grow
    <3>4. CydMaxOf({scale, reading.depth}) >= scale
      <4>1. \E m \in {scale, reading.depth} : \A n \in {scale, reading.depth} : n <= m
        BY <3>2, DisplayAssumption DEF Bands
      <4> QED
        BY <3>2, <4>1, DisplayAssumption DEF CydMaxOf, Bands
    <3> QED
      BY <3>1, <3>2, <3>3, <3>4, DisplayAssumption DEF Bands
  <2>2. q \in Panels /\ q.body = panel.body /\ q.legend = scale' /\ q.cols = panel.cols
    BY <2>1, CydTyped DEF Panels
  <2>3. /\ panel' = IF Visible THEN DrawColumn(q, cyd_head, scale') ELSE panel
        /\ UNCHANGED <<view, redraw, cols, cyd_head>> /\ cyd_at = "scale" /\ cyd_at' = "finish"
    BY <1>7 DEF Grow
  <2> HIDE DEF q
  <2>4. LET x == DrawColumn(q, cyd_head, scale')
        IN  x.body = q.body /\ x.legend = q.legend
            /\ x.cols = [q.cols EXCEPT ![cyd_head] = Drawn(cols[cyd_head], scale')]
    BY <2>2 DEF DrawColumn, Panels
  <2>5. SUFFICES ASSUME view = "waterfall" PROVE SweepInv'
    BY <2>3 DEF SweepInv
  <2>6. /\ panel.body = "waterfall" /\ OthersShown(panel.cols) /\ Rising(panel.cols)
        /\ Below(panel.cols)
    BY <2>3, <2>5 DEF SweepInv
  <2>7. /\ panel'.body = "waterfall" /\ panel'.legend = scale'
        /\ panel'.cols = [panel.cols EXCEPT ![cyd_head] = Drawn(cols[cyd_head], scale')]
    BY <2>2, <2>3, <2>4, <2>5, <2>6 DEF Visible
  <2>8. panel'.cols[cyd_head] = Drawn(cols[cyd_head], scale')
        /\ \A c \in Column : c # cyd_head => panel'.cols[c] = panel.cols[c]
    BY <2>7, CydTyped
  <2>9. OthersShown(panel.cols)'
    BY <2>3, <2>6, <2>8 DEF OthersShown
  <2>10. Rising(panel.cols)'
    BY <2>3, <2>6, <2>8 DEF Rising, SameSweep
  <2>11. Below(panel.cols)'
    <3>1. SUFFICES ASSUME NEW c \in Column, c < cyd_head, cols[c].valid
                   PROVE  panel'.cols[c].at <= scale'
      BY <2>3 DEF Below
    <3>2. c # cyd_head /\ cyd_head \in Nat /\ c \in Nat
      BY <3>1, CydTyped, DisplayAssumption DEF Column
    <3>3. panel.cols[c].at <= scale /\ panel'.cols[c] = panel.cols[c]
      BY <2>6, <2>8, <3>1, <3>2 DEF Below
    <3>4. panel.cols[c].at \in Nat
      BY <2>6, <3>1, <3>2, ShownAt
    <3> QED
      BY <2>1, <3>3, <3>4, CydTyped, DisplayAssumption DEF Bands
  <2> QED
    BY <2>3, <2>7, <2>8, <2>9, <2>10, <2>11 DEF SweepInv
<1>8. CASE Advance
  <2> DEFINE p == IF Shrinks THEN [panel EXCEPT !.legend = Needed] ELSE panel
  <2>1. Needed \in 0..Deepest /\ cyd_head' \in Column
    BY <1>8, NeededTyped, AdvanceTyped, DisplayAssumption DEF Bands
  <2>2. /\ p \in Panels /\ p.body = panel.body /\ p.cols = panel.cols
        /\ p.legend = IF Shrinks THEN Needed ELSE panel.legend
    BY <2>1, CydTyped DEF Panels
  <2>3. /\ panel' = IF Visible THEN [p EXCEPT !.cols[cyd_head'] = Sweep] ELSE p
        /\ UNCHANGED <<view, redraw, cols>> /\ cyd_at = "finish" /\ cyd_at' = "tick"
        /\ scale' = (IF Shrinks THEN Needed ELSE scale)
        /\ cyd_head' = (cyd_head + 1) % Columns
    BY <1>8 DEF Advance
  <2> HIDE DEF p
  <2>4. LET x == [p EXCEPT !.cols[cyd_head'] = Sweep]
        IN  x.body = p.body /\ x.legend = p.legend /\ x.cols = [p.cols EXCEPT ![cyd_head'] = Sweep]
    BY <2>1, <2>2 DEF Panels
  <2>5. SUFFICES ASSUME view = "waterfall" PROVE SweepInv'
    BY <2>3 DEF SweepInv
  <2>6. /\ panel.body = "waterfall" /\ panel.legend = scale /\ OthersShown(panel.cols)
        /\ Rising(panel.cols) /\ Below(panel.cols)
        /\ panel.cols[cyd_head] = Drawn(cols[cyd_head], scale)
    BY <2>3, <2>5 DEF SweepInv
  <2>7. /\ panel'.body = "waterfall" /\ panel'.legend = scale'
        /\ panel'.cols = [panel.cols EXCEPT ![cyd_head'] = Sweep]
    BY <2>2, <2>3, <2>4, <2>5, <2>6 DEF Visible
  <2>8. panel'.cols[cyd_head'] = Sweep
        /\ \A c \in Column : c # cyd_head' => panel'.cols[c] = panel.cols[c]
    BY <2>1, <2>7, CydTyped
  <2>9. /\ cyd_head \in Column /\ cyd_head \in Nat /\ Column \subseteq Nat /\ scale \in Nat
        /\ cols[cyd_head] \in Entry /\ scale \in Bands
        /\ \A c \in Column : c < Columns
    BY CydTyped, DisplayAssumption DEF Column, Bands
  <2>10. /\ panel.cols[cyd_head].e = cols[cyd_head]
         /\ cols[cyd_head].valid => panel.cols[cyd_head].at = scale
    BY <2>6, <2>9, DrawnTyped
  <2>11. \A c \in Column : panel.cols[c].e = cols[c]
    BY <2>6, <2>10 DEF OthersShown
  <2>12. OthersShown(panel.cols)'
    BY <2>3, <2>8, <2>11 DEF OthersShown
  <2>13. cyd_head' = IF cyd_head + 1 = Columns THEN 0 ELSE cyd_head + 1
    BY <2>3, <2>9, NextHead
  <2>14. Rising(panel.cols)'
    <3>1. SUFFICES ASSUME NEW c \in Column, NEW d \in Column, c < d, c # cyd_head', d # cyd_head',
                          d < cyd_head' \/ c > cyd_head',
                          panel.cols[c].e.valid, panel.cols[d].e.valid
                   PROVE  panel.cols[c].at <= panel.cols[d].at
      BY <2>8 DEF Rising, SameSweep
    <3>2. CASE c # cyd_head /\ d # cyd_head /\ (d < cyd_head \/ c > cyd_head)
      BY <2>6, <3>1, <3>2 DEF Rising, SameSweep
    <3>3. CASE d = cyd_head
      <4>1. c < cyd_head /\ cols[c].valid /\ cols[cyd_head].valid
        BY <2>11, <3>1, <3>3
      <4> QED
        BY <2>6, <2>10, <3>3, <4>1 DEF Below
    <3> QED
      BY <2>9, <2>13, <3>1, <3>2, <3>3
  <2>15. /\ Below(panel.cols)' /\ NewestAtScale(panel.cols)'
    <3>1. CASE cyd_head + 1 = Columns
      <4>1. cyd_head' = 0
        BY <2>13, <3>1
      <4> QED
        BY <2>9, <4>1 DEF Below, NewestAtScale
    <3>2. CASE cyd_head + 1 # Columns
      <4>1. cyd_head' = cyd_head + 1 /\ (cyd_head + 1) % Columns # 0
        BY <2>3, <2>9, <2>13, <3>2
      <4>2. scale' = scale
        BY <2>3, <4>1 DEF Shrinks
      <4>3. \A c \in Column : c < cyd_head' <=> c < cyd_head \/ c = cyd_head
        BY <2>9, <4>1
      <4>4. \A c \in Column : c + 1 = cyd_head' <=> c = cyd_head
        BY <2>9, <4>1
      <4>5. \A c \in Column : c < cyd_head' => panel'.cols[c] = panel.cols[c]
        BY <2>8, <2>9, <4>1
      <4>6. Below(panel.cols)'
        BY <2>3, <2>6, <2>9, <2>10, <4>2, <4>3, <4>5 DEF Below
      <4>7. NewestAtScale(panel.cols)'
        BY <2>3, <2>9, <2>10, <4>2, <4>3, <4>4, <4>5 DEF NewestAtScale
      <4> QED
        BY <4>6, <4>7
    <3> QED
      BY <3>1, <3>2
  <2> QED
    BY <2>3, <2>7, <2>8, <2>12, <2>14, <2>15 DEF SweepInv
<1> QED
  BY <1>1, <1>2, <1>3, <1>4, <1>5, <1>6, <1>7, <1>8 DEF CydNext, CydLoop

\* It holds at the start.
LEMMA SweepInit ==
  ASSUME CydInit
  PROVE  SweepInv
  BY DEF CydInit, SweepInv

\* The fish finder's screen keeps its types, for any depths, rows and columns (sonar_ble.cpp,
\* display.cpp).
THEOREM CydTypeCorrect == CydSpec => []CydTypeOK
<1>1. CydInit => CydTypeOK
  BY CydTypeInit
<1>2. CydTypeOK /\ [CydNext]_cydVars => CydTypeOK'
  BY CydTypeStep
<1> QED
  BY <1>1, <1>2, PTL DEF CydSpec

\* Whatever was tapped, lost, repainted or received in between, a waterfall on show at the
\* top of the loop has each column's own data, the sweep at the head, and the present scale
\* for its legend; the columns' own scales only rise along a sweep, up to that of the
\* newest (drawWaterfallColumn, pushWaterfallColumn, maybeShrinkWaterfallScale, update).
THEOREM SweepStaysCurrent == CydSpec => []SweepIsCurrent
<1>1. CydInit => SweepInv
  BY SweepInit
<1>2. CydTypeOK /\ SweepInv /\ [CydNext]_cydVars => SweepInv'
  BY SweepStep
<1>3. SweepInv => SweepIsCurrent
  BY DEF SweepInv, SweepIsCurrent, OthersShown, NewestAtScale
<1> QED
  BY <1>1, <1>2, <1>3, CydTypeCorrect, PTL DEF CydSpec

-----------------------------------------------------------------------------
(* SonarLink: the frames that go out.                                        *)

\* What is kept of a connection's chunks is the last of them, from a sync on: what the sonar
\* sends next is known by them.
InStep(b, n) ==
    \/ b = <<>>
    \/ Len(b) = 1 /\ b[1].kind = "head" /\ n = 2
    \/ Len(b) = 1 /\ b[1].kind = "false head" /\ n = 3
    \/ Len(b) = 2 /\ b[1].kind = "head" /\ b[2].kind \in {"middle", "false head"} /\ n = 3
    \/ Len(b) = 2 /\ b[1].kind = "false head" /\ b[2].kind = "tail" /\ n = 1
AllNew(b) == \A i \in 1..Len(b) : ~b[i].old

StreamInv ==
    /\ buf \in Seq(Chunk) /\ next \in 1..3
    /\ link = "none" => buf = <<>>
    /\ InStep(buf, next) /\ AllNew(buf)
    /\ WholeFrames

NextChunk(n) == 1 + (n % 3)

\* From an index that holds a sync, all from there; where none is left, nothing.
LEMMA FromASync ==
  ASSUME NEW b \in Seq(Chunk), NEW i \in 1..Len(b), IsSync(b[i])
  PROVE  From(b, i) = SubSeq(b, i, Len(b))
<1> DEFINE syncs == {k \in i..Len(b) : IsSync(b[k])}
<1>1. Len(b) \in Nat /\ i \in Nat /\ i <= Len(b)
  BY LenProperties
<1>2. i \in syncs /\ \A l \in syncs : i <= l
  BY <1>1
<1>3. (CHOOSE k \in syncs : \A l \in syncs : k <= l) = i
  <2>1. \A k \in syncs : k \in Nat
    BY <1>1
  <2> HIDE DEF syncs
  <2>2. \A k \in syncs : (\A l \in syncs : k <= l) => k = i
    BY <1>1, <1>2, <2>1
  <2> QED
    BY <1>2, <2>2
<1> QED
  BY <1>2, <1>3 DEF From

\* Without a sync nothing is kept.
LEMMA FromNoSync ==
  ASSUME NEW b \in Seq(Chunk), NEW i \in Nat, \A k \in i..Len(b) : ~IsSync(b[k])
  PROVE  From(b, i) = <<>>
  BY DEF From

FromFirst(b, S) ==
    IF S = {} THEN <<>> ELSE SubSeq(b, CHOOSE k \in S : \A l \in S : k <= l, Len(b))

\* What is no sync is passed over.
LEMMA FromLater ==
  ASSUME NEW b \in Seq(Chunk), NEW i \in 1..Len(b), ~IsSync(b[i]), NEW j, j = i + 1
  PROVE  From(b, i) = From(b, j)
<1>1. Len(b) \in Nat /\ i \in Nat
  BY LenProperties
<1>2. {k \in i..Len(b) : IsSync(b[k])} = {k \in j..Len(b) : IsSync(b[k])}
  BY <1>1
<1>3. /\ From(b, i) = FromFirst(b, {k \in i..Len(b) : IsSync(b[k])})
      /\ From(b, j) = FromFirst(b, {k \in j..Len(b) : IsSync(b[k])})
  BY DEF From, FromFirst
<1> QED
  BY <1>2, <1>3

\* What is taken out of a buffer that starts with a sync.
LEMMA ExtractSynced ==
  ASSUME NEW B \in Seq(Chunk), Len(B) \in 1..3, IsSync(B[1])
  PROVE  /\ Len(B) < 3 => Extract(B).out = <<>> /\ Extract(B).rest = B
         /\ Len(B) = 3 /\ B[3].kind = "tail" => Extract(B).out = B /\ Extract(B).rest = <<>>
         /\ Len(B) = 3 /\ B[3].kind # "tail" => Extract(B).out = <<>> /\ Extract(B).rest = From(B, 2)
<1>1. From(B, 1) = SubSeq(B, 1, Len(B))
  BY FromASync
<1>2. From(B, 1) = B
  BY <1>1, SubSeqFull
<1>3. IsFrame(B) <=> Len(B) = 3 /\ B[3].kind = "tail"
  BY DEF IsFrame
<1>4. CASE Len(B) < 3 \/ IsFrame(B)
  <2>1. Extract(B) = [out |-> IF IsFrame(B) THEN B ELSE <<>>, rest |-> IF IsFrame(B) THEN <<>> ELSE B]
    BY <1>2, <1>4 DEF Extract
  <2>2. Extract(B).out = (IF IsFrame(B) THEN B ELSE <<>>) /\ Extract(B).rest = (IF IsFrame(B) THEN <<>> ELSE B)
    BY <2>1
  <2> QED
    BY <1>3, <1>4, <2>2
<1>5. CASE ~(Len(B) < 3 \/ IsFrame(B))
  <2>1. Extract(B) = [out |-> <<>>, rest |-> From(B, 2)]
    BY <1>2, <1>5 DEF Extract
  <2>2. Extract(B).out = <<>> /\ Extract(B).rest = From(B, 2)
    BY <2>1
  <2> QED
    BY <1>3, <1>5, <2>2
<1> QED
  BY <1>4, <1>5

\* The kinds of chunk a frame is made of.
LEMMA KindsAre == Kinds[1] = {"head"} /\ Kinds[2] = {"middle", "false head"} /\ Kinds[3] = {"tail"}
  BY DEF Kinds

\* The chunk that comes next.
LEMMA NextChunks == NextChunk(1) = 2 /\ NextChunk(2) = 3 /\ NextChunk(3) = 1
  BY DEF NextChunk

\* One more chunk, of the kind the sonar sends next: what is kept stays in step, and a frame
\* that goes out is whole.
LEMMA ExtractInStep ==
  ASSUME NEW b \in Seq(Chunk), NEW n \in 1..3, InStep(b, n), AllNew(b),
         NEW c \in Chunk, c.kind \in Kinds[n], ~c.old,
         NEW B \in Seq(Chunk), Len(B) = Len(b) + 1, B[Len(b) + 1] = c, \A i \in 1..Len(b) : B[i] = b[i]
  PROVE  /\ Extract(B).rest \in Seq(Chunk) /\ AllNew(Extract(B).rest)
         /\ InStep(Extract(B).rest, NextChunk(n))
         /\ Extract(B).out # <<>> => IsWhole(Extract(B).out)
<1>1. Len(b) \in Nat
  BY LenProperties
<1>2. \/ n = 1 /\ c.kind = "head" /\ NextChunk(n) = 2
      \/ n = 2 /\ c.kind \in {"middle", "false head"} /\ NextChunk(n) = 3
      \/ n = 3 /\ c.kind = "tail" /\ NextChunk(n) = 1
  <2>1. n = 1 \/ n = 2 \/ n = 3
    OBVIOUS
  <2>2. CASE n = 1
    BY <2>2, KindsAre, NextChunks
  <2>3. CASE n = 2
    BY <2>3, KindsAre, NextChunks
  <2>4. CASE n = 3
    BY <2>4, KindsAre, NextChunks
  <2> QED
    BY <2>1, <2>2, <2>3, <2>4
<1>3. /\ n = 1 => n # 2 /\ n # 3
      /\ n = 2 => n # 1 /\ n # 3
      /\ n = 3 => n # 1 /\ n # 2
  OBVIOUS
<1>4. AllNew(B)
  <2>1. ASSUME NEW i \in 1..Len(B)
        PROVE  ~B[i].old
    <3>1. CASE i = Len(b) + 1
      BY <3>1
    <3>2. CASE i # Len(b) + 1
      <4>1. i \in 1..Len(b)
        BY <1>1, <3>2
      <4> QED
        BY <4>1 DEF AllNew
    <3> QED
      BY <3>1, <3>2
  <2> QED
    BY <2>1 DEF AllNew
<1>5. AllNew(<<>>) /\ <<>> \in Seq(Chunk) /\ InStep(<<>>, NextChunk(n))
  <2>1. <<>> \in Seq(Chunk) /\ Len(<<>>) = 0
    OBVIOUS
  <2>2. AllNew(<<>>)
    BY <2>1 DEF AllNew
  <2> QED
    BY <2>1, <2>2 DEF InStep
<1>6. CASE b = <<>>
  <2>1. Len(B) = 1 /\ B[1] = c /\ Len(B) \in 1..3
    BY <1>6
  <2>2. CASE IsSync(c)
    <3>1. Extract(B).out = <<>> /\ Extract(B).rest = B
      <4>1. IsSync(B[1])
        BY <2>1, <2>2
      <4> QED
        BY <2>1, <4>1, ExtractSynced
    <3>2. (c.kind = "head" /\ NextChunk(n) = 2) \/ (c.kind = "false head" /\ NextChunk(n) = 3)
      BY <1>2, <2>2 DEF IsSync
    <3>3. InStep(B, NextChunk(n))
      BY <2>1, <3>2 DEF InStep
    <3> QED
      BY <1>4, <3>1, <3>3
  <2>3. CASE ~IsSync(c)
    <3>1. \A k \in 1..Len(B) : ~IsSync(B[k])
      BY <2>1, <2>3
    <3>2. From(B, 1) = <<>>
      BY <3>1, FromNoSync
    <3>3. ~IsFrame(<<>>) /\ Len(<<>>) < 3
      BY DEF IsFrame
    <3>4. Extract(B) = [out |-> <<>>, rest |-> <<>>]
      BY <3>2, <3>3 DEF Extract
    <3>5. Extract(B).out = <<>> /\ Extract(B).rest = <<>>
      BY <3>4
    <3> QED
      BY <1>5, <3>5
  <2> QED
    BY <2>2, <2>3
<1>7. CASE Len(b) = 1
  <2>1. Len(B) = 2 /\ B[1] = b[1] /\ B[2] = c /\ Len(B) \in 1..3
    BY <1>7
  <2>0. b = <<>> => Len(b) = 0
    OBVIOUS
  <2>2. \/ b[1].kind = "head" /\ n = 2
        \/ b[1].kind = "false head" /\ n = 3
    <3>1. b # <<>> /\ Len(b) # 2
      BY <1>7, <2>0
    <3> QED
      BY <3>1, Zenon DEF InStep
  <2>3. IsSync(B[1])
    BY <2>1, <2>2 DEF IsSync
  <2>4. Extract(B).out = <<>> /\ Extract(B).rest = B
    BY <2>1, <2>3, ExtractSynced
  <2>5. InStep(B, NextChunk(n))
    <3>1. \/ B[1].kind = "head" /\ B[2].kind \in {"middle", "false head"} /\ NextChunk(n) = 3
          \/ B[1].kind = "false head" /\ B[2].kind = "tail" /\ NextChunk(n) = 1
      <4>1. CASE b[1].kind = "head" /\ n = 2
        <5>1. c.kind \in {"middle", "false head"} /\ NextChunk(n) = 3
          BY <1>2, <1>3, <4>1, Zenon
        <5> QED
          BY <2>1, <4>1, <5>1
      <4>2. CASE b[1].kind = "false head" /\ n = 3
        <5>1. c.kind = "tail" /\ NextChunk(n) = 1
          BY <1>2, <1>3, <4>2, Zenon
        <5> QED
          BY <2>1, <4>2, <5>1
      <4> QED
        BY <2>2, <4>1, <4>2
    <3> QED
      BY <2>1, <3>1 DEF InStep
  <2> QED
    BY <1>4, <2>4, <2>5
<1>8. CASE Len(b) = 2
  <2>1. Len(B) = 3 /\ B[1] = b[1] /\ B[2] = b[2] /\ B[3] = c /\ Len(B) \in 1..3
    BY <1>8
  <2>0. b = <<>> => Len(b) = 0
    OBVIOUS
  <2>2. \/ b[1].kind = "head" /\ b[2].kind \in {"middle", "false head"} /\ n = 3
        \/ b[1].kind = "false head" /\ b[2].kind = "tail" /\ n = 1
    <3>1. b # <<>> /\ Len(b) # 1
      BY <1>8, <2>0
    <3> QED
      BY <3>1, Zenon DEF InStep
  <2>3. IsSync(B[1])
    BY <2>1, <2>2 DEF IsSync
  <2>4. CASE b[1].kind = "head" /\ b[2].kind \in {"middle", "false head"} /\ n = 3
    <3>1. B[3].kind = "tail"
      <4>1. c.kind = "tail"
        BY <1>2, <1>3, <2>4, Zenon
      <4> QED
        BY <2>1, <4>1
    <3>2. Extract(B).out = B /\ Extract(B).rest = <<>>
      BY <2>1, <2>3, <3>1, ExtractSynced
    <3>3. \A i \in 1..3 : B[i].old = B[1].old
      <4>1. \A i \in 1..3 : B[i].old \in BOOLEAN /\ ~B[i].old
        <5>1. \A i \in 1..3 : B[i] \in Chunk
          BY <2>1, ElementOfSeq
        <5>2. \A i \in 1..3 : ~B[i].old
          BY <1>4, <2>1 DEF AllNew
        <5> QED
          BY <5>1, <5>2 DEF Chunk
      <4>2. \A i \in 1..3 : B[i].old = FALSE
        BY <4>1
      <4>3. B[1].old = FALSE
        BY <4>2
      <4> QED
        BY <4>2, <4>3
    <3>4. B[1].kind \in Kinds[1] /\ B[2].kind \in Kinds[2] /\ B[3].kind \in Kinds[3]
      BY <2>1, <2>4, <3>1, KindsAre
    <3>5. IsWhole(B)
      <4>1. \A i \in 1..3 : i = 1 \/ i = 2 \/ i = 3
        OBVIOUS
      <4>2. \A i \in 1..3 : B[i].kind \in Kinds[i]
        BY <3>4, <4>1
      <4> QED
        BY <3>3, <4>2 DEF IsWhole
    <3> QED
      BY <1>5, <3>2, <3>5
  <2>5. CASE b[1].kind = "false head" /\ b[2].kind = "tail" /\ n = 1
    <3>1. B[3].kind = "head" /\ IsSync(B[3]) /\ ~IsSync(B[2])
      BY <1>2, <2>1, <2>5 DEF IsSync
    <3>2. Extract(B).out = <<>> /\ Extract(B).rest = From(B, 2)
      BY <2>1, <2>3, <3>1, ExtractSynced
    <3>3. From(B, 2) = From(B, 3)
      <4>1. 2 \in 1..Len(B)
        <5>1. 2 \in 1..3
          OBVIOUS
        <5> QED
          BY <2>1, <5>1, Zenon
      <4>2. 3 = 2 + 1
        OBVIOUS
      <4> QED
        BY <3>1, <4>1, <4>2, FromLater
    <3>4. From(B, 3) = SubSeq(B, 3, 3)
      <4>1. 3 \in 1..Len(B) /\ Len(B) = 3
        BY <2>1
      <4>2. From(B, 3) = SubSeq(B, 3, Len(B))
        BY <3>1, <4>1, FromASync
      <4> QED
        BY <4>1, <4>2
    <3> DEFINE R == SubSeq(B, 3, 3)
    <3>5. R \in Seq(Chunk) /\ Len(R) = 1 /\ R[1] = B[3]
      <4> DEFINE three == 3
      <4>1. three \in Int /\ three = 3
        OBVIOUS
      <4>2. R = SubSeq(B, three, three)
        OBVIOUS
      <4> HIDE DEF three, R
      <4>3. \A i \in three..three : B[i] \in Chunk
        BY <2>1, <4>1, ElementOfSeq
      <4>4. /\ SubSeq(B, three, three) \in Seq(Chunk)
            /\ Len(SubSeq(B, three, three)) = IF three <= three THEN three - three + 1 ELSE 0
            /\ \A i \in 1..(three - three + 1) : SubSeq(B, three, three)[i] = B[three + i - 1]
        BY <4>1, <4>3, SubSeqProperties
      <4>5. R[1] = B[three + 1 - 1]
        BY <4>1, <4>2, <4>4
      <4> QED
        BY <4>1, <4>2, <4>4, <4>5
    <3>6. Extract(B).rest = R
      BY <3>2, <3>3, <3>4
    <3> HIDE DEF R
    <3>7. AllNew(R)
      <4>1. ~B[3].old
        BY <1>4, <2>1 DEF AllNew
      <4> QED
        BY <3>5, <4>1 DEF AllNew
    <3>8. InStep(R, NextChunk(n))
      <4>1. NextChunk(n) = 2
        BY <1>2, <1>3, <2>5, Zenon
      <4>2. Len(R) = 1 /\ R[1].kind = "head"
        BY <3>1, <3>5
      <4> QED
        BY <4>1, <4>2 DEF InStep
    <3> QED
      BY <3>2, <3>5, <3>6, <3>7, <3>8
  <2> QED
    BY <2>2, <2>4, <2>5
<1> QED
  BY <1>6, <1>7, <1>8 DEF InStep

\* What leaves the buffer alone keeps it in step, and a lost link is not yet none.
LEMMA StreamKept ==
  ASSUME StreamInv, UNCHANGED stream, link' = "none" => link = "none"
  PROVE  StreamInv'
  BY DEF StreamInv, stream, WholeFrames

\* What empties it does too.
LEMMA StreamEmptied ==
  ASSUME StreamInv, buf' = <<>>, next' \in 1..3, torn' = torn
  PROVE  StreamInv'
<1>1. buf' \in Seq(Chunk) /\ Len(buf') = 0
  OBVIOUS
<1>2. AllNew(buf') /\ InStep(buf', next')
  BY <1>1 DEF AllNew, InStep
<1> QED
  BY <1>1, <1>2 DEF StreamInv, WholeFrames

\* Every step keeps the chunks in step.
LEMMA StreamStep ==
  ASSUME StreamInv, [LinkNext]_linkVars
  PROVE  StreamInv'
<1>1. CASE Start \/ Stop \/ SetSonar \/ NoCommand \/ Pick \/ ConnectFails \/ Subscribe \/ NoService
           \/ FindControl \/ Finish \/ Send \/ Write
  BY <1>1, StreamKept
  DEF Start, Stop, SetSonar, NoCommand, Pick, ConnectFails, Subscribe, NoService, FindControl, Finish, Send,
      Write, radio
<1>2. CASE Rescan \/ Found \/ ComeOrGo \/ Drop \/ UNCHANGED linkVars
  BY <1>2, StreamKept DEF Rescan, Found, ComeOrGo, Drop, linkVars, radio
<1>3. CASE OnDisconnect
  BY <1>3, StreamEmptied DEF OnDisconnect, StreamInv
<1>4. CASE SwitchMode
  BY <1>4, StreamEmptied DEF SwitchMode, Booted, StreamInv
<1>5. CASE Connected
  <2>1. buf = <<>> /\ buf' = [i \in DOMAIN buf |-> [buf[i] EXCEPT !.old = TRUE]] /\ next' \in 1..3 /\ torn' = torn
    BY <1>5 DEF Connected, StreamInv
  <2>2. buf' = <<>>
    BY <2>1
  <2> QED
    BY <2>1, <2>2, StreamEmptied
<1>6. CASE Notify
  <2>1. PICK k \in Kinds[next], room \in BOOLEAN :
           LET e == Extract(Append(buf, [kind |-> k, old |-> FALSE]))
           IN  /\ buf' = e.rest
               /\ torn' = (torn \/ (room /\ e.out # <<>> /\ ~IsWhole(e.out)))
    BY <1>6 DEF Notify
  <2> DEFINE B == Append(buf, [kind |-> k, old |-> FALSE])
  <2> DEFINE c == [kind |-> k, old |-> FALSE]
  <2>7. c \in Chunk /\ c.kind \in Kinds[next] /\ ~c.old
    <3>1. k \in {"head", "middle", "false head", "tail"}
      <4>1. next = 1 \/ next = 2 \/ next = 3
        BY DEF StreamInv
      <4> QED
        BY <4>1, KindsAre
    <3> QED
      BY <3>1 DEF Chunk
  <2>8. B = Append(buf, c)
    OBVIOUS
  <2> HIDE DEF c
  <2>10. buf \in Seq(Chunk) /\ next \in 1..3 /\ InStep(buf, next) /\ AllNew(buf)
    BY DEF StreamInv
  <2>9. /\ B \in Seq(Chunk) /\ Len(B) = Len(buf) + 1 /\ B[Len(buf) + 1] = c
        /\ \A i \in 1..Len(buf) : B[i] = buf[i]
    <3>1. /\ Append(buf, c) \in Seq(Chunk) /\ Len(Append(buf, c)) = Len(buf) + 1
          /\ Append(buf, c)[Len(buf) + 1] = c
      BY <2>7, <2>10, AppendProperties
    <3>2. \A i \in 1..Len(buf) : Append(buf, c)[i] = buf[i]
      BY <2>7, <2>10, AppendProperties
    <3> HIDE DEF B
    <3> QED
      BY <2>8, <3>1, <3>2, Zenon
  <2> HIDE DEF B
  <2>2. /\ Extract(B).rest \in Seq(Chunk) /\ AllNew(Extract(B).rest)
        /\ InStep(Extract(B).rest, NextChunk(next))
        /\ Extract(B).out # <<>> => IsWhole(Extract(B).out)
    BY <2>7, <2>9, <2>10, ExtractInStep
  <2> USE DEF B
  <2>3. buf' = Extract(B).rest
    BY <2>1
  <2>4. torn' = (torn \/ (room /\ Extract(B).out # <<>> /\ ~IsWhole(Extract(B).out)))
    BY <2>1
  <2> HIDE DEF B
  <2>5. ~torn'
    BY <2>2, <2>4 DEF StreamInv, WholeFrames
  <2>6. next' = NextChunk(next) /\ next' \in 1..3 /\ link' = "up"
    BY <1>6 DEF Notify, NextChunk, StreamInv, radio
  <2> QED
    BY <2>2, <2>3, <2>5, <2>6 DEF StreamInv, WholeFrames
<1> QED
  BY <1>1, <1>2, <1>3, <1>4, <1>5, <1>6 DEF LinkNext, Loop, Command, Host

\* Whatever is lost, restarted or sent again in between, what goes out is one frame of one
\* connection, sent whole (tryExtractFrames, emitFrame, onDisconnect).
THEOREM FramesAreWhole == LinkSpec => []WholeFrames
<1>1. LinkInit => StreamInv
  <2>1. <<>> \in Seq(Chunk) /\ Len(<<>>) = 0
    OBVIOUS
  <2> QED
    BY <2>1 DEF LinkInit, StreamInv, InStep, AllNew, WholeFrames
<1>2. StreamInv /\ [LinkNext]_linkVars => StreamInv'
  BY StreamStep
<1>3. StreamInv => WholeFrames
  BY DEF StreamInv
<1> QED
  BY <1>1, <1>2, <1>3, PTL DEF LinkSpec

-----------------------------------------------------------------------------
(* ReceiveLog: the page walks the rings while they turn.                     *)

\* The slot that lies d slots behind the head.
Back(h, d) == IF d < h THEN (h - 1) - d ELSE ((h - 1) + PerSource) - d

\* A ring keeps what its bus delivered last, the newest behind the head.
RingInv ==
    \A s \in Sources, d \in Slots :
       d < Len(heard[s]) => rings[s][Back(heads[s], d)] = heard[s][Len(heard[s]) - d]

\* Numbers only grow; and the page has come down to its last line.
NumbersInv ==
    /\ newest <= seq
    /\ \A s \in Sources : \A i \in 1..Len(heard[s]) : heard[s][i] <= seq
PageInv ==
    mask # {} =>
    /\ listed_rows = <<>> => before = MaxSeq + 1
    /\ listed_rows # <<>> => before = listed_rows[Len(listed_rows)]
LogIInv == LogTypeOK /\ RingInv /\ NumbersInv /\ PageInv /\ PageIsWhole

\* The remainder, taken apart.
LEMMA NextSlot ==
  ASSUME NEW h \in Slots
  PROVE  (h + 1) % PerSource = IF h + 1 = PerSource THEN 0 ELSE h + 1
<1>1. h \in Nat /\ h + 1 <= PerSource /\ PerSource \in Nat \ {0}
  BY LogAssumption DEF Slots
<1>2. CASE h + 1 = PerSource
  BY <1>1, <1>2
<1>3. CASE h + 1 < PerSource
  BY <1>1, <1>3
<1> QED
  BY <1>1, <1>2, <1>3

\* A slot behind the head is a slot.
LEMMA BackIsASlot ==
  ASSUME NEW h \in Slots, NEW d \in Slots
  PROVE  Back(h, d) \in Slots
  BY LogAssumption DEF Slots, Back

\* When the head moves on, the slot it leaves is the newest and the others are one further back.
LEMMA BackMoves ==
  ASSUME NEW h \in Slots, NEW d \in Slots, NEW g, g = (h + 1) % PerSource
  PROVE  /\ g \in Slots
         /\ Back(g, 0) = h
         /\ d # 0 => d - 1 \in Slots /\ Back(g, d) = Back(h, d - 1) /\ Back(h, d - 1) # h
<1>1. h \in Nat /\ d \in Nat /\ h < PerSource /\ d < PerSource /\ PerSource \in Nat \ {0}
  BY LogAssumption DEF Slots
<1>2. g = IF h + 1 = PerSource THEN 0 ELSE h + 1
  BY NextSlot
<1>3. CASE h + 1 = PerSource
  BY <1>1, <1>2, <1>3 DEF Slots, Back
<1>4. CASE h + 1 # PerSource
  BY <1>1, <1>2, <1>4 DEF Slots, Back
<1> QED
  BY <1>3, <1>4

\* The types in the form the lemmas below use.
LEMMA LogTyped ==
  ASSUME LogTypeOK
  PROVE  /\ \A s \in Sources : /\ rings[s] \in [Slots -> 0..MaxSeq] /\ heads[s] \in Slots
                               /\ heard[s] \in Seq(1..MaxSeq) /\ Len(heard[s]) \in Nat
         /\ rings \in [Sources -> [Slots -> 0..MaxSeq]] /\ heads \in [Sources -> Slots]
         /\ heard \in [Sources -> Seq(1..MaxSeq)]
         /\ seq \in Nat /\ seq <= MaxSeq /\ newest \in Nat /\ newest <= MaxSeq /\ MaxSeq \in Nat
         /\ mask \subseteq Sources /\ before \in 0..(MaxSeq + 1) /\ listed_rows \in Seq(1..MaxSeq)
         /\ Len(listed_rows) \in Nat
<1>1. \A s \in Sources : heard[s] \in Seq(1..MaxSeq)
  BY DEF LogTypeOK
<1>2. \A s \in Sources : Len(heard[s]) \in Nat
  BY <1>1, LenProperties
<1>3. listed_rows \in Seq(1..MaxSeq)
  BY DEF LogTypeOK
<1>4. Len(listed_rows) \in Nat
  BY <1>3, LenProperties
<1> QED
  BY <1>1, <1>2, <1>3, <1>4, LogAssumption DEF LogTypeOK

\* What add() does to each bus.
LEMMA AddGives ==
  ASSUME LogTypeOK, NEW s \in Sources, Add(s)
  PROVE  /\ seq' = seq + 1 /\ seq' \in 1..MaxSeq
         /\ \A t \in Sources : t # s => rings'[t] = rings[t] /\ heads'[t] = heads[t] /\ heard'[t] = heard[t]
         /\ rings'[s] = [rings[s] EXCEPT ![heads[s]] = seq'] /\ heads'[s] = (heads[s] + 1) % PerSource
         /\ heard'[s] = Append(heard[s], seq')
         /\ rings' \in [Sources -> [Slots -> 0..MaxSeq]] /\ heads' \in [Sources -> Slots]
         /\ heard' \in [Sources -> Seq(1..MaxSeq)]
<1>1. seq' = seq + 1 /\ seq' \in 1..MaxSeq
  BY LogTyped DEF Add
<1>2. /\ heard' = [heard EXCEPT ![s] = Append(heard[s], seq')]
      /\ heads' = [heads EXCEPT ![s] = (heads[s] + 1) % PerSource]
  BY DEF Add
<1>3. rings' = [rings EXCEPT ![s] = [rings[s] EXCEPT ![heads[s]] = seq']]
  BY DEF Add
<1>4. Append(heard[s], seq') \in Seq(1..MaxSeq)
  BY <1>1, LogTyped, AppendProperties
<1>5. (heads[s] + 1) % PerSource \in Slots
  <2>1. heads[s] \in Slots
    BY LogTyped
  <2> QED
    BY <2>1, BackMoves
<1>6. [rings[s] EXCEPT ![heads[s]] = seq'] \in [Slots -> 0..MaxSeq]
  BY <1>1, LogTyped
<1>7. rings' \in [Sources -> [Slots -> 0..MaxSeq]]
  BY <1>3, <1>6, LogTyped
<1>8. heads' \in [Sources -> Slots]
  BY <1>2, <1>5, LogTyped
<1>9. heard' \in [Sources -> Seq(1..MaxSeq)]
  BY <1>2, <1>4, LogTyped
<1> QED
  BY <1>1, <1>2, <1>3, <1>7, <1>8, <1>9, LogTyped

\* A message logged goes to the place it is looked for.
LEMMA AddKeepsRings ==
  ASSUME LogTypeOK, RingInv, NEW s \in Sources, Add(s)
  PROVE  RingInv'
<1> SUFFICES ASSUME NEW t \in Sources, NEW d \in Slots, d < Len(heard'[t])
             PROVE  rings'[t][Back(heads'[t], d)] = heard'[t][Len(heard'[t]) - d]
  BY DEF RingInv
<1>1. CASE t # s
  <2>1. rings'[t] = rings[t] /\ heads'[t] = heads[t] /\ heard'[t] = heard[t]
    BY <1>1, AddGives
  <2> QED
    BY <2>1 DEF RingInv
<1>2. CASE t = s
  <2>1. /\ rings'[s] = [rings[s] EXCEPT ![heads[s]] = seq'] /\ heads'[s] = (heads[s] + 1) % PerSource
        /\ heard'[s] = Append(heard[s], seq') /\ seq' \in 1..MaxSeq
    BY AddGives
  <2>2. /\ heads[s] \in Slots /\ rings[s] \in [Slots -> 0..MaxSeq] /\ heard[s] \in Seq(1..MaxSeq)
        /\ Len(heard[s]) \in Nat
    BY LogTyped
  <2>3. /\ Len(heard'[s]) = Len(heard[s]) + 1
        /\ heard'[s][Len(heard[s]) + 1] = seq'
        /\ \A i \in 1..Len(heard[s]) : heard'[s][i] = heard[s][i]
    BY <2>1, <2>2, AppendProperties
  <2>4. d \in Nat
    BY DEF Slots
  <2>5. CASE d = 0
    <3>1. Back(heads'[s], 0) = heads[s]
      BY <2>1, <2>2, BackMoves
    <3> QED
      BY <1>2, <2>1, <2>2, <2>3, <2>5, <3>1
  <2>6. CASE d # 0
    <3>1. /\ d - 1 \in Slots /\ Back(heads'[s], d) = Back(heads[s], d - 1)
          /\ Back(heads[s], d - 1) # heads[s]
      BY <2>1, <2>2, <2>6, BackMoves
    <3>2. Back(heads[s], d - 1) \in Slots
      BY <2>2, <3>1, BackIsASlot
    <3>3. rings'[s][Back(heads[s], d - 1)] = rings[s][Back(heads[s], d - 1)]
      BY <2>1, <2>2, <3>1, <3>2
    <3>4. d - 1 < Len(heard[s])
      BY <1>2, <2>2, <2>3, <2>4
    <3>5. rings[s][Back(heads[s], d - 1)] = heard[s][Len(heard[s]) - (d - 1)]
      BY <3>1, <3>4 DEF RingInv
    <3>6. Len(heard[s]) - (d - 1) \in 1..Len(heard[s])
          /\ Len(heard[s]) - (d - 1) = Len(heard'[s]) - d
      BY <2>2, <2>3, <2>4, <2>6, <3>4
    <3> QED
      BY <1>2, <2>3, <3>1, <3>3, <3>5, <3>6
  <2> QED
    BY <2>5, <2>6
<1> QED
  BY <1>1, <1>2

\* One of a bus's last messages is in its ring.
LEMMA LastInRing ==
  ASSUME LogTypeOK, RingInv, NEW s \in Sources, NEW q \in Last(s)
  PROVE  q \in 1..MaxSeq /\ \E i \in Slots : rings[s][i] = q
<1>1. heard[s] \in Seq(1..MaxSeq) /\ Len(heard[s]) \in Nat /\ DOMAIN heard[s] = 1..Len(heard[s])
  BY LogTyped, LenProperties
<1>2. PICK j \in 1..Len(heard[s]) : j > Len(heard[s]) - PerSource /\ q = heard[s][j]
  BY <1>1 DEF Last
<1>3. /\ Len(heard[s]) - j \in Slots /\ Len(heard[s]) - j < Len(heard[s])
      /\ Len(heard[s]) - (Len(heard[s]) - j) = j
  BY <1>1, <1>2, LogAssumption DEF Slots
<1>4. rings[s][Back(heads[s], Len(heard[s]) - j)] = heard[s][j]
  BY <1>3 DEF RingInv
<1>5. Back(heads[s], Len(heard[s]) - j) \in Slots
  BY <1>3, LogTyped, BackIsASlot
<1>6. q \in 1..MaxSeq
  BY <1>1, <1>2, ElementOfSeq
<1> QED
  BY <1>2, <1>4, <1>5, <1>6

\* findOlder() returns the greatest of the older ones.
LEMMA FindOlderIsGreatest ==
  ASSUME LogTypeOK, Older # {}
  PROVE  /\ FindOlder \in Older /\ \A r \in Older : FindOlder >= r
         /\ FindOlder \in 1..MaxSeq /\ FindOlder <= before - 1
<1>1. \A r \in Older : r \in Nat /\ 1 <= r /\ r <= before - 1 /\ r <= MaxSeq
  <2>1. \A s \in mask, i \in Slots : rings[s][i] \in 0..MaxSeq
    BY LogTyped
  <2>2. before \in Nat
    BY LogTyped
  <2> QED
    BY <2>1, <2>2, LogTyped DEF Older
<1>2. Older \in SUBSET Nat /\ before \in Nat /\ MaxSeq \in Nat
  BY <1>1, LogTyped
<1>3. \E q \in Older : \A r \in Older : r <= q
  BY <1>1, <1>2, GreatestOfASet
<1>4. \E q \in Older : \A r \in Older : q >= r
  BY <1>1, <1>3
<1>5. FindOlder \in Older /\ \A r \in Older : FindOlder >= r
  BY <1>4 DEF FindOlder
<1> QED
  BY <1>1, <1>2, <1>5

\* A message logged leaves the page under way as it was.
LEMMA AddKeepsPage ==
  ASSUME LogTypeOK, NumbersInv, PageInv, PageIsWhole, NEW s \in Sources, Add(s)
  PROVE  NumbersInv' /\ PageInv' /\ PageIsWhole'
<1>1. seq' = seq + 1 /\ seq' \in 1..MaxSeq /\ UNCHANGED page
  BY AddGives DEF Add
<1>2. UNCHANGED <<mask, before, listed_rows, newest>>
  BY <1>1 DEF page
<1>3. /\ heard[s] \in Seq(1..MaxSeq) /\ Len(heard[s]) \in Nat
      /\ heard'[s] = Append(heard[s], seq')
  BY AddGives, LogTyped
<1>4. /\ Len(heard'[s]) = Len(heard[s]) + 1
      /\ heard'[s][Len(heard[s]) + 1] = seq'
      /\ \A i \in 1..Len(heard[s]) : heard'[s][i] = heard[s][i]
      /\ heard'[s] \in Seq(1..MaxSeq)
  BY <1>1, <1>3, AppendProperties
<1>5. NumbersInv'
  <2>1. newest' <= seq'
    BY <1>1, <1>2, LogTyped DEF NumbersInv
  <2>2. ASSUME NEW t \in Sources, NEW i \in 1..Len(heard'[t])
        PROVE  heard'[t][i] <= seq'
    <3>1. CASE t # s
      <4>1. heard'[t] = heard[t] /\ heard[t] \in Seq(1..MaxSeq)
        BY <3>1, AddGives, LogTyped
      <4>2. heard[t][i] <= seq /\ heard[t][i] \in 1..MaxSeq
        BY <4>1, ElementOfSeq DEF NumbersInv
      <4> QED
        BY <1>1, <4>1, <4>2, LogTyped
    <3>2. CASE t = s /\ i = Len(heard[s]) + 1
      BY <1>1, <1>4, <3>2
    <3>3. CASE t = s /\ i \in 1..Len(heard[s])
      <4>1. heard[s][i] <= seq /\ heard[s][i] \in 1..MaxSeq
        BY <1>3, <3>3, ElementOfSeq DEF NumbersInv
      <4> QED
        BY <1>1, <1>4, <3>3, <4>1, LogTyped
    <3> QED
      BY <1>3, <1>4, <3>1, <3>2, <3>3
  <2> QED
    BY <2>1, <2>2 DEF NumbersInv
<1>6. PageInv'
  BY <1>2 DEF PageInv
<1>7. ASSUME NEW t \in Sources, NEW q \in Last(t)', q <= newest
      PROVE  q \in Last(t)
  <2>1. CASE t # s
    BY <2>1, AddGives DEF Last
  <2>2. CASE t = s
    <3>1. DOMAIN heard'[s] = 1..(Len(heard[s]) + 1) /\ DOMAIN heard[s] = 1..Len(heard[s])
      BY <1>3, <1>4, LenProperties
    <3>2. PICK j \in 1..(Len(heard[s]) + 1) : j > Len(heard[s]) + 1 - PerSource /\ q = heard'[s][j]
      <4>1. PICK j \in DOMAIN heard'[t] : j > Len(heard'[t]) - PerSource /\ q = heard'[t][j]
        BY DEF Last
      <4>2. heard'[t] = heard'[s]
        BY <2>2
      <4>3. Len(heard'[s]) = Len(heard[s]) + 1
        BY <1>4
      <4>4. Len(heard[s]) \in Nat /\ PerSource \in Nat
        BY <1>3, LogAssumption
      <4> QED
        BY <3>1, <4>1, <4>2, <4>3, <4>4
    <3>3. j # Len(heard[s]) + 1
      <4>1. newest <= seq /\ newest \in Nat /\ seq \in Nat
        BY LogTyped DEF NumbersInv
      <4> QED
        BY <1>1, <1>4, <1>7, <3>2, <4>1
    <3>4. j \in 1..Len(heard[s]) /\ j > Len(heard[s]) - PerSource
      BY <1>3, <3>2, <3>3, LogAssumption
    <3>5. q = heard[s][j]
      BY <1>4, <3>2, <3>4
    <3> QED
      BY <2>2, <3>1, <3>4, <3>5 DEF Last
  <2> QED
    BY <2>1, <2>2
<1>8. PageIsWhole'
  BY <1>2, <1>7, LogTyped DEF PageIsWhole
<1> QED
  BY <1>5, <1>6, <1>8

\* A row of the page is the next one older.
LEMMA ShowKeepsPage ==
  ASSUME LogTypeOK, RingInv, PageInv, PageIsWhole, Show
  PROVE  LogTypeOK' /\ PageInv' /\ PageIsWhole'
<1>1. /\ mask # {} /\ Older # {} /\ before' = FindOlder /\ listed_rows' = Append(listed_rows, FindOlder)
      /\ UNCHANGED <<rings, heads, seq, mask, newest, heard>>
  BY DEF Show
<1>2. /\ FindOlder \in Older /\ \A r \in Older : FindOlder >= r
      /\ FindOlder \in 1..MaxSeq /\ FindOlder <= before - 1
  BY <1>1, FindOlderIsGreatest
<1> DEFINE n == Len(listed_rows)
<1>3. /\ listed_rows \in Seq(1..MaxSeq) /\ n \in Nat /\ before \in Nat /\ MaxSeq \in Nat
      /\ mask \subseteq Sources /\ DOMAIN listed_rows = 1..n
      /\ newest \in Nat
  BY LogTyped, LenProperties
<1>4. /\ listed_rows' \in Seq(1..MaxSeq) /\ Len(listed_rows') = n + 1
      /\ listed_rows'[n + 1] = FindOlder
      /\ \A i \in 1..n : listed_rows'[i] = listed_rows[i]
      /\ DOMAIN listed_rows' = 1..(n + 1)
  BY <1>1, <1>2, <1>3, AppendProperties, LenProperties
<1> HIDE DEF n
<1>5. LogTypeOK'
  BY <1>1, <1>2, <1>3, <1>4 DEF LogTypeOK
<1>6. PageInv'
  <2>1. listed_rows' # <<>>
    BY <1>3, <1>4, EmptySeq
  <2> QED
    BY <1>1, <1>4, <2>1 DEF PageInv
<1>7. ASSUME NEW i \in 1..n
      PROVE  listed_rows'[i] > listed_rows'[i + 1]
  <2>1. CASE i = n
    <3>1. listed_rows # <<>>
      BY <1>3, <2>1, EmptySeq DEF n
    <3>2. before = listed_rows[n]
      BY <1>1, <3>1 DEF PageInv, n
    <3> QED
      BY <1>2, <1>3, <1>4, <2>1, <3>2
  <2>2. CASE i # n
    <3>1. i \in 1..(n - 1) /\ i + 1 \in 1..n
      BY <1>3, <2>2
    <3>2. listed_rows[i] > listed_rows[i + 1]
      BY <1>1, <3>1 DEF PageIsWhole, n
    <3> QED
      BY <1>4, <3>1, <3>2
  <2> QED
    BY <2>1, <2>2
<1>8. ASSUME NEW s \in mask, NEW q \in Last(s), before' <= q, q <= newest
      PROVE  \E i \in 1..(n + 1) : listed_rows'[i] = q
  <2>1. s \in Sources
    BY <1>3
  <2>2. q \in 1..MaxSeq /\ \E i \in Slots : rings[s][i] = q
    BY <2>1, LastInRing
  <2>3. CASE before <= q
    <3>1. PICK i \in 1..n : listed_rows[i] = q
      BY <1>1, <1>3, <1>8, <2>3 DEF PageIsWhole
    <3> QED
      BY <1>3, <1>4, <3>1
  <2>4. CASE q < before
    <3>1. q \in Older
      BY <1>3, <2>2, <2>4 DEF Older
    <3>2. q = FindOlder
      BY <1>1, <1>2, <1>8, <2>2, <3>1
    <3> QED
      BY <1>3, <1>4, <3>2
  <2> QED
    BY <1>3, <2>2, <2>3, <2>4
<1>9. PageIsWhole'
  <2>1. \A s \in Sources : Last(s)' = Last(s)
    BY <1>1 DEF Last
  <2>2. Len(listed_rows') - 1 = n
    BY <1>3, <1>4
  <2>3. \A i \in 1..(Len(listed_rows') - 1) : listed_rows'[i] > listed_rows'[i + 1]
    BY <1>7, <2>2
  <2>4. \A s \in mask : \A q \in Last(s)' :
           before' <= q /\ q <= newest => \E i \in DOMAIN listed_rows' : listed_rows'[i] = q
    BY <1>3, <1>4, <1>8, <2>1
  <2> QED
    BY <1>1, <2>3, <2>4 DEF PageIsWhole
<1> QED
  BY <1>5, <1>6, <1>9

\* Every step keeps the rings and the page.
LEMMA LogStep ==
  ASSUME LogIInv, [LogNext]_logVars
  PROVE  LogIInv'
<1> USE DEF LogIInv
<1>1. ASSUME NEW s \in Sources, Add(s)
      PROVE  LogIInv'
  <2>1. LogTypeOK'
    <3>1. seq' \in 0..MaxSeq
      <4>1. seq' \in 1..MaxSeq
        BY <1>1, AddGives
      <4> QED
        BY <4>1, LogAssumption
    <3>2. /\ rings' \in [Sources -> [Slots -> 0..MaxSeq]] /\ heads' \in [Sources -> Slots]
          /\ heard' \in [Sources -> Seq(1..MaxSeq)]
      BY <1>1, AddGives
    <3>3. UNCHANGED page
      BY <1>1 DEF Add
    <3> QED
      BY <3>1, <3>2, <3>3 DEF LogTypeOK, page
  <2> QED
    BY <1>1, <2>1, AddKeepsRings, AddKeepsPage
<1>2. ASSUME NEW wanted \in Asked, Ask(wanted)
      PROVE  LogIInv'
  <2>1. LogTypeOK'
    <3>1. wanted \subseteq Sources
      BY DEF Asked
    <3>2. MaxSeq + 1 \in 0..(MaxSeq + 1)
      BY LogAssumption
    <3>3. <<>> \in Seq(1..MaxSeq)
      OBVIOUS
    <3> QED
      BY <1>2, <3>1, <3>2, <3>3 DEF Ask, LogTypeOK
  <2>2. RingInv'
    BY <1>2 DEF Ask, RingInv
  <2>3. NumbersInv' /\ PageInv'
    BY <1>2, LogTyped DEF Ask, NumbersInv, PageInv
  <2>4. PageIsWhole'
    <3>1. /\ listed_rows' = <<>> /\ before' = MaxSeq + 1 /\ newest' = seq /\ heard' = heard
      BY <1>2 DEF Ask
    <3>2. seq <= MaxSeq /\ seq \in Nat /\ MaxSeq \in Nat
      BY LogTyped
    <3>3. mask' \subseteq Sources /\ \A s \in Sources : Last(s)' = Last(s)
      BY <1>2, <3>1 DEF Ask, Asked, Last
    <3>4. \A s \in Sources : \A q \in Last(s) : q \in Nat
      BY LastInRing
    <3>5. Len(listed_rows') = 0
      BY <3>1
    <3> QED
      BY <3>1, <3>2, <3>3, <3>4, <3>5 DEF PageIsWhole
  <2> QED
    BY <2>1, <2>2, <2>3, <2>4
<1>3. CASE Show
  <2>1. RingInv' /\ NumbersInv'
    BY <1>3 DEF Show, RingInv, NumbersInv
  <2> QED
    BY <1>3, <2>1, ShowKeepsPage
<1>4. CASE FinishPage
  BY <1>4 DEF FinishPage, LogTypeOK, RingInv, NumbersInv, PageInv, PageIsWhole
<1>5. CASE UNCHANGED logVars
  <2>1. UNCHANGED <<rings, heads, seq, mask, before, listed_rows, newest, heard>>
    BY <1>5 DEF logVars, page
  <2>2. LogTypeOK' /\ RingInv' /\ NumbersInv' /\ PageInv'
    BY <2>1 DEF LogTypeOK, RingInv, NumbersInv, PageInv
  <2>3. \A s \in mask : Last(s)' = Last(s)
    BY <2>1 DEF Last
  <2>4. PageIsWhole'
    BY <2>1, <2>3, Zenon DEF PageIsWhole
  <2> QED
    BY <2>2, <2>4
<1> QED
  BY <1>1, <1>2, <1>3, <1>4, <1>5 DEF LogNext

\* They hold at the start.
LEMMA LogStart ==
  ASSUME LogInit
  PROVE  LogIInv
<1>1. 0 \in Slots /\ 0 \in 0..MaxSeq /\ 0 \in 0..(MaxSeq + 1)
  BY LogAssumption DEF Slots
<1>2. <<>> \in Seq(1..MaxSeq) /\ Len(<<>>) = 0
  OBVIOUS
<1>3. LogTypeOK
  BY <1>1, <1>2 DEF LogInit, LogTypeOK
<1>4. \A s \in Sources : heard[s] = <<>>
  BY DEF LogInit
<1>5. RingInv
  BY <1>2, <1>4 DEF RingInv, Slots
<1>6. NumbersInv
  BY <1>1, <1>2, <1>4 DEF LogInit, NumbersInv
<1> QED
  BY <1>3, <1>5, <1>6 DEF LogInit, LogIInv, PageInv, PageIsWhole

\* For any buses and any size of the rings and the page: the page comes newest first, and
\* has passed over nothing that was there when it was asked for and is still among its
\* bus's last ones (streamMessages, findOlder).
THEOREM PagesAreWhole == LogSpec => []PageIsWhole
<1>1. LogInit => LogIInv
  BY LogStart
<1>2. LogIInv /\ [LogNext]_logVars => LogIInv'
  BY LogStep
<1>3. LogIInv => PageIsWhole
  BY DEF LogIInv
<1> QED
  BY <1>1, <1>2, <1>3, PTL DEF LogSpec

-----------------------------------------------------------------------------
(* CommandLine: what the terminal shows of the line being typed.             *)

Typable == Letters \cup {Space}

\* A line is a sequence of what can be typed, of at most LineMax.
LEMMA LinesAreSequences ==
  ASSUME NEW l
  PROVE  l \in Lines <=> l \in Seq(Typable) /\ Len(l) <= LineMax
<1>1. ASSUME l \in Lines
      PROVE  l \in Seq(Typable) /\ Len(l) <= LineMax
  <2>1. PICK n \in 0..LineMax : l \in [1..n -> Typable]
    BY <1>1 DEF Lines, Typable
  <2>2. n \in Nat /\ n <= LineMax
    BY CommandAssumption
  <2>3. l \in Seq(Typable)
    BY <2>1, <2>2, SeqDef
  <2>4. Len(l) = n
    BY <2>1, <2>2, <2>3, LenProperties
  <2> QED
    BY <2>2, <2>3, <2>4
<1>2. ASSUME l \in Seq(Typable), Len(l) <= LineMax
      PROVE  l \in Lines
  <2>1. Len(l) \in Nat /\ l \in [1..Len(l) -> Typable]
    BY <1>2, LenProperties
  <2>2. Len(l) \in 0..LineMax
    BY <1>2, <2>1, CommandAssumption
  <2> QED
    BY <2>1, <2>2 DEF Lines, Typable
<1> QED
  BY <1>1, <1>2

\* The first space is one, and the first.
LEMMA FirstSpaceIsFirst ==
  ASSUME NEW l \in Seq(Typable), Spaces(l) # {}
  PROVE  FirstSpace(l) \in Spaces(l) /\ \A j \in Spaces(l) : FirstSpace(l) <= j
<1>1. DOMAIN l = 1..Len(l) /\ Len(l) \in Nat
  BY LenProperties
<1>2. Spaces(l) \in SUBSET Nat
  BY <1>1 DEF Spaces
<1>3. \E i \in Spaces(l) : \A j \in Spaces(l) : i <= j
  BY <1>2, LeastOfASet
<1> QED
  BY <1>3 DEF FirstSpace

\* With one more character at its end, a line has the command it had: a space ends the
\* command only where there was none.
LEMMA OneMoreCharacter ==
  ASSUME NEW l \in Seq(Typable), NEW c \in Typable, NEW m, m = Append(l, c)
  PROVE  /\ Spaces(l) # {} => /\ Spaces(m) # {} /\ FirstSpace(m) = FirstSpace(l)
                              /\ Word(m) = Word(l) /\ FirstSpace(l) \in 1..Len(l)
         /\ Spaces(l) = {} /\ Spaces(m) # {} => FirstSpace(m) = Len(l) + 1
<1>1. /\ DOMAIN l = 1..Len(l) /\ Len(l) \in Nat /\ m \in Seq(Typable) /\ Len(m) = Len(l) + 1
      /\ m[Len(l) + 1] = c /\ \A i \in 1..Len(l) : m[i] = l[i]
  BY AppendProperties, LenProperties
<1>2. DOMAIN m = 1..(Len(l) + 1)
  BY <1>1, LenProperties
<1>3. \A i \in 1..Len(l) : i \in Spaces(m) <=> i \in Spaces(l)
  BY <1>1, <1>2 DEF Spaces
<1>4. Spaces(l) \subseteq 1..Len(l) /\ Spaces(m) \subseteq 1..(Len(l) + 1)
  BY <1>1, <1>2 DEF Spaces
<1>5. Spaces(m) \subseteq Spaces(l) \cup {Len(l) + 1}
  BY <1>1, <1>3, <1>4
<1>6. ASSUME Spaces(l) # {}
      PROVE  /\ Spaces(m) # {} /\ FirstSpace(m) = FirstSpace(l)
             /\ Word(m) = Word(l) /\ FirstSpace(l) \in 1..Len(l)
  <2>1. /\ FirstSpace(l) \in Spaces(l) /\ \A j \in Spaces(l) : FirstSpace(l) <= j
        /\ FirstSpace(l) \in 1..Len(l)
    BY <1>4, <1>6, FirstSpaceIsFirst
  <2>2. Spaces(m) # {}
    BY <1>3, <2>1
  <2>3. FirstSpace(m) \in Spaces(m) /\ \A j \in Spaces(m) : FirstSpace(m) <= j
    BY <1>1, <2>2, FirstSpaceIsFirst
  <2>4. FirstSpace(m) = FirstSpace(l)
    <3>1. FirstSpace(l) \in Spaces(m)
      BY <1>3, <2>1
    <3>2. FirstSpace(m) <= FirstSpace(l) /\ FirstSpace(m) \in 1..(Len(l) + 1)
      BY <1>4, <2>3, <3>1
    <3>3. FirstSpace(m) \in 1..Len(l)
      BY <1>1, <2>1, <3>2
    <3>4. FirstSpace(m) \in Spaces(l)
      BY <1>3, <2>3, <3>3
    <3> QED
      BY <2>1, <3>2, <3>3, <3>4
  <2> DEFINE n == FirstSpace(l) - 1
  <2>5. n \in Nat /\ n <= Len(l) /\ n \in Int /\ 1 \in Int
    BY <1>1, <2>1
  <2>6. \A i \in 1..n : i \in 1..Len(l) /\ l[i] \in Typable /\ m[i] = l[i]
    BY <1>1, <2>5, ElementOfSeq
  <2> HIDE DEF n
  <2>7. /\ SubSeq(l, 1, n) \in Seq(Typable) /\ Len(SubSeq(l, 1, n)) = IF 1 <= n THEN n - 1 + 1 ELSE 0
        /\ \A i \in 1..(n - 1 + 1) : SubSeq(l, 1, n)[i] = l[1 + i - 1]
    BY <2>5, <2>6, SubSeqProperties
  <2>8. /\ SubSeq(m, 1, n) \in Seq(Typable) /\ Len(SubSeq(m, 1, n)) = IF 1 <= n THEN n - 1 + 1 ELSE 0
        /\ \A i \in 1..(n - 1 + 1) : SubSeq(m, 1, n)[i] = m[1 + i - 1]
    BY <2>5, <2>6, SubSeqProperties
  <2>9. \A i \in 1..n : SubSeq(m, 1, n)[i] = SubSeq(l, 1, n)[i]
    BY <2>5, <2>6, <2>7, <2>8
  <2>10. SubSeq(m, 1, n) = SubSeq(l, 1, n)
    BY <2>5, <2>7, <2>8, <2>9, SeqEqual
  <2> QED
    BY <2>1, <2>2, <2>4, <2>10 DEF Word, n
<1>7. ASSUME Spaces(l) = {}, Spaces(m) # {}
      PROVE  FirstSpace(m) = Len(l) + 1
  BY <1>1, <1>5, <1>7, FirstSpaceIsFirst
<1> QED
  BY <1>6, <1>7

\* So the stars of the longer line are those of the shorter one ...
LEMMA MaskedStays ==
  ASSUME NEW l \in Seq(Typable), NEW c \in Typable, NEW i \in 1..Len(l)
  PROVE  Masked(Append(l, c))[i] = Masked(l)[i]
<1>0. PICK m : m = Append(l, c)
  OBVIOUS
<1>1. /\ DOMAIN l = 1..Len(l) /\ Len(l) \in Nat /\ m \in Seq(Typable) /\ Len(m) = Len(l) + 1
      /\ m[Len(l) + 1] = c /\ \A j \in 1..Len(l) : m[j] = l[j]
  BY <1>0, AppendProperties, LenProperties
<1>2. DOMAIN m = 1..(Len(l) + 1)
  BY <1>1, LenProperties
<1>3. (IsSecret(m) /\ i > FirstSpace(m)) <=> (IsSecret(l) /\ i > FirstSpace(l))
  <2>1. CASE Spaces(l) # {}
    BY <1>0, <2>1, OneMoreCharacter DEF IsSecret
  <2>2. CASE Spaces(l) = {} /\ Spaces(m) # {}
    <3>1. FirstSpace(m) = Len(l) + 1
      BY <1>0, <2>2, OneMoreCharacter
    <3>2. ~ (i > FirstSpace(m))
      BY <1>1, <3>1
    <3>3. ~ IsSecret(l)
      BY <2>2 DEF IsSecret
    <3> QED
      BY <3>2, <3>3
  <2>3. CASE Spaces(l) = {} /\ Spaces(m) = {}
    BY <2>3 DEF IsSecret
  <2> QED
    BY <2>1, <2>2, <2>3
<1>4. Masked(m)[i] = Masked(l)[i]
  BY <1>1, <1>2, <1>3 DEF Masked
<1> QED
  BY <1>0, <1>4

\* ... and one for the new character.
LEMMA MaskedLast ==
  ASSUME NEW l \in Seq(Typable), NEW c \in Typable, NEW m, m = Append(l, c)
  PROVE  Masked(m)[Len(l) + 1] = IF IsSecret(m) /\ Len(m) > FirstSpace(m) THEN Star ELSE c
<1>1. /\ Len(l) \in Nat /\ m \in Seq(Typable) /\ Len(m) = Len(l) + 1 /\ m[Len(l) + 1] = c
  BY AppendProperties, LenProperties
<1>2. DOMAIN m = 1..(Len(l) + 1)
  BY <1>1, LenProperties
<1>3. Len(l) + 1 \in DOMAIN m
  BY <1>1, <1>2
<1>4. Masked(m)[Len(l) + 1] = IF IsSecret(m) /\ Len(l) + 1 > FirstSpace(m) THEN Star ELSE m[Len(l) + 1]
  BY <1>3 DEF Masked
<1> QED
  BY <1>1, <1>4

\* What is shown of a line is as long as the line.
LEMMA MaskedIsASequence ==
  ASSUME NEW l \in Seq(Typable)
  PROVE  /\ Masked(l) \in Seq(Letters \cup {Space, Star}) /\ Len(Masked(l)) = Len(l)
<1>1. DOMAIN l = 1..Len(l) /\ Len(l) \in Nat /\ l \in [1..Len(l) -> Typable]
  BY LenProperties
<1>2. Masked(l) \in [1..Len(l) -> Letters \cup {Space, Star}]
  BY <1>1 DEF Masked, Typable
<1>3. Masked(l) \in Seq(Letters \cup {Space, Star})
  BY <1>1, <1>2, SeqDef
<1> QED
  BY <1>1, <1>2, <1>3, LenProperties

-----------------------------------------------------------------------------
LineIInv == LineTypeOK /\ ShownIsTheLine

\* The types in the form the lemmas below use.
LEMMA LineTyped ==
  ASSUME LineTypeOK
  PROVE  /\ line \in Lines /\ saved \in Lines /\ hist \in Seq(Lines) /\ Len(hist) <= History
         /\ line \in Seq(Typable) /\ Len(line) \in Nat /\ Len(line) <= LineMax
         /\ Len(hist) \in Nat /\ DOMAIN hist = 1..Len(hist) /\ pos \in 0..Len(hist)
         /\ ran \in Plain \cup {<<>>}
<1>1. line \in Lines /\ saved \in Lines /\ hist \in Seq(Lines) /\ Len(hist) <= History
      /\ pos \in 0..Len(hist) /\ ran \in Plain \cup {<<>>}
  BY DEF LineTypeOK
<1>2. line \in Seq(Typable) /\ Len(line) <= LineMax
  BY <1>1, LinesAreSequences
<1> QED
  BY <1>1, <1>2, LenProperties

\* A line set is shown as it is to be, and fits.
LEMMA SetLineShows ==
  ASSUME NEW l \in Lines, SetLine(l)
  PROVE  /\ line' \in Lines /\ shown' = Masked(line')
         /\ shown' \in Seq(Letters \cup {Space, Star}) /\ Len(shown') <= LineMax
<1>1. l \in Seq(Typable) /\ Len(l) <= LineMax
  BY LinesAreSequences
<1> QED
  BY <1>1, MaskedIsASequence DEF SetLine

\* The history as a whole: only plain lines, and not too many.
LEMMA HistAddKeeps ==
  ASSUME NEW l \in Lines, ~IsSecret(l), LineTypeOK, \A i \in DOMAIN hist : ~IsSecret(hist[i]),
         NEW h, h = HistAdd(l)
  PROVE  h \in Seq(Lines) /\ Len(h) <= History /\ \A i \in DOMAIN h : ~IsSecret(h[i])
<1>1. hist \in Seq(Lines) /\ Len(hist) \in Nat /\ Len(hist) <= History /\ DOMAIN hist = 1..Len(hist)
  BY LineTyped
<1>2. CASE hist # <<>> /\ hist[Len(hist)] = l
  BY <1>1, <1>2 DEF HistAdd
<1>3. CASE ~(hist # <<>> /\ hist[Len(hist)] = l)
  <2> DEFINE rest == IF Len(hist) = History THEN Tail(hist) ELSE hist
  <2>1. rest \in Seq(Lines) /\ Len(rest) \in Nat /\ Len(rest) + 1 <= History
        /\ \A i \in 1..Len(rest) : ~IsSecret(rest[i])
    <3>1. CASE Len(hist) = History
      <4>1. hist # <<>>
        BY <3>1, CommandAssumption, EmptySeq
      <4>2. /\ Tail(hist) \in Seq(Lines) /\ Len(Tail(hist)) = Len(hist) - 1
            /\ \A i \in 1..Len(Tail(hist)) : Tail(hist)[i] = hist[i + 1]
        BY <1>1, <4>1, HeadTailProperties
      <4>3. \A i \in 1..Len(Tail(hist)) : i + 1 \in 1..Len(hist)
        BY <1>1, <4>2
      <4>4. \A i \in 1..Len(Tail(hist)) : ~IsSecret(Tail(hist)[i])
        BY <1>1, <4>2, <4>3
      <4>5. Len(Tail(hist)) \in Nat /\ Len(Tail(hist)) + 1 <= History
        BY <1>1, <3>1, <4>2, CommandAssumption
      <4> QED
        BY <3>1, <4>2, <4>4, <4>5
    <3>2. CASE Len(hist) # History
      <4>1. Len(hist) + 1 <= History
        <5>1. History \in Int
          BY CommandAssumption
        <5>2. Len(hist) \in Int /\ Len(hist) <= History
          BY <1>1
        <5> QED
          BY <3>2, <5>1, <5>2
      <4>2. \A i \in 1..Len(hist) : ~IsSecret(hist[i])
        BY <1>1
      <4> QED
        BY <1>1, <3>2, <4>1, <4>2
    <3> QED
      BY <3>1, <3>2
  <2>2. h = Append(rest, l)
    BY <1>3 DEF HistAdd
  <2> HIDE DEF rest
  <2>3. /\ h \in Seq(Lines) /\ Len(h) = Len(rest) + 1 /\ h[Len(rest) + 1] = l
        /\ \A i \in 1..Len(rest) : h[i] = rest[i]
    BY <2>1, <2>2, AppendProperties
  <2>4. DOMAIN h = 1..(Len(rest) + 1)
    BY <2>3, LenProperties
  <2>5. ASSUME NEW i \in DOMAIN h
        PROVE  ~IsSecret(h[i])
    <3>1. CASE i = Len(rest) + 1
      BY <2>3, <3>1
    <3>2. CASE i # Len(rest) + 1
      <4>1. i \in 1..Len(rest)
        BY <2>1, <2>4, <3>2
      <4> QED
        BY <2>1, <2>3, <4>1
    <3> QED
      BY <3>1, <3>2
  <2> QED
    BY <2>1, <2>3, <2>5
<1> QED
  BY <1>2, <1>3

\* So is nothing at all.
LEMMA EmptyIsALine == <<>> \in Lines
<1>1. <<>> \in Seq(Typable) /\ Len(<<>>) = 0
  OBVIOUS
<1>2. 0 <= LineMax
  BY CommandAssumption
<1>3. Len(<<>>) <= LineMax
  BY <1>1, <1>2
<1> QED
  BY <1>1, <1>3, LinesAreSequences

\* What the matches share is a line.
LEMMA SharedIsALine == Shared \in Lines
<1> DEFINE Fits == {p \in Lines : \A w \in Matches : IsPrefix(p, w)}
<1> DEFINE Lengths == {Len(p) : p \in Fits}
<1>1. \A p \in Lines : Len(p) \in Nat /\ Len(p) <= LineMax
  BY LinesAreSequences, LenProperties
<1>2. <<>> \in Fits
  <2>1. <<>> \in Lines
    BY EmptyIsALine
  <2>2. ASSUME NEW w \in Matches
        PROVE  IsPrefix(<<>>, w)
    <3>1. w \in Seq(Letters)
      BY CommandAssumption DEF Matches
    <3>2. Len(w) \in Nat /\ Len(<<>>) = 0
      BY <3>1, LenProperties
    <3>3. SubSeq(w, 1, 0) = <<>>
      BY SubSeqEmpty
    <3> QED
      BY <3>2, <3>3 DEF IsPrefix
  <2> QED
    BY <2>1, <2>2
<1>3. Lengths \in SUBSET Nat /\ Lengths # {} /\ \A n \in Lengths : n <= LineMax
  BY <1>1, <1>2
<1>4. PICK n \in Lengths : \A k \in Lengths : k <= n
  <2> HIDE DEF Lengths
  <2> QED
    BY <1>3, CommandAssumption, GreatestOfASet
<1>5. PICK p \in Fits : n = Len(p)
  BY <1>4
<1>6. \A q \in Fits : Len(q) <= Len(p)
  BY <1>4, <1>5
<1>7. /\ p \in Lines /\ \A w \in Matches : IsPrefix(p, w)
      /\ \A q \in Lines : (\A w \in Matches : IsPrefix(q, w)) => Len(q) <= Len(p)
  BY <1>5, <1>6
<1> QED
  BY <1>7, Zenon DEF Shared

\* A line completed is a line.
LEMMA CompletedIsALine ==
  ASSUME LineTypeOK
  PROVE  Completed \in Lines
<1>1. Shared \in Lines /\ line \in Lines
  BY SharedIsALine, LineTyped
<1>2. Shared \in Seq(Typable) /\ Len(Shared) \in Nat
  BY <1>1, LinesAreSequences, LenProperties
<1>3. Append(Shared, Space) \in Seq(Typable) /\ Len(Append(Shared, Space)) = Len(Shared) + 1
  BY <1>2, AppendProperties DEF Typable
<1>4. ~(Len(Shared) + 1 >= LineMax) => Append(Shared, Space) \in Lines
  <2>1. ~(Len(Shared) + 1 >= LineMax) => Len(Append(Shared, Space)) <= LineMax
    BY <1>2, <1>3, CommandAssumption
  <2> QED
    BY <1>3, <2>1, LinesAreSequences
<1> QED
  BY <1>1, <1>4 DEF Completed

\* A character typed.
LEMMA TypeKeeps ==
  ASSUME LineIInv, NEW c \in Letters \cup {Space}, Type(c)
  PROVE  LineIInv'
<1>1. /\ line \in Seq(Typable) /\ Len(line) \in Nat /\ Len(line) < LineMax /\ c \in Typable
      /\ line' = Append(line, c) /\ shown = Masked(line)
      /\ UNCHANGED <<hist, pos, saved, ran>>
  BY LineTyped DEF LineIInv, ShownIsTheLine, Type, Typable
<1> DEFINE d == IF IsSecret(line') /\ Len(line') > FirstSpace(line') THEN Star ELSE c
<1>2. shown' = Append(shown, d) /\ d \in Letters \cup {Space, Star}
  BY <1>1 DEF Type
<1>3. line' \in Seq(Typable) /\ Len(line') = Len(line) + 1
  BY <1>1, AppendProperties
<1>4. line' \in Lines
  <2>1. Len(line') <= LineMax
    BY <1>1, <1>3, CommandAssumption
  <2> QED
    BY <1>3, <2>1, LinesAreSequences
<1>5. /\ \A i \in 1..Len(line) : Masked(line')[i] = Masked(line)[i]
      /\ Masked(line')[Len(line) + 1] = d
  <2>1. line \in Seq(Typable) /\ c \in Typable /\ line' = Append(line, c)
    BY <1>1
  <2>2. \A i \in 1..Len(line) : Masked(line')[i] = Masked(line)[i]
    BY <2>1, MaskedStays
  <2>3. Masked(line')[Len(line) + 1] = d
    BY <2>1, MaskedLast
  <2> QED
    BY <2>2, <2>3
<1> HIDE DEF d
<1>6. /\ shown \in Seq(Letters \cup {Space, Star}) /\ Len(shown) = Len(line)
      /\ Masked(line') \in Seq(Letters \cup {Space, Star}) /\ Len(Masked(line')) = Len(line) + 1
  BY <1>1, <1>3, MaskedIsASequence
<1>7. /\ shown' \in Seq(Letters \cup {Space, Star}) /\ Len(shown') = Len(line) + 1
      /\ shown'[Len(line) + 1] = d /\ \A i \in 1..Len(line) : shown'[i] = shown[i]
  BY <1>2, <1>6, AppendProperties
<1>8. \A i \in 1..(Len(line) + 1) : shown'[i] = Masked(line')[i]
  BY <1>1, <1>5, <1>7
<1>9. shown' = Masked(line')
  BY <1>6, <1>7, <1>8, SeqEqual
<1>10. LineTypeOK'
  BY <1>1, <1>4, <1>7, CommandAssumption DEF LineIInv, LineTypeOK
<1> QED
  BY <1>1, <1>9, <1>10 DEF LineIInv, ShownIsTheLine

\* A line without its last character.
LEMMA ShorterLine ==
  ASSUME NEW S, NEW s \in Seq(S), NEW n \in Nat, Len(s) = n + 1
  PROVE  /\ SubSeq(s, 1, n) \in Seq(S) /\ Len(SubSeq(s, 1, n)) = n
         /\ \A i \in 1..n : SubSeq(s, 1, n)[i] = s[i]
         /\ s = Append(SubSeq(s, 1, n), s[n + 1]) /\ s[n + 1] \in S
<1>1. \A i \in 1..n : s[i] \in S
  BY ElementOfSeq
<1>2. s[n + 1] \in S
  BY ElementOfSeq
<1> DEFINE f == SubSeq(s, 1, n)
<1>3. f \in Seq(S) /\ Len(f) = n /\ \A i \in 1..n : f[i] = s[i]
  <2>1. 1 \in Int /\ n \in Int
    OBVIOUS
  <2>2. /\ f \in Seq(S) /\ Len(f) = IF 1 <= n THEN n - 1 + 1 ELSE 0
        /\ \A i \in 1..(n - 1 + 1) : f[i] = s[1 + i - 1]
    BY <1>1, <2>1, SubSeqProperties
  <2> HIDE DEF f
  <2> QED
    BY <2>2
<1> HIDE DEF f
<1>4. /\ Append(f, s[n + 1]) \in Seq(S) /\ Len(Append(f, s[n + 1])) = n + 1
      /\ Append(f, s[n + 1])[n + 1] = s[n + 1] /\ \A i \in 1..n : Append(f, s[n + 1])[i] = f[i]
  BY <1>2, <1>3, AppendProperties
<1>5. \A i \in 1..(n + 1) : s[i] = Append(f, s[n + 1])[i]
  BY <1>3, <1>4
<1>6. s = Append(f, s[n + 1])
  BY <1>4, <1>5, SeqEqual
<1> QED
  BY <1>2, <1>3, <1>6 DEF f

\* One taken back.
LEMMA BackspaceKeeps ==
  ASSUME LineIInv, Backspace
  PROVE  LineIInv'
<1> DEFINE n == Len(line) - 1
<1>1. /\ line \in Seq(Typable) /\ line # <<>> /\ Len(line) <= LineMax /\ shown = Masked(line)
      /\ UNCHANGED <<hist, pos, saved, ran>>
  BY LineTyped DEF LineIInv, ShownIsTheLine, Backspace
<1>2. n \in Nat /\ Len(line) = n + 1
  <2>1. Len(line) \in Nat \ {0}
    BY <1>1, EmptySeq
  <2> QED
    BY <2>1
<1>3. shown \in Seq(Letters \cup {Space, Star}) /\ Len(shown) = n + 1
  BY <1>1, <1>2, MaskedIsASequence
<1>4. line' = SubSeq(line, 1, n) /\ shown' = SubSeq(shown, 1, n)
  BY <1>2, <1>3 DEF Backspace
<1> HIDE DEF n
<1>5. /\ line' \in Seq(Typable) /\ Len(line') = n /\ line = Append(line', line[n + 1])
      /\ line[n + 1] \in Typable
  BY <1>1, <1>2, <1>4, ShorterLine
<1>6. /\ shown' \in Seq(Letters \cup {Space, Star}) /\ Len(shown') = n
      /\ \A i \in 1..n : shown'[i] = shown[i]
  BY <1>2, <1>3, <1>4, ShorterLine
<1>7. \A i \in 1..n : Masked(line)[i] = Masked(line')[i]
  BY <1>5, MaskedStays
<1>8. Masked(line') \in Seq(Letters \cup {Space, Star}) /\ Len(Masked(line')) = n
  BY <1>5, MaskedIsASequence
<1>9. shown' = Masked(line')
  BY <1>1, <1>6, <1>7, <1>8, SeqEqual
<1>10. n <= LineMax
  BY <1>1, <1>2, CommandAssumption
<1>11. line' \in Lines
  BY <1>5, <1>10, LinesAreSequences
<1>12. LineTypeOK'
  BY <1>1, <1>6, <1>10, <1>11 DEF LineIInv, LineTypeOK
<1> QED
  BY <1>1, <1>9, <1>12 DEF LineIInv, ShownIsTheLine

\* Recall, completion, abandonment: the line is set to one that fits, the history stays.
LEMMA SetLineKeeps ==
  ASSUME LineIInv, NEW l \in Lines, SetLine(l), hist' = hist, pos' \in 0..Len(hist),
         saved' \in Lines, ran' = ran
  PROVE  LineIInv'
<1>1. /\ line' \in Lines /\ shown' = Masked(line')
      /\ shown' \in Seq(Letters \cup {Space, Star}) /\ Len(shown') <= LineMax
  BY SetLineShows
<1> QED
  BY <1>1 DEF LineIInv, LineTypeOK, ShownIsTheLine

\* A line entered.
LEMMA EnterKeeps ==
  ASSUME LineIInv, Enter
  PROVE  LineIInv'
<1>1. /\ line' \in Lines /\ shown' = Masked(line')
      /\ shown' \in Seq(Letters \cup {Space, Star}) /\ Len(shown') <= LineMax
  BY EmptyIsALine, SetLineShows DEF Enter
<1>2. hist' \in Seq(Lines) /\ Len(hist') <= History /\ \A i \in DOMAIN hist' : ~IsSecret(hist'[i])
  <2>1. CASE line # <<>> /\ ~IsSecret(line)
    <3>1. hist' = HistAdd(line) /\ line \in Lines
      BY <2>1, LineTyped DEF Enter, LineIInv
    <3> QED
      BY <2>1, <3>1, HistAddKeeps DEF LineIInv, ShownIsTheLine
  <2>2. CASE ~(line # <<>> /\ ~IsSecret(line))
    BY <2>2, LineTyped DEF Enter, LineIInv, ShownIsTheLine
  <2> QED
    BY <2>1, <2>2
<1>3. ran' \in Plain \cup {<<>>}
  BY LineTyped DEF Enter, Run, LineIInv
<1>4. pos' = 0 /\ saved' = saved
  BY DEF Enter
<1>5. 0 \in 0..Len(hist')
  BY <1>2, LenProperties
<1> QED
  BY <1>1, <1>2, <1>3, <1>4, <1>5 DEF LineIInv, LineTypeOK, ShownIsTheLine

\* Every step keeps the line on show.
LEMMA LineStep ==
  ASSUME LineIInv, [LineNext]_lineVars
  PROVE  LineIInv'
<1>0. /\ line \in Lines /\ saved \in Lines /\ hist \in Seq(Lines) /\ Len(hist) \in Nat
      /\ pos \in 0..Len(hist)
  BY LineTyped DEF LineIInv
<1>1. ASSUME NEW c \in Letters \cup {Space}, Type(c)
      PROVE  LineIInv'
  BY <1>1, TypeKeeps
<1>2. CASE Backspace
  BY <1>2, BackspaceKeeps
<1>3. CASE Abandon
  BY <1>0, <1>3, EmptyIsALine, SetLineKeeps DEF Abandon
<1>4. CASE Enter
  BY <1>4, EnterKeeps
<1>5. CASE Up
  <2>1. Len(hist) \in Nat \ {0}
    BY <1>0, <1>5, EmptySeq DEF Up
  <2>2. pos' \in 1..Len(hist) /\ saved' \in Lines /\ hist' = hist /\ ran' = ran /\ SetLine(hist[pos'])
    BY <1>0, <1>5, <2>1 DEF Up
  <2>3. hist[pos'] \in Lines
    BY <1>0, <2>2, ElementOfSeq
  <2>4. pos' \in 0..Len(hist)
    BY <2>1, <2>2
  <2> QED
    BY <2>2, <2>3, <2>4, SetLineKeeps
<1>6. CASE Down
  <2>1. saved' = saved /\ hist' = hist /\ ran' = ran
    BY <1>6 DEF Down
  <2>2. CASE pos < Len(hist)
    <3>1. pos' \in 1..Len(hist) /\ SetLine(hist[pos'])
      BY <1>0, <1>6, <2>2 DEF Down
    <3>2. hist[pos'] \in Lines
      BY <1>0, <3>1, ElementOfSeq
    <3>3. pos' \in 0..Len(hist)
      BY <1>0, <3>1
    <3> QED
      BY <1>0, <2>1, <3>1, <3>2, <3>3, SetLineKeeps
  <2>3. CASE ~(pos < Len(hist))
    <3>1. pos' = 0 /\ SetLine(saved)
      BY <1>6, <2>3 DEF Down
    <3>2. pos' \in 0..Len(hist)
      BY <1>0, <3>1
    <3> QED
      BY <1>0, <2>1, <3>1, <3>2, SetLineKeeps
  <2> QED
    BY <2>2, <2>3
<1>7. CASE Complete
  <2>1. Completed \in Lines
    BY CompletedIsALine DEF LineIInv
  <2>2. SetLine(Completed) /\ UNCHANGED <<hist, pos, saved, ran>>
    BY <1>7 DEF Complete
  <2> QED
    BY <1>0, <2>1, <2>2, SetLineKeeps
<1>8. CASE UNCHANGED lineVars
  BY <1>8 DEF lineVars, LineIInv, LineTypeOK, ShownIsTheLine
<1> QED
  BY <1>1, <1>2, <1>3, <1>4, <1>5, <1>6, <1>7, <1>8 DEF LineNext

\* It is at the start.
LEMMA LineStart ==
  ASSUME LineInit
  PROVE  LineIInv
<1>1. <<>> \in Lines
  BY EmptyIsALine
<1>2. <<>> \in Seq(Lines) /\ Len(<<>>) = 0 /\ DOMAIN <<>> = {}
  OBVIOUS
<1>3. Masked(<<>>) = <<>>
  BY <1>2 DEF Masked
<1>4. <<>> \in Seq(Letters \cup {Space, Star})
  OBVIOUS
<1> QED
  BY <1>1, <1>2, <1>3, <1>4, CommandAssumption DEF LineInit, LineIInv, LineTypeOK, ShownIsTheLine

\* For any commands and any length of line and history: the terminal shows the line being
\* typed with its secret part as stars, and no secret line is remembered (TobeCli).
THEOREM LinesAreShown == LineSpec => []ShownIsTheLine
<1>1. LineInit => LineIInv
  BY LineStart
<1>2. LineIInv /\ [LineNext]_lineVars => LineIInv'
  BY LineStep
<1>3. LineIInv => ShownIsTheLine
  BY DEF LineIInv
<1> QED
  BY <1>1, <1>2, <1>3, PTL DEF LineSpec

-----------------------------------------------------------------------------
(* ConsoleLog: what the web page shows.                                      *)

\* A remainder, and what it is the remainder of.
LEMMA DivisionHolds ==
  ASSUME NEW S \in Nat \ {0}, NEW x \in Nat
  PROVE  x = S * (x \div S) + (x % S) /\ x \div S \in Nat /\ x % S \in 0..(S - 1)
<1>1. x = S * (x \div S) + (x % S)
  BY SMTT(60)
<1>2. x \div S \in Nat
  BY SMTT(60)
<1>3. x % S \in 0..(S - 1)
  BY SMTT(60)
<1> QED
  BY <1>1, <1>2, <1>3

\* Once round the ring.
LEMMA OnceRound ==
  ASSUME NEW S \in Nat \ {0}, NEW x \in Nat
  PROVE  (x + S) % S = x % S
<1> DEFINE q == x \div S
           r == x % S
<1>1. x = S * q + r /\ q \in Nat /\ r \in 0..(S - 1)
  BY DivisionHolds
<1>2. \A k \in Nat : (S * k + r) % S = r
  BY <1>1, SMTT(60)
<1> HIDE DEF q, r
<1>3. x + S = S * (q + 1) + r
  BY <1>1, SMTT(60)
<1>4. q + 1 \in Nat
  BY <1>1
<1>5. (x + S) % S = r
  BY <1>2, <1>3, <1>4
<1> QED
  BY <1>5 DEF r

\* Less than once round are different places.
LEMMA OtherPlaces ==
  ASSUME NEW S \in Nat \ {0}, NEW x \in Nat, NEW y \in Nat, x < y, y < x + S
  PROVE  x % S # y % S
<1> SUFFICES ASSUME x % S = y % S PROVE FALSE
  OBVIOUS
<1> DEFINE q == x \div S
           u == y \div S
           r == x % S
<1>1. x = S * q + r /\ q \in Nat /\ r \in 0..(S - 1)
  BY DivisionHolds
<1>2. y = S * u + r /\ u \in Nat
  BY DivisionHolds
<1> HIDE DEF q, u, r
<1>3. \A d \in Nat \ {0} : S * d >= S
  BY SMTT(60)
<1>4. CASE u <= q
  <2>1. S * u <= S * q
    BY <1>1, <1>2, <1>4, SMTT(60)
  <2>2. S * u \in Nat /\ S * q \in Nat
    BY <1>1, <1>2, SMTT(60)
  <2> QED
    BY <1>1, <1>2, <2>1, <2>2
<1>5. CASE u > q
  <2>1. u - q \in Nat \ {0}
    BY <1>1, <1>2, <1>5
  <2>2. S * u = S * q + S * (u - q)
    BY <1>1, <1>2, SMTT(60)
  <2>3. S * u \in Nat /\ S * q \in Nat /\ S * (u - q) \in Nat
    BY <1>1, <1>2, <2>1, SMTT(60)
  <2>4. S * (u - q) >= S
    BY <1>3, <2>1
  <2> QED
    BY <1>1, <1>2, <2>2, <2>3, <2>4
<1> QED
  BY <1>1, <1>2, <1>4, <1>5

\* Going on from a place on the ring.
LEMMA GoingOn ==
  ASSUME NEW S \in Nat \ {0}, NEW x \in Nat, NEW y \in Nat
  PROVE  ((x % S) + y) % S = (x + y) % S
<1> DEFINE q == x \div S
           r == x % S
           u == (r + y) \div S
           v == (r + y) % S
<1>1. x = S * q + r /\ q \in Nat /\ r \in 0..(S - 1)
  BY DivisionHolds
<1>2. r + y \in Nat
  BY <1>1
<1>3. r + y = S * u + v /\ u \in Nat /\ v \in 0..(S - 1)
  BY <1>2, DivisionHolds
<1>4. \A k \in Nat : (S * k + v) % S = v
  BY <1>3, SMTT(60)
<1> HIDE DEF q, r, u, v
<1>5. x + y = S * (q + u) + v
  BY <1>1, <1>3, SMTT(60)
<1>6. q + u \in Nat
  BY <1>1, <1>3
<1>7. (x + y) % S = v
  BY <1>4, <1>5, <1>6
<1> QED
  BY <1>7 DEF v, r

\* The newest bytes that were printed are on the ring, the oldest of them where the
\* newest ends.
Place(free, l, k) == ((free + (Size - l)) + (k - 1)) % Size

OnTheRing ==
    \A k \in 1..Len(tail) : tail[k] = console_ring[Place(console_at, Len(tail), k)]

RingTyped ==
    /\ console_ring \in [0..(Size - 1) -> Bytes \cup {""}] /\ console_at \in 0..(Size - 1)
    /\ wrapped \in BOOLEAN
    /\ tail \in Seq(Bytes) /\ Len(tail) = IF wrapped THEN Size ELSE console_at

TailInv == RingTyped /\ OnTheRing

\* The end of a sequence.
LEMMA NewestIs ==
  ASSUME NEW B, NEW s \in Seq(B), NEW n \in Nat
  PROVE  LET l == IF Len(s) > n THEN n ELSE Len(s) IN
         /\ NewestOf(s, n) \in Seq(B) /\ Len(NewestOf(s, n)) = l
         /\ \A k \in 1..l : NewestOf(s, n)[k] = s[(Len(s) - l) + k]
<1> DEFINE l == IF Len(s) > n THEN n ELSE Len(s)
           m == 1 + (IF Len(s) > n THEN Len(s) - n ELSE 0)
<1>1. Len(s) \in Nat /\ Len(s) \in Int
  BY LenProperties
<1>2. m \in Int /\ m = (Len(s) - l) + 1 /\ m \in 1..(Len(s) + 1) /\ l \in Nat
  BY <1>1
<1>3. NewestOf(s, n) = SubSeq(s, m, Len(s))
  BY DEF NewestOf
<1> HIDE DEF m
<1>4. \A i \in m..Len(s) : s[i] \in B
  BY <1>2, ElementOfSeq
<1>5. /\ SubSeq(s, m, Len(s)) \in Seq(B)
      /\ Len(SubSeq(s, m, Len(s))) = IF m <= Len(s) THEN Len(s) - m + 1 ELSE 0
      /\ \A i \in 1..(Len(s) - m + 1) : SubSeq(s, m, Len(s))[i] = s[m + i - 1]
  <2>1. m \in Int /\ Len(s) \in Int
    BY <1>1, <1>2
  <2> QED
    BY <2>1, <1>4, SubSeqProperties
<1>6. Len(NewestOf(s, n)) = l
  BY <1>1, <1>2, <1>3, <1>5
<1>7. ASSUME NEW k \in 1..l
      PROVE  NewestOf(s, n)[k] = s[(Len(s) - l) + k]
  <2>1. k \in 1..(Len(s) - m + 1) /\ m + k - 1 = (Len(s) - l) + k
    BY <1>1, <1>2
  <2> QED
    BY <1>3, <1>5, <2>1
<1> QED
  BY <1>3, <1>5, <1>6, <1>7

\* ringAdd() leaves the newest bytes on the ring, whatever was there and however long
\* the text is.
LEMMA RingAddKeeps ==
  ASSUME TailInv, NEW text \in Seq(Bytes), RingAdd(text)
  PROVE  TailInv'
<1> DEFINE a == console_at
           n == Len(text)
           l == Len(tail)
           T == tail \o text
           h == IF l + n > Size THEN Size ELSE l + n
<1>1. Size \in Nat \ {0} /\ a \in 0..(Size - 1) /\ n \in Nat /\ l \in Nat /\ l <= Size
      /\ wrapped \in BOOLEAN /\ l = IF wrapped THEN Size ELSE a
  <2>1. Size \in Nat \ {0}
    BY ConsoleAssumption
  <2>2. a \in 0..(Size - 1) /\ wrapped \in BOOLEAN /\ tail \in Seq(Bytes)
        /\ l = IF wrapped THEN Size ELSE a
    BY DEF TailInv, RingTyped
  <2>3. l \in Nat /\ n \in Nat
    BY <2>2, LenProperties
  <2> QED
    BY <2>1, <2>2, <2>3
<1>2. /\ console_ring' = [i \in DOMAIN console_ring |->
                 LET written == {j \in DOMAIN text : (console_at + j - 1) % Size = i}
                 IN IF written = {} THEN console_ring[i] ELSE text[CHOOSE j \in written : \A k \in written : j >= k]]
      /\ console_at' = (a + n) % Size
      /\ wrapped' = (wrapped \/ a + n >= Size)
      /\ tail' = NewestOf(T, Size)
  BY DEF RingAdd
<1>3. T \in Seq(Bytes) /\ Len(T) = l + n /\ (\A i \in 1..l : T[i] = tail[i])
      /\ (\A i \in 1..n : T[l + i] = text[i])
  <2>0. tail \in Seq(Bytes)
    BY DEF TailInv, RingTyped
  <2>1. /\ T \in Seq(Bytes) /\ Len(T) = l + n
        /\ \A i \in 1..(l + n) : T[i] = IF i <= l THEN tail[i] ELSE text[i - l]
    BY <2>0, ConcatProperties
  <2> HIDE DEF T
  <2>2. \A i \in 1..l : T[i] = tail[i]
    BY <1>1, <2>1
  <2>3. ASSUME NEW i \in 1..n PROVE T[l + i] = text[i]
    <3>1. l + i \in 1..(l + n) /\ ~(l + i <= l) /\ (l + i) - l = i
      BY <1>1
    <3> QED
      BY <2>1, <3>1
  <2> QED
    BY <2>1, <2>2, <2>3
<1> HIDE DEF T
<1>4. /\ tail' \in Seq(Bytes) /\ Len(tail') = h
      /\ \A k \in 1..h : tail'[k] = T[((l + n) - h) + k]
  <2>1. LET z == IF Len(T) > Size THEN Size ELSE Len(T) IN
        /\ NewestOf(T, Size) \in Seq(Bytes) /\ Len(NewestOf(T, Size)) = z
        /\ \A k \in 1..z : NewestOf(T, Size)[k] = T[(Len(T) - z) + k]
    BY <1>1, <1>3, NewestIs
  <2> HIDE DEF n, l
  <2> QED
    BY <1>2, <1>3, <2>1
<1>5. h \in Nat /\ h <= Size /\ h <= l + n /\ (h = Size \/ h = l + n)
      /\ (l + n >= Size => h = Size) /\ (l + n < Size => h = l + n)
  BY <1>1
<1> HIDE DEF a, n, l, h
<1>6. a + n \in Nat /\ console_at' \in 0..(Size - 1)
  BY <1>1, <1>2, DivisionHolds
<1>7. h = IF wrapped' THEN Size ELSE console_at'
  <2>1. CASE wrapped
    <3>1. l = Size
      BY <1>1, <2>1
    <3>2. wrapped'
      BY <1>2, <2>1
    <3> QED
      BY <1>1, <1>5, <3>1, <3>2
  <2>2. CASE ~wrapped
    <3>1. l = a
      BY <1>1, <2>2
    <3>2. CASE a + n >= Size
      <4>1. wrapped'
        BY <1>2, <3>2
      <4> QED
        BY <1>1, <1>5, <3>1, <3>2, <4>1
    <3>3. CASE a + n < Size
      <4>1. (a + n) % Size = a + n
        BY <1>1, <1>6, <3>3
      <4>2. ~wrapped'
        BY <1>1, <1>2, <1>6, <2>2, <3>3
      <4> QED
        BY <1>1, <1>2, <1>5, <3>1, <3>3, <4>1, <4>2
    <3> QED
      BY <1>1, <3>2, <3>3
  <2> QED
    BY <2>1, <2>2
<1>8. wrapped' \in BOOLEAN
  BY <1>2
<1> DEFINE W(i) == {j \in DOMAIN text : (a + j - 1) % Size = i}
<1>9. DOMAIN text = 1..n /\ \A j \in 1..n : text[j] \in Bytes
  BY LenProperties, ElementOfSeq DEF n
<1>10. /\ DOMAIN console_ring = 0..(Size - 1)
       /\ \A i \in 0..(Size - 1) : console_ring'[i] =
             IF W(i) = {} THEN console_ring[i] ELSE text[CHOOSE j \in W(i) : \A k \in W(i) : j >= k]
  <2>1. DOMAIN console_ring = 0..(Size - 1)
    BY DEF TailInv, RingTyped
  <2> QED
    BY <1>2, <2>1 DEF a
<1>11. ASSUME NEW k \in 1..h
       PROVE  LET p == Place(console_at', h, k) IN
              /\ p \in 0..(Size - 1)
              /\ ((l + n) - h) + k \in 1..(l + n)
              /\ tail'[k] = console_ring'[p]
  <2> DEFINE x == (Size - h) + (k - 1)
             p == Place(console_at', h, k)
             m == ((l + n) - h) + k
  <2>1. x \in Nat /\ m \in 1..(l + n)
    BY <1>1, <1>5
  <2>2. p = ((a + n) + x) % Size
    <3>1. (console_at' + (Size - h)) + (k - 1) = ((a + n) % Size) + x
      BY <1>1, <1>2, <1>5, <1>6
    <3>2. (((a + n) % Size) + x) % Size = ((a + n) + x) % Size
      BY <1>1, <1>6, <2>1, GoingOn
    <3> QED
      BY <3>1, <3>2 DEF Place
  <2>3. p \in 0..(Size - 1)
    <3>1. (a + n) + x \in Nat
      BY <1>6, <2>1
    <3> QED
      BY <1>1, <2>2, <3>1, DivisionHolds
  <2>4. tail'[k] = T[m]
    BY <1>4
  <2>5. CASE m > l
    <3> DEFINE j == m - l
    <3>1. j \in 1..n /\ T[m] = text[j]
      <4>1. j \in 1..n /\ l + j = m
        BY <1>1, <2>1, <2>5
      <4> QED
        BY <1>3, <4>1
    <3>2. a + j - 1 \in Nat /\ (a + n) + x = (a + j - 1) + Size
      BY <1>1, <1>5, <3>1
    <3>3. p = (a + j - 1) % Size
      BY <1>1, <2>2, <3>2, OnceRound
    <3>4. j \in W(p)
      BY <1>9, <3>1, <3>3
    <3>5. ASSUME NEW i \in W(p), i > j PROVE FALSE
      <4>1. i \in 1..n /\ (a + i - 1) % Size = p
        BY <1>9
      <4>2. a + i - 1 \in Nat /\ a + j - 1 < a + i - 1 /\ a + i - 1 < (a + j - 1) + Size
        BY <1>1, <1>5, <3>1, <3>2, <3>5, <4>1
      <4> QED
        BY <1>1, <3>2, <3>3, <4>1, <4>2, OtherPlaces
    <3>6. \A i \in W(p) : i \in 1..n
      BY <1>9
    <3> HIDE DEF W
    <3>7. \A i \in W(p) : j >= i
      BY <3>1, <3>5, <3>6
    <3>8. (CHOOSE i \in W(p) : \A z \in W(p) : i >= z) = j
      <4>1. \A i \in W(p) : (\A z \in W(p) : i >= z) => i = j
        BY <3>1, <3>4, <3>6, <3>7
      <4>2. (CHOOSE i \in W(p) : \A z \in W(p) : i >= z) \in W(p)
            /\ \A z \in W(p) : (CHOOSE i \in W(p) : \A y \in W(p) : i >= y) >= z
        BY <3>4, <3>7
      <4> QED
        BY <4>1, <4>2
    <3> QED
      BY <1>10, <2>1, <2>3, <2>4, <3>1, <3>4, <3>8
  <2>6. CASE m <= l
    <3> DEFINE y == (a + (Size - l)) + (m - 1)
    <3>1. m \in 1..l /\ T[m] = tail[m]
      BY <1>1, <1>3, <2>1, <2>6
    <3>2. y \in Nat /\ (a + n) + x = y
      BY <1>1, <1>5, <3>1
    <3>3. p = Place(a, l, m)
      BY <2>2, <3>2 DEF Place
    <3>4. tail[m] = console_ring[p]
      BY <3>1, <3>3 DEF TailInv, OnTheRing, a, l
    <3>5. ASSUME NEW j \in W(p) PROVE FALSE
      <4>1. j \in 1..n /\ (a + j - 1) % Size = p
        BY <1>9
      <4>2. a + j - 1 \in Nat /\ a + j - 1 < y /\ y < (a + j - 1) + Size
        <5>1. j \in 1..n /\ m <= l /\ m = ((l + n) - h) + k /\ k >= 1 /\ h <= Size
          BY <1>5, <3>1, <4>1
        <5>2. y = ((a + Size) - l) + (m - 1)
          BY <1>1, <3>1
        <5> HIDE DEF m, y
        <5>3. m \in 1..l
          BY <3>1
        <5> QED
          BY <1>1, <1>5, <5>1, <5>2, <5>3
      <4>3. p = y % Size
        BY <2>2, <3>2
      <4> QED
        BY <1>1, <3>2, <4>1, <4>2, <4>3, OtherPlaces
    <3>6. W(p) = {}
      BY <3>5
    <3> QED
      BY <1>10, <2>1, <2>3, <2>4, <3>1, <3>4, <3>6
  <2> QED
    BY <1>1, <2>1, <2>3, <2>5, <2>6
<1>12. OnTheRing'
  BY <1>4, <1>11 DEF OnTheRing
<1>13. console_ring' \in [0..(Size - 1) -> Bytes \cup {""}]
  <2>1. console_ring' = [i \in 0..(Size - 1) |-> console_ring'[i]]
    BY <1>2, <1>10
  <2>2. ASSUME NEW i \in 0..(Size - 1) PROVE console_ring'[i] \in Bytes \cup {""}
    <3>1. CASE W(i) = {}
      BY <1>10, <3>1 DEF TailInv, RingTyped
    <3>2. CASE W(i) # {}
      <4>1. W(i) \in SUBSET Nat /\ \A j \in W(i) : j \in 1..n /\ j <= n
        BY <1>1, <1>9
      <4>2. \E j \in W(i) : \A z \in W(i) : j >= z
        <5>1. \E j \in W(i) : \A z \in W(i) : z <= j
          BY <1>1, <3>2, <4>1, GreatestOfASet
        <5> HIDE DEF W
        <5> QED
          BY <4>1, <5>1
      <4>3. (CHOOSE j \in W(i) : \A z \in W(i) : j >= z) \in W(i)
        BY <4>2
      <4> HIDE DEF W
      <4> QED
        BY <1>9, <1>10, <3>2, <4>1, <4>3
    <3> QED
      BY <3>1, <3>2
  <2> QED
    BY <2>1, <2>2
<1> QED
  BY <1>4, <1>6, <1>7, <1>8, <1>12, <1>13 DEF TailInv, RingTyped

\* What the tasks have still to send of their texts.
Calls == [buf : Texts \cup {<<>>}, i : Nat, start : Nat, cr : BOOLEAN]

Sending(c) ==
    /\ c.buf \in Texts /\ c.i \in 1..(Len(c.buf) + 1) /\ c.start \in 1..c.i
    /\ c.cr => c.i <= Len(c.buf) /\ c.buf[c.i] = LF

ConsoleInv ==
    /\ TailInv
    /\ call \in [Tasks -> Calls]
    /\ \A t \in Tasks : call[t] # Idle => Sending(call[t])
    /\ last \in Bytes \cup {""} /\ wire \in Bytes \cup {""} /\ bare \in BOOLEAN

\* A text printed has at least one byte.
LEMMA TextsAre ==
  ASSUME NEW text \in Texts
  PROVE  /\ text \in Seq(Bytes) /\ Len(text) \in Nat \ {0} /\ text[Len(text)] \in Bytes
         /\ \A i \in 1..Len(text) : text[i] \in Bytes
<1>1. text \in Seq(Bytes) /\ text # <<>>
  BY ConsoleAssumption
<1>2. Len(text) \in Nat /\ \A i \in 1..Len(text) : text[i] \in Bytes
  BY <1>1, LenProperties, ElementOfSeq
<1>3. Len(text) # 0
  BY <1>1, EmptySeq
<1> QED
  BY <1>1, <1>2, <1>3

\* The last place of a sequence.
LEMMA LastPlace ==
  ASSUME NEW n \in Nat, n # 0
  PROVE  n \in 1..n
  OBVIOUS

\* CR is a byte the port can be sent.
LEMMA CrIsByte == CR \in Bytes /\ <<CR>> \in Seq(Bytes)
<1>1. \A S : CR \in S \cup {CR}
  OBVIOUS
<1>2. CR \in Bytes
  BY <1>1, Zenon DEF Bytes
<1> QED
  BY <1>2

\* A run of bytes sent.
LEMMA SendTyped ==
  ASSUME wire \in Bytes \cup {""}, bare \in BOOLEAN, NEW b \in Seq(Bytes), SendBytes(b)
  PROVE  wire' \in Bytes \cup {""} /\ bare' \in BOOLEAN
<1>1. CASE b = <<>>
  BY <1>1 DEF SendBytes
<1>2. CASE b # <<>>
  <2>1. Len(b) \in Nat /\ Len(b) # 0
    BY <1>2, LenProperties, EmptySeq
  <2>2. b[Len(b)] \in Bytes
    BY <2>1, LastPlace, ElementOfSeq
  <2>3. wire' = b[Len(b)]
    BY <1>2 DEF SendBytes
  <2>4. bare' = \/ bare
                \/ (b[1] = LF /\ wire # CR)
                \/ \E j \in 2..Len(b) : b[j] = LF /\ b[j - 1] # CR
    BY <1>2 DEF SendBytes
  <2>5. bare' \in BOOLEAN
    BY <2>4
  <2> QED
    BY <2>2, <2>3, <2>5
<1> QED
  BY <1>1, <1>2

\* Part of a text.
LEMMA PartIsBytes ==
  ASSUME NEW text \in Texts, NEW m \in Nat, NEW n \in Int, m >= 1, n <= Len(text)
  PROVE  SubSeq(text, m, n) \in Seq(Bytes)
<1>1. \A i \in m..n : text[i] \in Bytes
  BY TextsAre
<1>2. m \in Int
  OBVIOUS
<1> QED
  BY <1>1, <1>2, SubSeqProperties

\* A step of one task gives it a new call and leaves the others'.
LEMMA OneCalls ==
  ASSUME call \in [Tasks -> Calls], \A t \in Tasks : call[t] # Idle => Sending(call[t]),
         NEW t \in Tasks, NEW c \in Calls, c # Idle => Sending(c), call' = [call EXCEPT ![t] = c]
  PROVE  call' \in [Tasks -> Calls] /\ \A u \in Tasks : call'[u] # Idle => Sending(call'[u])
  OBVIOUS

\* write() keeps the ring and begins a call that is in its text.
LEMMA WriteCallStep ==
  ASSUME ConsoleInv, NEW t \in Tasks, NEW text \in Texts, WriteCall(t, text)
  PROVE  ConsoleInv'
<1>1. text \in Seq(Bytes) /\ Len(text) \in Nat \ {0} /\ text[Len(text)] \in Bytes
  BY TextsAre
<1>2. TailInv'
  <2>1. CASE RingAdd(text)
    BY <1>1, <2>1, RingAddKeeps DEF ConsoleInv
  <2>2. CASE UNCHANGED keptText
    BY <2>2 DEF keptText, ConsoleInv, TailInv, RingTyped, OnTheRing, Place
  <2> QED
    BY <2>1, <2>2 DEF WriteCall
<1>3. UNCHANGED <<wire, bare>>
  BY DEF WriteCall
<1> DEFINE c == [buf |-> text, i |-> 1, start |-> 1, cr |-> FALSE]
<1>4. \/ call' = [call EXCEPT ![t] = c] /\ UNCHANGED last
      \/ last' = text[Len(text)] /\ UNCHANGED call
  BY DEF WriteCall
<1>5. c \in Calls
  BY DEF Calls
<1>6. c.buf = text /\ c.i = 1 /\ c.start = 1 /\ ~c.cr
  OBVIOUS
<1> HIDE DEF c
<1>7. Sending(c)
  BY <1>1, <1>6 DEF Sending
<1>8. call' \in [Tasks -> Calls] /\ \A u \in Tasks : call'[u] # Idle => Sending(call'[u])
  BY <1>4, <1>5, <1>7, OneCalls DEF ConsoleInv
<1>9. last' \in Bytes \cup {""}
  BY <1>1, <1>4 DEF ConsoleInv
<1> QED
  BY <1>2, <1>3, <1>8, <1>9 DEF ConsoleInv

\* What a task sends of its text leaves the ring alone and keeps every call in its text.
LEMMA LookAtStep ==
  ASSUME ConsoleInv, NEW t \in Tasks, LookAt(t) \/ SendCr(t) \/ Rest(t)
  PROVE  ConsoleInv'
<1> DEFINE c == call[t]
<1>1. UNCHANGED <<console_ring, console_at, wrapped, tail>>
  BY DEF LookAt, SendCr, Rest, keptText
<1>2. TailInv'
  BY <1>1 DEF ConsoleInv, TailInv, RingTyped, OnTheRing, Place
<1>3. c \in Calls /\ call \in [Tasks -> Calls] /\ \A u \in Tasks : call[u] # Idle => Sending(call[u])
  BY DEF ConsoleInv
<1>4. c # Idle
  <2>1. ~Idle.cr
    BY DEF Idle
  <2> QED
    BY <2>1 DEF LookAt, SendCr, Rest
<1>5. /\ c.buf \in Texts /\ c.i \in 1..(Len(c.buf) + 1) /\ c.start \in 1..c.i
      /\ c.cr => c.i <= Len(c.buf) /\ c.buf[c.i] = LF
  BY <1>3, <1>4 DEF Sending
<1>6. Len(c.buf) \in Nat /\ \A i \in 1..Len(c.buf) : c.buf[i] \in Bytes
  BY <1>5, TextsAre
<1>7. SubSeq(c.buf, c.start, c.i - 1) \in Seq(Bytes) /\ SubSeq(c.buf, c.start, Len(c.buf)) \in Seq(Bytes)
  BY <1>5, <1>6, PartIsBytes
<1>8. wire \in Bytes \cup {""} /\ bare \in BOOLEAN /\ last \in Bytes \cup {""}
  BY DEF ConsoleInv
<1> DEFINE moved == [c EXCEPT !.i = c.i + 1]
<1>9. moved \in Calls /\ moved.buf = c.buf /\ moved.i = c.i + 1 /\ moved.start = c.start /\ moved.cr = c.cr
  BY <1>3, <1>5 DEF Calls
<1> HIDE DEF moved
<1>10. ASSUME LookAt(t), Bare(t)
       PROVE  ConsoleInv'
  <2>1. SendBytes(SubSeq(c.buf, c.start, c.i - 1)) /\ UNCHANGED last
        /\ call' = [call EXCEPT ![t].cr = TRUE, ![t].start = c.i]
    BY <1>10 DEF LookAt
  <2> DEFINE d == [c EXCEPT !.cr = TRUE, !.start = c.i]
  <2>2. d \in Calls /\ d.buf = c.buf /\ d.i = c.i /\ d.start = c.i /\ d.cr
    BY <1>3, <1>5 DEF Calls
  <2>3. call' = [call EXCEPT ![t] = d]
    BY <1>3, <2>1
  <2> HIDE DEF d
  <2>4. Sending(d)
    <3>1. c.i <= Len(c.buf) /\ c.buf[c.i] = LF
      BY <1>10 DEF LookAt, Bare
    <3>2. d.start \in 1..d.i
      BY <1>5, <1>6, <2>2
    <3> QED
      BY <1>5, <2>2, <3>1, <3>2 DEF Sending
  <2>5. call' \in [Tasks -> Calls] /\ \A u \in Tasks : call'[u] # Idle => Sending(call'[u])
    BY <1>3, <2>2, <2>3, <2>4, OneCalls
  <2>6. wire' \in Bytes \cup {""} /\ bare' \in BOOLEAN
    BY <1>7, <1>8, <2>1, SendTyped
  <2> QED
    BY <1>2, <1>8, <2>1, <2>5, <2>6 DEF ConsoleInv
<1>11. ASSUME LookAt(t), ~Bare(t)
       PROVE  ConsoleInv'
  <2>1. /\ c.i <= Len(c.buf) /\ ~c.cr /\ last' = c.buf[c.i] /\ UNCHANGED <<wire, bare>>
        /\ call' = [call EXCEPT ![t].i = @ + 1]
    BY <1>11 DEF LookAt
  <2>2. call' = [call EXCEPT ![t] = moved]
    BY <1>3, <2>1 DEF moved
  <2>3. Sending(moved)
    BY <1>5, <1>6, <1>9, <2>1 DEF Sending
  <2>4. call' \in [Tasks -> Calls] /\ \A u \in Tasks : call'[u] # Idle => Sending(call'[u])
    BY <1>3, <1>9, <2>2, <2>3, OneCalls
  <2>5. last' \in Bytes
    BY <1>5, <1>6, <2>1
  <2> QED
    BY <1>2, <1>8, <2>1, <2>4, <2>5 DEF ConsoleInv
<1>12. ASSUME SendCr(t)
       PROVE  ConsoleInv'
  <2>1. c.cr /\ SendBytes(<<CR>>) /\ last' = LF /\ call' = [call EXCEPT ![t].cr = FALSE, ![t].i = @ + 1]
    BY <1>12 DEF SendCr
  <2> DEFINE d == [c EXCEPT !.cr = FALSE, !.i = c.i + 1]
  <2>2. d \in Calls /\ d.buf = c.buf /\ d.i = c.i + 1 /\ d.start = c.start /\ ~d.cr
    <3>1. c.i + 1 \in Nat
      BY <1>5, <1>6
    <3>2. d \in Calls
      BY <1>3, <3>1 DEF Calls
    <3>3. d.buf = c.buf /\ d.i = c.i + 1 /\ d.start = c.start
      BY <1>3 DEF Calls
    <3>4. d.cr = FALSE
      BY <1>3 DEF Calls
    <3> QED
      BY <3>2, <3>3, <3>4
  <2>3. call' = [call EXCEPT ![t] = d]
    BY <1>3, <2>1
  <2> HIDE DEF d
  <2>4. Sending(d)
    BY <1>5, <1>6, <2>1, <2>2 DEF Sending
  <2>5. call' \in [Tasks -> Calls] /\ \A u \in Tasks : call'[u] # Idle => Sending(call'[u])
    BY <1>3, <2>2, <2>3, <2>4, OneCalls
  <2>7. <<CR>> \in Seq(Bytes)
    BY CrIsByte
  <2>8. wire' \in Bytes \cup {""} /\ bare' \in BOOLEAN
    BY <1>8, <2>1, <2>7, SendTyped
  <2>9. last' \in Bytes
    BY <1>5, <1>6, <2>1
  <2> QED
    BY <1>2, <2>5, <2>8, <2>9 DEF ConsoleInv
<1>13. ASSUME Rest(t)
       PROVE  ConsoleInv'
  <2>1. SendBytes(SubSeq(c.buf, c.start, Len(c.buf))) /\ call' = [call EXCEPT ![t] = Idle]
        /\ UNCHANGED last
    BY <1>13 DEF Rest
  <2>2. Idle \in Calls
    BY DEF Idle, Calls
  <2>3. call' \in [Tasks -> Calls] /\ \A u \in Tasks : call'[u] # Idle => Sending(call'[u])
    BY <1>3, <2>1, <2>2, OneCalls
  <2>4. wire' \in Bytes \cup {""} /\ bare' \in BOOLEAN
    BY <1>7, <1>8, <2>1, SendTyped
  <2> QED
    BY <1>2, <1>8, <2>1, <2>3, <2>4 DEF ConsoleInv
<1> QED
  BY <1>10, <1>11, <1>12, <1>13

\* So does every step of every task.
LEMMA ConsoleStep ==
  ASSUME ConsoleInv, [ConsoleNext]_consoleVars
  PROVE  ConsoleInv'
<1>1. CASE \E t \in Tasks : \/ \E text \in Texts : WriteCall(t, text)
                            \/ LookAt(t) \/ SendCr(t) \/ Rest(t)
  BY <1>1, WriteCallStep, LookAtStep
<1>2. CASE UNCHANGED <<keptText, last, call, wire, bare>>
  BY <1>2 DEF keptText, ConsoleInv, TailInv, RingTyped, OnTheRing, Place
<1> QED
  BY <1>1, <1>2 DEF ConsoleNext, SetCapture, consoleVars

\* Capture is on or off.
LEMMA CaptureStep ==
  ASSUME capture \in BOOLEAN, [ConsoleNext]_consoleVars
  PROVE  capture' \in BOOLEAN
<1>1. capture' = capture \/ capture' = ~capture
  BY DEF ConsoleNext, SetCapture, consoleVars
<1> QED
  BY <1>1, Zenon

\* The console as the program starts.
LEMMA ConsoleStart ==
  ASSUME ConsoleInit
  PROVE  ConsoleInv
<1>1. tail = <<>> /\ console_at = 0 /\ wrapped = FALSE /\ console_ring = [i \in 0..(Size - 1) |-> ""]
  BY DEF ConsoleInit
<1>2. tail \in Seq(Bytes) /\ Len(tail) = 0
  BY <1>1, EmptySeq
<1>3. console_at \in 0..(Size - 1) /\ Len(tail) = IF wrapped THEN Size ELSE console_at
  <2>1. Size \in Nat \ {0} /\ ~wrapped
    BY <1>1, ConsoleAssumption
  <2>2. \A S \in Nat \ {0} : 0 \in 0..(S - 1)
    OBVIOUS
  <2>3. console_at \in 0..(Size - 1)
    BY <1>1, <2>1, <2>2, Zenon
  <2>4. Len(tail) = console_at
    BY <1>1, <1>2, Zenon
  <2> QED
    BY <2>1, <2>3, <2>4, Zenon
<1>4. RingTyped
  BY <1>1, <1>2, <1>3 DEF RingTyped
<1>5. OnTheRing
  BY <1>2 DEF OnTheRing
<1>6. TailInv
  BY <1>4, <1>5 DEF TailInv
<1>7. Idle \in Calls
  BY DEF Idle, Calls
<1> QED
  BY <1>6, <1>7 DEF ConsoleInit, ConsoleInv

\* Types of the console, whatever the tasks print at the same time.
THEOREM ConsoleTypeCorrect == ConsoleSpec => []ConsoleTypeOK
<1>1. ConsoleInv /\ [ConsoleNext]_consoleVars => ConsoleInv'
  BY ConsoleStep
<1>3. capture \in BOOLEAN /\ [ConsoleNext]_consoleVars => (capture \in BOOLEAN)'
  BY CaptureStep
<1>4. ConsoleInit => capture \in BOOLEAN
  BY DEF ConsoleInit
<1>2. ConsoleInv /\ capture \in BOOLEAN => ConsoleTypeOK
  <2> SUFFICES ASSUME ConsoleInv, capture \in BOOLEAN PROVE ConsoleTypeOK
    OBVIOUS
  <2>1. Size \in Nat /\ console_at \in 0..(Size - 1) /\ wrapped \in BOOLEAN
        /\ Len(tail) = IF wrapped THEN Size ELSE console_at
    BY ConsoleAssumption DEF ConsoleInv, TailInv, RingTyped
  <2>2. Len(tail) <= Size
    BY <2>1
  <2> QED
    BY <2>2 DEF ConsoleTypeOK, ConsoleInv, TailInv, RingTyped, Sending
<1> QED
  BY <1>1, <1>2, <1>3, <1>4, ConsoleStart, PTL DEF ConsoleSpec

\* For any ring, any texts, however long, and any buffer of the reader: the web page is
\* given the newest of what was printed that fits, the oldest first (ringAdd, logCopy).
THEOREM PagesShowTheTail == ConsoleSpec => []PageIsTheTail
<1>1. ConsoleInv /\ [ConsoleNext]_consoleVars => ConsoleInv'
  BY ConsoleStep
<1>2. ConsoleInv => PageIsTheTail
  <2> SUFFICES ASSUME ConsoleInv, NEW cap \in 1..(Size + 2)
               PROVE  Copy(cap) = NewestOf(tail, cap - 1)
    BY DEF PageIsTheTail
  <2>1. Size \in Nat \ {0} /\ console_at \in 0..(Size - 1) /\ wrapped \in BOOLEAN
        /\ tail \in Seq(Bytes) /\ Len(tail) = IF wrapped THEN Size ELSE console_at
    BY ConsoleAssumption DEF ConsoleInv, TailInv, RingTyped
  <2>2. \A k \in 1..Len(tail) : tail[k] = console_ring[Place(console_at, Len(tail), k)]
    BY DEF ConsoleInv, TailInv, OnTheRing
  <2> DEFINE n == cap - 1
             l == IF Len(tail) > n THEN n ELSE Len(tail)
             N == NewestOf(tail, n)
  <2>3. n \in Nat /\ Len(tail) \in Nat /\ l \in Nat /\ l <= Len(tail)
    BY <2>1
  <2>4. N \in Seq(Bytes) /\ Len(N) = l /\ \A k \in 1..l : N[k] = tail[(Len(tail) - l) + k]
    BY <2>1, <2>3, NewestIs
  <2>5. N = [k \in 1..l |-> tail[(Len(tail) - l) + k]]
    <3>1. N = [k \in 1..l |-> N[k]]
      BY <2>4, LenProperties
    <3> HIDE DEF N, l
    <3> QED
      BY <2>4, <3>1
  <2>6. CASE wrapped
    <3>1. Len(tail) = Size
      BY <2>1, <2>6
    <3>2. Copy(cap) = [k \in 1..l |-> console_ring[(console_at + Size - l + k - 1) % Size]]
      <4>1. l = IF Size > cap - 1 THEN cap - 1 ELSE Size
        BY <3>1
      <4> HIDE DEF l
      <4> QED
        BY <2>6, <4>1 DEF Copy
    <3> HIDE DEF l
    <3>3. ASSUME NEW k \in 1..l
          PROVE  console_ring[(console_at + Size - l + k - 1) % Size] = tail[(Len(tail) - l) + k]
      <4> DEFINE m == (Len(tail) - l) + k
      <4>1. m \in 1..Len(tail)
        BY <2>3
      <4>2. (console_at + (Size - Len(tail))) + (m - 1) = console_at + Size - l + k - 1
        BY <2>1, <2>3, <3>1
      <4>3. tail[m] = console_ring[Place(console_at, Len(tail), m)]
        BY <2>2, <4>1
      <4> QED
        BY <4>2, <4>3 DEF Place
    <3> QED
      BY <2>5, <3>2, <3>3
  <2>7. CASE ~wrapped
    <3>1. Len(tail) = console_at
      BY <2>1, <2>7
    <3>2. Copy(cap) = [k \in 1..l |-> console_ring[console_at - l + k - 1]]
      <4>1. l = IF console_at > cap - 1 THEN cap - 1 ELSE console_at
        BY <3>1
      <4> HIDE DEF l
      <4> QED
        BY <2>7, <4>1 DEF Copy
    <3> HIDE DEF l
    <3>3. ASSUME NEW k \in 1..l
          PROVE  console_ring[console_at - l + k - 1] = tail[(Len(tail) - l) + k]
      <4> DEFINE m == (Len(tail) - l) + k
                 x == console_at - l + k - 1
      <4>1. m \in 1..Len(tail) /\ x \in Nat /\ x < Size
        BY <2>1, <2>3, <3>1
      <4>2. (console_at + (Size - Len(tail))) + (m - 1) = x + Size
        BY <2>1, <2>3, <3>1
      <4>3. (x + Size) % Size = x % Size
        BY <2>1, <4>1, OnceRound
      <4>4. x % Size = x
        BY <2>1, <4>1
      <4>5. tail[m] = console_ring[Place(console_at, Len(tail), m)]
        BY <2>2, <4>1
      <4> QED
        BY <4>2, <4>3, <4>4, <4>5 DEF Place
    <3> QED
      BY <2>5, <3>2, <3>3
  <2> QED
    BY <2>6, <2>7
<1> QED
  BY <1>1, <1>2, ConsoleStart, PTL DEF ConsoleSpec

-----------------------------------------------------------------------------
USE DEF finder, watch

-----------------------------------------------------------------------------
(* TagFinder: the button.                                                    *)

\* A press that is noted in a watch was made in it, and nothing is being printed
\* outside one.
WatchInv ==
  /\ pc \in {"clock", "scan", "match", "watch"} /\ back \in {"none", "scan", "match"}
  /\ note \in {"none", "stop", "press"} /\ printing \in {"none", "stop", "press"}
  /\ pc = "watch" => back \in {"scan", "match"}
  /\ pc = "watch" /\ note = "press" => pressed
  /\ printing = "press" => pressed
  /\ printing # "none" => pc = "watch"

\* Every step keeps what is noted in a watch true to it.
LEMMA WatchStep ==
  ASSUME WatchInv, [FinderNext]_finderVars
  PROVE  WatchInv'
<1>1. CASE UNCHANGED finderVars
  BY <1>1 DEF WatchInv, finderVars
<1>2. ASSUME NEW n \in {"stop", "press"}, FinderNotify(n)
      PROVE  WatchInv'
  <2>1. pressed' <=> pressed \/ n = "press"
    BY <1>2 DEF FinderNotify
  <2> QED
    BY <1>2, <2>1 DEF FinderNotify, WatchInv
<1>3. CASE Report
  <2>1. printing' = note /\ UNCHANGED <<pc, back, note, pressed>> /\ pc = "watch"
    BY <1>3 DEF Report
  <2>2. note \in {"none", "stop", "press"}
    BY DEF WatchInv
  <2> QED
    BY <2>1, <2>2 DEF WatchInv
<1>8. CASE Clear
  <2>1. printing' = "none" /\ note' = "none" /\ UNCHANGED <<pc, back>>
    BY <1>8 DEF Clear
  <2> QED
    BY <2>1 DEF WatchInv
<1>10. CASE WatchEnds
  <2>1. printing' = "none" /\ pc' = back /\ back' = back
    BY <1>10 DEF WatchEnds
  <2>2. note' \in {"none", note}
    BY <1>10 DEF WatchEnds
  <2>3. back \in {"scan", "match"}
    BY <1>10 DEF WatchInv, WatchEnds
  <2> QED
    BY <2>1, <2>2, <2>3 DEF WatchInv
<1>9. CASE GotTime \/ EndScan \/ PassDone
  <2>1. pc # "watch" /\ pc' \in {"scan", "match"}
    BY <1>9 DEF GotTime, EndScan, PassDone
  <2>2. UNCHANGED watch
    BY <1>9 DEF GotTime, EndScan, PassDone
  <2>3. back' \in {back, "none"}
    BY <1>9 DEF GotTime, EndScan, PassDone
  <2> QED
    BY <2>1, <2>2, <2>3 DEF WatchInv
<1>4. ASSUME NEW t \in Tags, Connects(t)
      PROVE  WatchInv'
  BY <1>4 DEF Connects, WatchInv
<1>5. CASE Match
  <2>1. back' = "none" /\ UNCHANGED <<pc, watch>> /\ pc = "match"
    BY <1>5 DEF Match
  <2> QED
    BY <2>1 DEF WatchInv
<1>6. ASSUME NEW t, Hear(t) \/ ResetTag(t)
      PROVE  WatchInv'
  BY <1>6 DEF Hear, ResetTag, WatchInv
<1>7. CASE HalfWindow
  BY <1>7 DEF HalfWindow, WatchInv
<1> QED
  BY <1>1, <1>2, <1>3, <1>4, <1>5, <1>6, <1>7, <1>8, <1>9, <1>10 DEF FinderNext, FinderLoop, Tags

\* "BUTTON PRESS DETECTED" is printed only of a press made in that very watch, for
\* any tags, clocks and queue (ring_tag, listen_only).
THEOREM PressesAreReal == FinderSpec => []PressIsReal
<1>1. FinderInit => WatchInv
  BY DEF FinderInit, WatchInv
<1>2. WatchInv => PressIsReal
  BY DEF WatchInv, PressIsReal
<1> QED
  BY <1>1, <1>2, WatchStep, PTL DEF FinderSpec

-----------------------------------------------------------------------------
(* MobScreen: the types, and what an alarm is about.                         *)

\* A set of naturals that is not empty has a least element, and MinOf is it.
LEMMA MinOfIsLeast ==
  ASSUME NEW S \in SUBSET Nat, S # {}
  PROVE  MinOf(S) \in S /\ \A n \in S : MinOf(S) <= n
<1> DEFINE R == OpToRel(<, Nat)
<1>1. IsWellFoundedOn(R, Nat)
  BY NatLessThanWellFounded, Zenon
<1>2. \A n \in Nat, m \in Nat : n < m => <<n, m>> \in R
  <2>1. SUFFICES ASSUME NEW n \in Nat, NEW m \in Nat, n < m
                 PROVE  <<n, m>> \in R
    BY Zenon
  <2>2. <<n, m>> \in Nat \X Nat
    BY Zenon
  <2> QED
    BY <2>1, <2>2, Zenon DEF OpToRel
<1> HIDE DEF R
<1>3. PICK m \in S : \A n \in S : ~ (<<n, m>> \in R)
  <2>1. \E m \in S : \A n \in S : ~ (<<n, m>> \in R)
    BY <1>1, WFMin, Zenon
  <2> QED
    BY <2>1, Zenon
<1>4. \A n \in S : ~ (n < m)
  BY <1>2, <1>3
<1>5. \A n \in S : m <= n
  BY <1>4
<1> QED
  BY <1>5 DEF MinOf

\* The settings' ranges are intervals: both ends are settings, and doubling stays in.
LEMMA RangeEnds ==
  ASSUME NEW R \in SUBSET Nat, NEW lo \in R, NEW hi \in R, R = lo..hi
  PROVE  /\ MinOf(R) = lo /\ MobMaxOf(R) = hi
         /\ \A n \in R : lo <= n /\ n <= hi
         /\ \A v \in R : Twice(v, R) \in R
<1>1. lo \in Nat /\ hi \in Nat /\ lo <= hi
  OBVIOUS
<1>2. \A n \in R : lo <= n /\ n <= hi
  OBVIOUS
<1>3. MinOf(R) = lo
  <2>1. MinOf(R) \in R /\ \A n \in R : MinOf(R) <= n
    BY MinOfIsLeast
  <2> QED
    BY <1>1, <1>2, <2>1
<1>4. MobMaxOf(R) = hi
  <2>1. MobMaxOf(R) \in R /\ \A n \in R : n <= MobMaxOf(R)
    BY <1>2 DEF MobMaxOf
  <2> QED
    BY <1>1, <1>2, <2>1
<1>5. ASSUME NEW v \in R
      PROVE  Twice(v, R) \in R
  <2>1. v \in Nat /\ lo <= 2 * v
    BY <1>1, <1>2
  <2>2. 2 * v < hi => 2 * v \in R
    BY <1>1, <2>1
  <2> QED
    BY <1>4, <2>2 DEF Twice
<1> QED
  BY <1>2, <1>3, <1>4, <1>5

\* The two ranges, and the bounds made of them.
LEMMA Ranges ==
  /\ MissingRange \in SUBSET Nat /\ ActionRange \in SUBSET Nat
  /\ MinOf(MissingRange) \in MissingRange /\ MinOf(ActionRange) \in ActionRange
  /\ \A n \in MissingRange : MinOf(MissingRange) <= n
  /\ \A v \in MissingRange : Twice(v, MissingRange) \in MissingRange
  /\ \A v \in ActionRange : Twice(v, ActionRange) \in ActionRange
  /\ MobMaxOf(ActionRange) \in Nat
  /\ Lasting \in Nat /\ MinOf(MissingRange) <= Lasting
  /\ Forever \in Nat /\ Hours \in Nat /\ Hours < Forever
<1>1. MissingRange \in SUBSET Nat /\ ActionRange \in SUBSET Nat
  BY MobAssumption
<1>2. PICK lo \in MissingRange, hi \in MissingRange : MissingRange = lo..hi
  BY MobAssumption
<1>3. PICK la \in ActionRange, ha \in ActionRange : ActionRange = la..ha
  BY MobAssumption
<1>4. /\ MinOf(MissingRange) = lo /\ MobMaxOf(MissingRange) = hi
      /\ \A n \in MissingRange : lo <= n /\ n <= hi
      /\ \A v \in MissingRange : Twice(v, MissingRange) \in MissingRange
  BY <1>1, <1>2, RangeEnds
<1>5. /\ MinOf(ActionRange) = la /\ MobMaxOf(ActionRange) = ha
      /\ \A v \in ActionRange : Twice(v, ActionRange) \in ActionRange
  BY <1>1, <1>3, RangeEnds
<1>6. lo \in Nat /\ hi \in Nat /\ lo <= hi /\ ha \in Nat
  BY <1>1, <1>2, <1>3
<1>7. Lasting = 2 * hi + 1
  BY <1>4 DEF Lasting
<1>8. Lasting \in Nat /\ lo <= Lasting
  BY <1>6, <1>7
<1>9. Forever \in Nat /\ Hours \in Nat /\ Hours < Forever
  BY MobAssumption DEF Forever
<1> QED
  BY <1>1, <1>4, <1>5, <1>6, <1>8, <1>9

KeptSet == [ssid : BOOLEAN, enrolled : [Eids -> {"no", "bare", "named"}], set : Timers]
SlotSet == [used : BOOLEAN, eid : Eids \cup {NoEid}, age : 0..Lasting, shown : 0..Lasting]
AlarmSet == [screen : Screens, trig : 0..NumSlots, since : 0..(MobMaxOf(ActionRange) + 1),
             forced : BOOLEAN, cause : Eids \cup {NoEid}]
Points(a) == a \in AlarmSet /\ (a.screen \in Alarm => a.trig \in MobSlots)
MobTyped == MobTypeOK /\ Points(alarm)

\* The types in the form the lemmas below use.
LEMMA MobTypes ==
  ASSUME MobTyped
  PROVE  /\ kept \in KeptSet /\ timers \in Timers /\ undoubled \in Timers /\ wifi \in BOOLEAN
         /\ tag \in [MobSlots -> SlotSet] /\ Points(alarm) /\ sel \in 0..NumSlots
         /\ off \in 0..Forever
  BY DEF MobTyped, MobTypeOK, KeptSet, SlotSet

LEMMA MobTypesBack ==
  ASSUME mob_pc' \in {"web", "ble", "touch", "portal"}, kept' \in KeptSet, timers' \in Timers,
         undoubled' \in Timers, wifi' \in BOOLEAN, tag' \in [MobSlots -> SlotSet], Points(alarm'),
         sel' \in 0..NumSlots, off' \in 0..Forever
  PROVE  MobTyped'
<1>1. alarm' \in AlarmSet
  BY DEF Points
<1> QED
  BY <1>1 DEF MobTyped, MobTypeOK, KeptSet, SlotSet, AlarmSet

\* The alarms the hub makes.
LEMMA AlarmsMade ==
  /\ Points(Resting) /\ Resting.screen \notin Alarm
  /\ \A a \in AlarmSet, s \in Screens \ Alarm : Points([a EXCEPT !.screen = s])
<1>1. 0 \in 0..NumSlots /\ 0 \in 0..(MobMaxOf(ActionRange) + 1)
  BY MobAssumption, Ranges
<1>2. Resting \in AlarmSet /\ Resting.screen \notin Alarm
  BY <1>1 DEF Resting, AlarmSet, Screens, Alarm, NoTag
<1>3. ASSUME NEW a \in AlarmSet, NEW s \in Screens \ Alarm
      PROVE  Points([a EXCEPT !.screen = s])
  <2> DEFINE b == [a EXCEPT !.screen = s]
  <2>1. b \in AlarmSet /\ b.screen = s
    BY DEF AlarmSet
  <2> QED
    BY <2>1 DEF Points
<1> QED
  BY <1>2, <1>3 DEF Points

\* A slot that is freed keeps its EID, and the others stay.
LEMMA FreedSlots ==
  ASSUME tag \in [MobSlots -> SlotSet], NEW S
  PROVE  /\ Freed(S) \in [MobSlots -> SlotSet]
         /\ \A s \in MobSlots : s \notin S => Freed(S)[s] = tag[s]
         /\ \A s \in S \cap MobSlots : Freed(S)[s].age = Lasting
<1>1. 0 \in 0..Lasting /\ Lasting \in 0..Lasting
  BY Ranges
<1>2. ASSUME NEW s \in MobSlots
      PROVE  [used |-> FALSE, eid |-> tag[s].eid, age |-> Lasting, shown |-> Lasting] \in SlotSet
  BY <1>1 DEF SlotSet
<1> QED
  BY <1>1, <1>2 DEF Freed

\* What enrolling writes.
LEMMA EnrollWrites ==
  ASSUME kept \in KeptSet, NEW e, NEW as \in {"no", "bare", "named"}, Enroll(e, as)
  PROVE  /\ kept' \in KeptSet
         /\ \A x \in Eids : kept'.enrolled[x] = IF x = e THEN as ELSE kept.enrolled[x]
<1>1. kept' = [kept EXCEPT !.enrolled = [x \in Eids |-> IF x = e THEN as ELSE kept.enrolled[x]]]
  BY DEF Enroll
<1>2. [x \in Eids |-> IF x = e THEN as ELSE kept.enrolled[x]] \in [Eids -> {"no", "bare", "named"}]
  BY DEF KeptSet
<1> QED
  BY <1>1, <1>2 DEF KeptSet

\* A boot.
LEMMA BootTyped ==
  ASSUME kept' \in KeptSet, Boot
  PROVE  MobTyped' /\ alarm' = Resting
<1> DEFINE E == {e \in Eids : kept'.enrolled[e] # "no"}
           n == IF Cardinality(E) < NumSlots THEN Cardinality(E) ELSE NumSlots
<1>1. kept'.set \in Timers
  BY DEF KeptSet
<1>2. n \in Nat
  <2>1. IsFiniteSet(E)
    <3>1. IsFiniteSet(Eids) /\ E \in SUBSET Eids
      BY MobAssumption
    <3> HIDE DEF E
    <3> QED
      BY <3>1, FS_Subset
  <2>2. Cardinality(E) \in Nat
    BY <2>1, FS_CardinalityType
  <2> QED
    BY <2>2, MobAssumption
<1>3. tag' \in [MobSlots -> SlotSet]
  <2>1. LoadTable(kept'.enrolled)
    BY DEF Boot
  <2> HIDE DEF n
  <2>2. PICK f \in [1..n -> E] :
          tag' = [s \in MobSlots |->
                    IF s <= n THEN [used |-> TRUE, eid |-> f[s], age |-> 0, shown |-> Lasting]
                    ELSE NeverUsed]
    BY <2>1 DEF LoadTable, n
  <2>3. 0 \in 0..Lasting /\ Lasting \in 0..Lasting
    BY Ranges
  <2>4. NeverUsed \in SlotSet
    BY <2>3 DEF NeverUsed, SlotSet
  <2>5. ASSUME NEW s \in MobSlots, s <= n
        PROVE  [used |-> TRUE, eid |-> f[s], age |-> 0, shown |-> Lasting] \in SlotSet
    <3>1. s \in 1..n
      BY <1>2, <2>5, MobAssumption DEF MobSlots
    <3>2. f[s] \in Eids
      BY <2>2, <3>1
    <3> QED
      BY <2>3, <3>2 DEF SlotSet
  <2> QED
    BY <2>2, <2>4, <2>5
<1>4. Points(alarm')
  BY AlarmsMade DEF Boot
<1>5. sel' \in 0..NumSlots /\ off' \in 0..Forever
  BY MobAssumption, Ranges DEF Boot, NoTag
<1>6. wifi' \in BOOLEAN
  BY Zenon DEF Boot
<1>7. mob_pc' = "web" /\ timers' \in Timers /\ undoubled' \in Timers /\ alarm' = Resting
  BY <1>1 DEF Boot
<1> QED
  BY <1>3, <1>4, <1>5, <1>6, <1>7, MobTypesBack

\* An alarm that is raised is about a tag that is trusted.
LEMMA RaisedPoints ==
  ASSUME tag \in [MobSlots -> SlotSet], Points(alarm), NEW s \in MobSlots, NEW t \in BOOLEAN
  PROVE  /\ Points(Raised(s, t))
         /\ \/ Raised(s, t) = alarm
            \/ /\ ~Disabled /\ Enrolled(tag[s].eid)
               /\ Raised(s, t) = [screen |-> "detected", trig |-> s, since |-> 0, forced |-> t,
                                  cause |-> tag[s].eid]
<1>1. CASE Disabled \/ ~Enrolled(tag[s].eid)
  BY <1>1 DEF Raised
<1>2. CASE ~(Disabled \/ ~Enrolled(tag[s].eid))
  <2> DEFINE a == [screen |-> "detected", trig |-> s, since |-> 0, forced |-> t, cause |-> tag[s].eid]
  <2>1. Raised(s, t) = a
    BY <1>2 DEF Raised
  <2>2. 0 \in 0..(MobMaxOf(ActionRange) + 1) /\ s \in 0..NumSlots
    BY MobAssumption, Ranges DEF MobSlots
  <2>3. tag[s].eid \in Eids \cup {NoEid}
    BY DEF SlotSet
  <2>4. a \in AlarmSet
    BY <2>2, <2>3 DEF AlarmSet, Screens, Alarm
  <2>5. a.screen \in Alarm /\ a.trig \in MobSlots
    BY DEF Alarm
  <2>6. Points(a)
    BY <2>4, <2>5 DEF Points
  <2> HIDE DEF a
  <2>7. ~Disabled /\ Enrolled(tag[s].eid)
    BY <1>2
  <2> QED
    BY <2>1, <2>6, <2>7 DEF a
<1> QED
  BY <1>1, <1>2

\* An alarm whose tag is un-enrolled from elsewhere is about no tag any more.
LEMMA DisownedPoints ==
  ASSUME Points(alarm), NEW E
  PROVE  /\ Points(Disowned(E))
         /\ Disowned(E).screen = alarm.screen /\ Disowned(E).trig = alarm.trig
         /\ Disowned(E).forced = alarm.forced
         /\ Disowned(E).cause = IF alarm.cause \in E THEN NoEid ELSE alarm.cause
<1>1. Disowned(E) = [alarm EXCEPT !.cause = IF alarm.cause \in E THEN NoEid ELSE alarm.cause]
  BY DEF Disowned
<1>2. alarm \in AlarmSet
  BY DEF Points
<1> DEFINE c == IF alarm.cause \in E THEN NoEid ELSE alarm.cause
<1>3. c \in Eids \cup {NoEid}
  BY <1>2 DEF AlarmSet
<1>4. Disowned(E) = [alarm EXCEPT !.cause = c]
  BY <1>1
<1> HIDE DEF c
<1>5. /\ Disowned(E) \in AlarmSet
      /\ Disowned(E).screen = alarm.screen /\ Disowned(E).trig = alarm.trig
      /\ Disowned(E).forced = alarm.forced /\ Disowned(E).cause = c
  BY <1>2, <1>3, <1>4 DEF AlarmSet
<1>6. Points(Disowned(E))
  BY <1>5 DEF Points
<1> QED
  BY <1>5, <1>6 DEF c

\* The time an alarm has gone on, and its stage, leave what it is about.
LEMMA AgedPoints ==
  ASSUME Points(alarm), NEW s \in Alarm, alarm.screen \in Alarm,
         NEW n \in 0..(MobMaxOf(ActionRange) + 1),
         alarm' = [alarm EXCEPT !.screen = s, !.since = n]
  PROVE  Points(alarm') /\ alarm'.screen \in Alarm /\ alarm'.trig = alarm.trig
         /\ alarm'.forced = alarm.forced /\ alarm'.cause = alarm.cause
<1>1. alarm \in AlarmSet /\ alarm.trig \in MobSlots
  BY DEF Points
<1>2. s \in Screens
  BY DEF Screens
<1>3. alarm' \in AlarmSet /\ alarm'.screen = s /\ alarm'.trig = alarm.trig
      /\ alarm'.forced = alarm.forced /\ alarm'.cause = alarm.cause
  BY <1>1, <1>2 DEF AlarmSet
<1> QED
  BY <1>1, <1>3 DEF Points

-----------------------------------------------------------------------------
(* What each step leaves of an alarm.                                        *)

\* The alarm that sounds stays as it is about its tag, from one state to the next.
LEMMA CauseKept ==
  ASSUME MobTyped, AlarmHasCause,
         alarm'.screen \in Alarm => alarm.screen \in Alarm,
         alarm'.trig = alarm.trig, alarm'.forced = alarm.forced,
         alarm'.cause \in {alarm.cause, NoEid},
         Points(alarm'),
         off' = off \/ off' = 0,
         alarm'.cause # NoEid =>
            /\ tag'[alarm.trig].eid = tag[alarm.trig].eid
            /\ tag'[alarm.trig].used = tag[alarm.trig].used
            /\ kept'.enrolled[alarm.cause] # "no",
         alarm.screen \in Alarm =>
            tag'[alarm.trig].age >= MinOf(MissingRange) \/ tag'[alarm.trig].age = tag[alarm.trig].age
  PROVE  AlarmHasCause'
<1> SUFFICES ASSUME alarm'.screen \in Alarm
             PROVE  /\ alarm'.trig \in MobSlots
                    /\ ~Disabled'
                    /\ alarm'.cause # NoEid =>
                          /\ tag'[alarm'.trig].eid = alarm'.cause /\ tag'[alarm'.trig].used
                          /\ Enrolled(alarm.cause)'
                    /\ alarm'.forced \/ tag'[alarm'.trig].age >= MinOf(MissingRange)
  BY DEF AlarmHasCause
<1>1. /\ alarm.screen \in Alarm /\ ~Disabled
      /\ alarm.cause # NoEid =>
            tag[alarm.trig].eid = alarm.cause /\ tag[alarm.trig].used /\ Enrolled(alarm.cause)
      /\ alarm.forced \/ tag[alarm.trig].age >= MinOf(MissingRange)
  BY DEF AlarmHasCause
<1>2. alarm'.trig \in MobSlots
  BY DEF Points
<1>3. ~Disabled'
  BY <1>1 DEF Disabled
<1>4. ASSUME alarm'.cause # NoEid
      PROVE  /\ tag'[alarm'.trig].eid = alarm'.cause /\ tag'[alarm'.trig].used
             /\ Enrolled(alarm.cause)'
  <2>1. alarm'.cause = alarm.cause /\ alarm.cause # NoEid
    BY <1>4
  <2>2. tag'[alarm.trig].eid = alarm.cause
    BY <1>1, <1>4, <2>1
  <2>3. tag'[alarm.trig].used = tag[alarm.trig].used
    BY <1>4
  <2>4. tag[alarm.trig].used
    BY <1>1, <2>1
  <2>5. tag'[alarm.trig].used
    BY <2>3, <2>4, Zenon
  <2>6. alarm.cause \in Eids /\ kept'.enrolled[alarm.cause] # "no"
    BY <1>1, <1>4, <2>1 DEF Enrolled
  <2>7. Enrolled(alarm.cause)'
    BY <2>1, <2>6 DEF Enrolled
  <2>8. tag'[alarm'.trig].used
    BY <2>5, Zenon
  <2> QED
    BY <2>1, <2>2, <2>7, <2>8
<1>5. alarm'.forced \/ tag'[alarm'.trig].age >= MinOf(MissingRange)
  <2>1. CASE alarm.forced
    BY <2>1, Zenon
  <2>2. CASE tag[alarm.trig].age >= MinOf(MissingRange)
    <3>1. tag'[alarm'.trig].age >= MinOf(MissingRange)
      BY <1>1, <2>2
    <3> QED
      BY <3>1, Zenon
  <2> QED
    BY <1>1, <2>1, <2>2, Zenon
<1> QED
  BY <1>2, <1>3, <1>4, <1>5, Zenon

\* What leaves the tags, the flash and the alarm alone leaves the alarm its cause.
LEMMA CauseStays ==
  ASSUME AlarmHasCause, UNCHANGED <<kept, tag, alarm, off>>
  PROVE  AlarmHasCause'
  BY DEF AlarmHasCause, Disabled, Enrolled

\* So does every step after which no alarm sounds.
LEMMA NoAlarmNoCause ==
  ASSUME alarm'.screen \notin Alarm
  PROVE  AlarmHasCause'
  BY DEF AlarmHasCause

-----------------------------------------------------------------------------
(* The steps keep the types.                                                 *)

MobRest == <<undoubled, wifi, sel, off>>

\* A step that leaves the settings, WiFi and the screen's rest alone.
LEMMA RestTyped ==
  ASSUME MobTyped, mob_pc' \in {"web", "ble", "touch", "portal"}, kept' \in KeptSet,
         timers' \in Timers, tag' \in [MobSlots -> SlotSet], Points(alarm'), UNCHANGED MobRest
  PROVE  MobTyped'
<1>1. undoubled' \in Timers /\ sel' \in 0..NumSlots /\ off' \in 0..Forever
  BY MobTypes DEF MobRest
<1>2. wifi' \in BOOLEAN
  <2>1. wifi \in BOOLEAN
    BY MobTypes
  <2> QED
    BY <2>1, Zenon DEF MobRest
<1> QED
  BY <1>1, <1>2, MobTypesBack

LEMMA KeptFields ==
  ASSUME kept \in KeptSet
  PROVE  /\ \A t \in Timers : [kept EXCEPT !.set = t] \in KeptSet
         /\ [kept EXCEPT !.ssid = TRUE] \in KeptSet
         /\ \A f \in [Eids -> {"no", "bare", "named"}] : [kept EXCEPT !.enrolled = f] \in KeptSet
  BY DEF KeptSet

LEMMA ServeTyped ==
  ASSUME MobTyped, Serve
  PROVE  MobTyped'
<1>1. /\ kept \in KeptSet /\ timers \in Timers /\ tag \in [MobSlots -> SlotSet] /\ Points(alarm)
  BY MobTypes
<1>2. kept' \in KeptSet /\ timers' \in Timers /\ tag' \in [MobSlots -> SlotSet] /\ Points(alarm')
  <2>1. CASE UNCHANGED <<kept, timers, tag, alarm>>
    BY <1>1, <2>1
  <2>2. CASE ForceTrigger
    <3>1. PICK s \in MobSlots : alarm' = Raised(s, TRUE)
      BY <2>2 DEF ForceTrigger
    <3>2. Points(Raised(s, TRUE))
      BY <1>1, RaisedPoints
    <3> QED
      BY <1>1, <2>2, <3>1, <3>2 DEF ForceTrigger
  <2>3. CASE ResetAll
    <3>1. [e \in Eids |-> "no"] \in [Eids -> {"no", "bare", "named"}]
      OBVIOUS
    <3>2. kept' \in KeptSet
      BY <1>1, <2>3, <3>1, KeptFields DEF ResetAll
    <3> QED
      BY <1>1, <2>3, <3>2, FreedSlots, DisownedPoints DEF ResetAll
  <2>4. CASE WebSave
    <3>1. PICK t \in Timers : timers' = t /\ kept' = [kept EXCEPT !.set = t]
      BY <2>4 DEF WebSave, Save
    <3> QED
      BY <1>1, <2>4, <3>1, KeptFields DEF WebSave
  <2>5. ASSUME NEW e \in Eids, WebName(e)
        PROVE  kept' \in KeptSet /\ timers' \in Timers /\ tag' \in [MobSlots -> SlotSet] /\ Points(alarm')
    <3>1. kept' \in KeptSet
      BY <1>1, <2>5, EnrollWrites DEF WebName
    <3> QED
      BY <1>1, <2>5, <3>1 DEF WebName
  <2>6. ASSUME NEW e \in Eids, WebToggle(e)
        PROVE  kept' \in KeptSet /\ timers' \in Timers /\ tag' \in [MobSlots -> SlotSet] /\ Points(alarm')
    <3>1. kept' \in KeptSet
      <4>1. (IF Enrolled(e) THEN "no" ELSE "bare") \in {"no", "bare", "named"}
        OBVIOUS
      <4> QED
        BY <1>1, <2>6, <4>1, EnrollWrites DEF WebToggle
    <3> QED
      BY <1>1, <2>6, <3>1, DisownedPoints DEF WebToggle
  <2>7. ASSUME NEW e \in Eids, WebRemove(e)
        PROVE  kept' \in KeptSet /\ timers' \in Timers /\ tag' \in [MobSlots -> SlotSet] /\ Points(alarm')
    <3>1. kept' \in KeptSet
      BY <1>1, <2>7, EnrollWrites DEF WebRemove
    <3> QED
      BY <1>1, <2>7, <3>1, FreedSlots, DisownedPoints DEF WebRemove
  <2> QED
    BY <2>1, <2>2, <2>3, <2>4, <2>5, <2>6, <2>7 DEF Serve
<1>3. mob_pc' \in {"web", "ble", "touch", "portal"} /\ UNCHANGED MobRest
  BY DEF Serve, MobRest
<1> QED
  BY <1>2, <1>3, RestTyped

LEMMA RecogniseTyped ==
  ASSUME MobTyped, NEW e \in Eids, Recognise(e)
  PROVE  MobTyped'
<1>1. /\ kept \in KeptSet /\ timers \in Timers /\ tag \in [MobSlots -> SlotSet] /\ Points(alarm)
  BY MobTypes
<1>2. PICK s : /\ tag' = [tag EXCEPT ![s] = [used |-> TRUE, eid |-> e, age |-> 0,
                                shown |-> IF s \in Holding(e) THEN tag[s].shown ELSE 0]]
               /\ alarm' = IF Clears(s) THEN Resting ELSE alarm
  BY DEF Recognise
<1>3. tag' \in [MobSlots -> SlotSet]
  <2> DEFINE r == [used |-> TRUE, eid |-> e, age |-> 0,
                   shown |-> IF s \in Holding(e) THEN tag[s].shown ELSE 0]
  <2>1. 0 \in 0..Lasting
    BY Ranges
  <2>2. s \in Holding(e) => tag[s].shown \in 0..Lasting
    BY <1>1 DEF Holding, SlotSet
  <2>3. r \in SlotSet
    BY <2>1, <2>2 DEF SlotSet
  <2>4. tag' = [tag EXCEPT ![s] = r]
    BY <1>2
  <2> HIDE DEF r
  <2> QED
    BY <1>1, <2>3, <2>4
<1>4. Points(alarm')
  BY <1>1, <1>2, AlarmsMade
<1>5. UNCHANGED <<mob_pc, kept, timers>> /\ UNCHANGED MobRest
  BY DEF Recognise, MobRest
<1>6. mob_pc' \in {"web", "ble", "touch", "portal"}
  BY <1>5 DEF MobTyped, MobTypeOK
<1> QED
  BY <1>1, <1>3, <1>4, <1>5, <1>6, RestTyped

\* The slot looked at is that of a trusted tag that has been silent for the threshold.
LEMMA GoneSlot ==
  ASSUME Gone # {}
  PROVE  MinOf(Gone) \in Gone
<1>1. Gone \in SUBSET Nat
  BY MobAssumption DEF Gone, MobSlots
<1> QED
  BY <1>1, MinOfIsLeast

\* Looking for missing tags raises an alarm for one of them, or changes two roles.
LEMMA MissedTyped ==
  ASSUME kept \in KeptSet, tag \in [MobSlots -> SlotSet], Points(alarm), Gone # {}, Missed
  PROVE  /\ kept' \in KeptSet /\ Points(alarm')
         /\ \/ alarm' = alarm
            \/ kept' = kept /\ alarm' = Raised(MinOf(Gone), FALSE)
<1> DEFINE s == MinOf(Gone)
           e == tag[s].eid
<1>1. s \in MobSlots
  BY GoneSlot DEF Gone
<1>2. CASE ~Named(e) /\ Candidates # {}
  <2>1. PICK c \in Candidates :
           kept' = [kept EXCEPT !.enrolled =
                      [x \in Eids |-> IF x = tag[c].eid THEN "bare" ELSE IF x = e THEN "no"
                                      ELSE kept.enrolled[x]]]
    BY <1>2 DEF Missed
  <2>2. [x \in Eids |-> IF x = tag[c].eid THEN "bare" ELSE IF x = e THEN "no" ELSE kept.enrolled[x]]
           \in [Eids -> {"no", "bare", "named"}]
    BY DEF KeptSet
  <2>3. kept' \in KeptSet
    BY <2>1, <2>2, KeptFields
  <2>4. alarm' = alarm
    BY <1>2 DEF Missed
  <2> QED
    BY <2>3, <2>4
<1>3. CASE ~(~Named(e) /\ Candidates # {})
  <2>1. alarm' = Raised(s, FALSE) /\ kept' = kept
    BY <1>3 DEF Missed
  <2>2. Points(Raised(s, FALSE))
    BY <1>1, RaisedPoints
  <2> QED
    BY <2>1, <2>2
<1> QED
  BY <1>2, <1>3

\* The second stage is about the same tag.
LEMMA EscalatedPoints ==
  ASSUME Points(alarm), alarm' = Escalated
  PROVE  /\ Points(alarm') /\ (alarm'.screen \in Alarm => alarm.screen \in Alarm)
         /\ alarm'.trig = alarm.trig /\ alarm'.forced = alarm.forced /\ alarm'.cause = alarm.cause
<1>1. CASE alarm.screen = "detected" /\ alarm.since >= timers.action
  <2>1. alarm' = [alarm EXCEPT !.screen = "actioned", !.since = 0]
    BY <1>1 DEF Escalated
  <2>2. alarm.screen \in Alarm /\ "actioned" \in Alarm /\ 0 \in 0..(MobMaxOf(ActionRange) + 1)
    BY <1>1, Ranges DEF Alarm
  <2> QED
    BY <2>1, <2>2, AgedPoints
<1>2. CASE ~(alarm.screen = "detected" /\ alarm.since >= timers.action)
  BY <1>2 DEF Escalated
<1> QED
  BY <1>1, <1>2

LEMMA WatchTyped ==
  ASSUME MobTyped, Watch
  PROVE  MobTyped'
<1>1. /\ kept \in KeptSet /\ timers \in Timers /\ tag \in [MobSlots -> SlotSet] /\ Points(alarm)
  BY MobTypes
<1>2. kept' \in KeptSet /\ Points(alarm')
  <2>1. CASE Looks
    BY <1>1, <2>1, MissedTyped DEF Watch, Looks
  <2>2. CASE ~Looks
    BY <1>1, <2>2, EscalatedPoints DEF Watch
  <2> QED
    BY <2>1, <2>2
<1>3. tag' \in [MobSlots -> SlotSet]
  BY <1>1, FreedSlots DEF Watch, Prune
<1>4. mob_pc' \in {"web", "ble", "touch", "portal"} /\ timers' = timers /\ UNCHANGED MobRest
  BY DEF Watch, MobRest
<1> QED
  BY <1>1, <1>2, <1>3, <1>4, RestTyped

\* A press that leads to another screen ends there.
LEMMA ShownPoints ==
  ASSUME Points(alarm), NEW s \in Screens \ Alarm, Shows(s)
  PROVE  Points(alarm') /\ alarm'.screen = s
<1>1. alarm \in AlarmSet /\ alarm' = [alarm EXCEPT !.screen = s]
  BY DEF Points, Shows
<1>2. alarm'.screen = s
  BY <1>1 DEF AlarmSet
<1> QED
  BY <1>1, <1>2, AlarmsMade

LEMMA DoubledTyped ==
  ASSUME timers \in Timers, Doubled
  PROVE  timers' \in Timers /\ undoubled' \in Timers
<1>1. timers.missing \in MissingRange /\ timers.action \in ActionRange
  BY DEF Timers
<1>2. Twice(timers.missing, MissingRange) \in MissingRange /\ Twice(timers.action, ActionRange) \in ActionRange
  BY <1>1, Ranges
<1> QED
  BY <1>2 DEF Doubled, Timers

\* No tap leaves an alarm on the screen, and every one keeps the types.
TapKeeps ==
  /\ kept' \in KeptSet /\ timers' \in Timers /\ undoubled' \in Timers /\ wifi' \in BOOLEAN
  /\ tag' \in [MobSlots -> SlotSet] /\ sel' \in 0..NumSlots /\ off' \in 0..Forever
  /\ Points(alarm') /\ alarm'.screen \notin Alarm

LEMMA TapListKeeps ==
  ASSUME MobTyped, TapList
  PROVE  TapKeeps
<1>1. /\ kept \in KeptSet /\ timers \in Timers /\ undoubled \in Timers /\ wifi \in BOOLEAN
      /\ tag \in [MobSlots -> SlotSet] /\ Points(alarm) /\ sel \in 0..NumSlots /\ off \in 0..Forever
  BY MobTypes
<1>2. UNCHANGED <<kept, timers, undoubled, wifi, tag>>
  BY DEF TapList
<1>3. sel' \in 0..NumSlots /\ off' \in 0..Forever
  <2>1. \A s \in MobSlots : s \in 0..NumSlots
    BY MobAssumption DEF MobSlots
  <2>2. 0 \in 0..Forever
    BY Ranges
  <2> QED
    BY <1>1, <2>1, <2>2 DEF TapList
<1>4. Points(alarm') /\ alarm'.screen \notin Alarm
  <2>1. {"settings", "disable", "confirm"} \subseteq Screens \ Alarm /\ "list" \notin Alarm
    BY DEF Screens, Alarm
  <2>2. CASE \E s \in {"settings", "disable", "confirm"} : Shows(s)
    BY <1>1, <2>1, <2>2, ShownPoints
  <2>3. CASE alarm' = alarm
    BY <1>1, <2>1, <2>3 DEF TapList
  <2> QED
    BY <2>2, <2>3 DEF TapList
<1>5. wifi' \in BOOLEAN
  BY <1>1, <1>2, Zenon
<1> QED
  BY <1>1, <1>2, <1>3, <1>4, <1>5 DEF TapKeeps

LEMMA TapSettingsKeeps ==
  ASSUME MobTyped, TapSettings
  PROVE  TapKeeps
<1>1. /\ kept \in KeptSet /\ timers \in Timers /\ undoubled \in Timers /\ wifi \in BOOLEAN
      /\ tag \in [MobSlots -> SlotSet] /\ Points(alarm) /\ sel \in 0..NumSlots /\ off \in 0..Forever
  BY MobTypes
<1>2. tag' = tag /\ sel' = sel /\ off' = off /\ alarm.screen = "settings"
  BY DEF TapSettings
<1>3. {"warning", "list"} \subseteq Screens \ Alarm /\ "settings" \notin Alarm
  BY DEF Screens, Alarm
<1>4. CASE (\E t \in Timers : Save(t)) /\ UNCHANGED <<undoubled, wifi, alarm>>
  <2>1. PICK t \in Timers : timers' = t /\ kept' = [kept EXCEPT !.set = t]
    BY <1>4 DEF Save
  <2>2. kept' \in KeptSet /\ timers' \in Timers
    BY <1>1, <2>1, KeptFields
  <2>3. wifi' \in BOOLEAN
    BY <1>1, <1>4, Zenon
  <2> QED
    BY <1>1, <1>2, <1>3, <1>4, <2>2, <2>3 DEF TapKeeps
<1>5. CASE wifi' = FALSE /\ timers' = undoubled /\ UNCHANGED <<kept, undoubled, alarm>>
  <2>1. wifi' \in BOOLEAN
    BY <1>5, Zenon
  <2> QED
    BY <1>1, <1>2, <1>3, <1>5, <2>1 DEF TapKeeps
<1>6. CASE (\E s \in {"warning", "list"} : Shows(s)) /\ UNCHANGED <<kept, timers, undoubled, wifi>>
  <2>1. Points(alarm') /\ alarm'.screen \notin Alarm
    BY <1>1, <1>3, <1>6, ShownPoints
  <2>2. wifi' \in BOOLEAN
    BY <1>1, <1>6, Zenon
  <2> QED
    BY <1>1, <1>2, <1>6, <2>1, <2>2 DEF TapKeeps
<1>7. \/ (\E t \in Timers : Save(t)) /\ UNCHANGED <<undoubled, wifi, alarm>>
      \/ wifi' = FALSE /\ timers' = undoubled /\ UNCHANGED <<kept, undoubled, alarm>>
      \/ (\E s \in {"warning", "list"} : Shows(s)) /\ UNCHANGED <<kept, timers, undoubled, wifi>>
  BY Zenon DEF TapSettings
<1> QED
  BY <1>4, <1>5, <1>6, <1>7

LEMMA TapTyped ==
  ASSUME MobTyped, TapDisable \/ Silence \/ TapConfirm \/ TapWarning
  PROVE  TapKeeps
<1>1. /\ kept \in KeptSet /\ timers \in Timers /\ undoubled \in Timers /\ wifi \in BOOLEAN
      /\ tag \in [MobSlots -> SlotSet] /\ Points(alarm) /\ sel \in 0..NumSlots /\ off \in 0..Forever
  BY MobTypes
<1>2. {"list", "settings"} \subseteq Screens \ Alarm
  BY DEF Screens, Alarm
<1>3. CASE TapDisable
  <2>1. Points(alarm') /\ alarm'.screen \notin Alarm
    BY <1>1, <1>2, <1>3, ShownPoints DEF TapDisable
  <2>2. off' \in 0..Forever
    BY <1>1, <1>3, Ranges DEF TapDisable
  <2>3. wifi' \in BOOLEAN
    BY <1>1, <1>3, Zenon DEF TapDisable
  <2> QED
    BY <1>1, <1>3, <2>1, <2>2, <2>3 DEF TapDisable, TapKeeps
<1>4. CASE Silence
  <2>1. kept' \in KeptSet
    BY <1>1, <1>4, EnrollWrites DEF Silence
  <2>2. wifi' \in BOOLEAN
    BY <1>1, <1>4, Zenon DEF Silence
  <2>3. Points(alarm') /\ alarm'.screen \notin Alarm
    BY <1>4, AlarmsMade DEF Silence
  <2> QED
    BY <1>1, <1>4, <2>1, <2>2, <2>3 DEF Silence, TapKeeps
<1>5. CASE TapConfirm
  <2> DEFINE e == tag[sel].eid
  <2>1. kept' \in KeptSet
    <3>1. (IF Enrolled(e) THEN "no" ELSE "bare") \in {"no", "bare", "named"}
      OBVIOUS
    <3>2. CASE Enroll(e, IF Enrolled(e) THEN "no" ELSE "bare")
      BY <1>1, <3>1, <3>2, EnrollWrites
    <3>3. CASE Enroll(e, "no")
      BY <1>1, <3>3, EnrollWrites
    <3>4. CASE kept' = kept
      BY <1>1, <3>4
    <3> QED
      BY <1>5, <3>2, <3>3, <3>4 DEF TapConfirm
  <2>2. tag' \in [MobSlots -> SlotSet]
    BY <1>1, <1>5, FreedSlots DEF TapConfirm
  <2>3. sel' \in 0..NumSlots
    BY <1>5, MobAssumption DEF TapConfirm, NoTag
  <2>4. wifi' \in BOOLEAN
    BY <1>1, <1>5, Zenon DEF TapConfirm
  <2>5. Points(alarm') /\ alarm'.screen \notin Alarm
    BY <1>5, AlarmsMade DEF TapConfirm
  <2>6. timers' = timers /\ undoubled' = undoubled /\ off' = off
    BY <1>5 DEF TapConfirm
  <2> QED
    BY <1>1, <2>1, <2>2, <2>3, <2>4, <2>5, <2>6 DEF TapKeeps
<1>6. CASE TapWarning
  <2>1. Points(alarm') /\ alarm'.screen \notin Alarm
    BY <1>1, <1>2, <1>6, ShownPoints DEF TapWarning
  <2>2. timers' \in Timers /\ undoubled' \in Timers
    BY <1>1, <1>6, DoubledTyped DEF TapWarning
  <2>3. wifi' \in BOOLEAN
    BY <1>1, <1>6, Zenon DEF TapWarning
  <2> QED
    BY <1>1, <1>6, <2>1, <2>2, <2>3 DEF TapWarning, TapKeeps
<1> QED
  BY <1>3, <1>4, <1>5, <1>6

LEMMA TapKeepsTypes ==
  ASSUME TapKeeps, mob_pc' \in {"web", "ble", "touch", "portal"}
  PROVE  MobTyped' /\ AlarmHasCause'
<1>1. MobTyped'
  BY MobTypesBack DEF TapKeeps
<1> QED
  BY <1>1, NoAlarmNoCause DEF TapKeeps

LEMMA PortalTyped ==
  ASSUME MobTyped, OpenPortal
  PROVE  TapKeeps /\ mob_pc' = "portal"
<1>1. /\ kept \in KeptSet /\ timers \in Timers /\ undoubled \in Timers /\ wifi \in BOOLEAN
      /\ tag \in [MobSlots -> SlotSet] /\ Points(alarm) /\ sel \in 0..NumSlots /\ off \in 0..Forever
  BY MobTypes
<1>2. "settings" \in Screens \ Alarm
  BY DEF Screens, Alarm
<1>3. Points(alarm') /\ alarm'.screen \notin Alarm
  BY <1>1, <1>2, ShownPoints DEF OpenPortal
<1>4. timers' \in Timers /\ undoubled' \in Timers
  BY <1>1, DoubledTyped DEF OpenPortal
<1>5. wifi' \in BOOLEAN
  BY <1>1, Zenon DEF OpenPortal
<1>6. kept' = kept /\ tag' = tag /\ sel' = sel /\ off' = off /\ mob_pc' = "portal"
  BY DEF OpenPortal
<1> QED
  BY <1>1, <1>3, <1>4, <1>5, <1>6 DEF TapKeeps

\* A second more: no age goes down, and an alarm goes on as it is.
LEMMA TickKeeps ==
  ASSUME MobTyped, Tick
  PROVE  /\ MobTyped'
         /\ \A s \in MobSlots : /\ tag'[s].eid = tag[s].eid /\ tag'[s].used = tag[s].used
                                /\ tag'[s].age >= tag[s].age
         /\ alarm'.screen = alarm.screen /\ alarm'.trig = alarm.trig
         /\ alarm'.forced = alarm.forced /\ alarm'.cause = alarm.cause
         /\ off = 0 => off' = 0
<1>1. /\ kept \in KeptSet /\ timers \in Timers /\ undoubled \in Timers /\ wifi \in BOOLEAN
      /\ tag \in [MobSlots -> SlotSet] /\ Points(alarm) /\ sel \in 0..NumSlots /\ off \in 0..Forever
  BY MobTypes
<1>2. ASSUME NEW s \in MobSlots
      PROVE  /\ tag'[s] \in SlotSet
             /\ tag'[s].eid = tag[s].eid /\ tag'[s].used = tag[s].used
             /\ tag'[s].age >= tag[s].age
  <2> DEFINE a == IF tag[s].age < Lasting THEN tag[s].age + 1 ELSE tag[s].age
             b == IF tag[s].shown < Lasting THEN tag[s].shown + 1 ELSE tag[s].shown
  <2>1. tag[s] \in SlotSet /\ tag[s].age \in 0..Lasting /\ tag[s].shown \in 0..Lasting /\ Lasting \in Nat
    BY <1>1, Ranges DEF SlotSet
  <2>2. a \in 0..Lasting /\ b \in 0..Lasting /\ a >= tag[s].age
    BY <2>1
  <2>3. CASE ~tag[s].used
    <3>1. tag'[s] = tag[s]
      BY <2>3 DEF Tick
    <3> QED
      BY <2>1, <3>1
  <2>4. CASE tag[s].used
    <3>1. tag'[s] = [tag[s] EXCEPT !.age = a, !.shown = b]
      BY <2>4 DEF Tick
    <3> HIDE DEF a, b
    <3>2. /\ tag'[s] \in SlotSet /\ tag'[s].eid = tag[s].eid /\ tag'[s].used = tag[s].used
          /\ tag'[s].age = a
      BY <2>1, <2>2, <3>1 DEF SlotSet
    <3> QED
      BY <2>2, <3>2
  <2> QED
    BY <2>3, <2>4
<1>3. tag' \in [MobSlots -> SlotSet]
  <2>1. tag' = [s \in MobSlots |-> tag'[s]]
    BY DEF Tick
  <2> QED
    BY <1>2, <2>1
<1>4. /\ Points(alarm')
      /\ alarm'.screen = alarm.screen /\ alarm'.trig = alarm.trig
      /\ alarm'.forced = alarm.forced /\ alarm'.cause = alarm.cause
  <2>1. CASE alarm.screen = "detected" /\ alarm.since <= MobMaxOf(ActionRange)
    <3> DEFINE n == alarm.since + 1
    <3>1. alarm \in AlarmSet /\ MobMaxOf(ActionRange) \in Nat
      BY <1>1, Ranges DEF Points
    <3>2. n \in 0..(MobMaxOf(ActionRange) + 1)
      BY <2>1, <3>1 DEF AlarmSet
    <3>3. alarm' = [alarm EXCEPT !.since = n]
      BY <2>1 DEF Tick
    <3> HIDE DEF n
    <3>4. /\ alarm' \in AlarmSet
          /\ alarm'.screen = alarm.screen /\ alarm'.trig = alarm.trig
          /\ alarm'.forced = alarm.forced /\ alarm'.cause = alarm.cause
      BY <3>1, <3>2, <3>3 DEF AlarmSet
    <3> QED
      BY <1>1, <3>4 DEF Points
  <2>2. CASE ~(alarm.screen = "detected" /\ alarm.since <= MobMaxOf(ActionRange))
    BY <1>1, <2>2 DEF Tick
  <2> QED
    BY <2>1, <2>2
<1>5. off' \in 0..Forever /\ (off = 0 => off' = 0)
  <2>1. off' = IF off \in 1..Hours THEN off - 1 ELSE off
    BY DEF Tick
  <2>2. off \in 0..Forever /\ Forever \in Nat /\ Hours \in Nat
    BY <1>1, Ranges
  <2>3. off \in 1..Hours => off - 1 \in 0..Forever /\ off # 0
    BY <2>2
  <2> QED
    BY <2>1, <2>2, <2>3
<1>6. kept' = kept /\ timers' = timers /\ undoubled' = undoubled /\ sel' = sel /\ mob_pc' = "ble"
  BY DEF Tick
<1>7. wifi' \in BOOLEAN
  BY <1>1, Zenon DEF Tick
<1>8. MobTyped'
  BY <1>1, <1>3, <1>4, <1>5, <1>6, <1>7, MobTypesBack
<1> QED
  BY <1>2, <1>4, <1>5, <1>8

-----------------------------------------------------------------------------
(* The steps leave an alarm its cause.                                       *)

LEMMA ServeCause ==
  ASSUME MobTyped, AlarmHasCause, Serve
  PROVE  AlarmHasCause'
<1>1. /\ kept \in KeptSet /\ tag \in [MobSlots -> SlotSet] /\ Points(alarm) /\ off' = off
      /\ alarm.cause \in Eids \cup {NoEid}
  BY MobTypes DEF Serve, Points, AlarmSet
<1>2. MobTyped'
  BY ServeTyped
<1>3. Points(alarm')
  BY <1>2, MobTypes DEF MobTyped
<1>4. alarm.screen \in Alarm => alarm.trig \in MobSlots
  BY <1>1 DEF Points
<1>5. /\ alarm.screen \in Alarm /\ alarm.cause # NoEid =>
            tag[alarm.trig].eid = alarm.cause /\ kept.enrolled[alarm.cause] # "no"
      /\ alarm.screen \in Alarm /\ alarm.cause # NoEid => alarm.cause \in Eids
  BY DEF AlarmHasCause, Enrolled
<1>6. CASE UNCHANGED <<kept, timers, tag, alarm>>
  BY <1>1, <1>6, CauseStays
<1>7. CASE ForceTrigger
  <2>1. PICK s \in MobSlots : tag[s].used /\ alarm' = Raised(s, TRUE)
    BY <1>7 DEF ForceTrigger
  <2>2. kept' = kept /\ tag' = tag
    BY <1>7 DEF ForceTrigger
  <2>3. CASE alarm' = alarm
    BY <1>1, <2>2, <2>3, CauseStays
  <2>4. CASE /\ ~Disabled /\ Enrolled(tag[s].eid)
             /\ alarm' = [screen |-> "detected", trig |-> s, since |-> 0, forced |-> TRUE,
                          cause |-> tag[s].eid]
    <3>1. alarm'.trig = s /\ alarm'.cause = tag[s].eid /\ alarm'.forced
      BY <2>4
    <3>2. ~Disabled' /\ Enrolled(tag[s].eid)' /\ tag'[s].eid = tag[s].eid
      BY <1>1, <2>2, <2>4 DEF Disabled, Enrolled
    <3>3. tag'[s].used
      BY <2>1, <2>2, Zenon
    <3> QED
      BY <2>2, <3>1, <3>2, <3>3, Zenon DEF AlarmHasCause
  <2> QED
    BY <1>1, <2>1, <2>3, <2>4, RaisedPoints
<1>8. CASE ResetAll
  <2>1. alarm' = Disowned(Eids) /\ tag' = Freed(MobSlots)
    BY <1>8 DEF ResetAll
  <2>2. alarm'.cause = NoEid /\ alarm'.screen = alarm.screen /\ alarm'.trig = alarm.trig
        /\ alarm'.forced = alarm.forced
    BY <1>1, <2>1, DisownedPoints
  <2>3. alarm.screen \in Alarm => tag'[alarm.trig].age >= MinOf(MissingRange)
    <3>1. alarm.screen \in Alarm => tag'[alarm.trig].age = Lasting
      BY <1>1, <1>4, <2>1, FreedSlots
    <3> QED
      BY <3>1, Ranges
  <2> QED
    BY <1>1, <1>3, <2>2, <2>3, CauseKept
<1>9. CASE wifi /\ WebSave
  <2>1. tag' = tag /\ alarm' = alarm
    BY <1>9 DEF WebSave
  <2>2. kept'.enrolled = kept.enrolled
    BY <1>1, <1>9 DEF WebSave, Save, KeptSet
  <2> QED
    BY <1>1, <2>1, <2>2 DEF AlarmHasCause, Disabled, Enrolled
<1>10. ASSUME NEW e \in Eids, WebName(e)
       PROVE  AlarmHasCause'
  <2>1. tag' = tag /\ alarm' = alarm
    BY <1>10 DEF WebName
  <2>2. PICK as \in {"bare", "named"} : Enroll(e, as)
    BY <1>10 DEF WebName
  <2>3. \A x \in Eids : kept'.enrolled[x] = IF x = e THEN as ELSE kept.enrolled[x]
    BY <1>1, <2>2, EnrollWrites
  <2>4. alarm.screen \in Alarm /\ alarm.cause # NoEid => kept'.enrolled[alarm.cause] # "no"
    BY <1>5, <2>2, <2>3
  <2> QED
    BY <1>1, <1>3, <2>1, <2>4 DEF AlarmHasCause, Disabled, Enrolled
<1>11. ASSUME NEW e \in Eids, WebToggle(e) \/ WebRemove(e)
       PROVE  AlarmHasCause'
  <2>1. alarm' = Disowned({e})
    BY <1>11 DEF WebToggle, WebRemove
  <2>2. alarm'.screen = alarm.screen /\ alarm'.trig = alarm.trig /\ alarm'.forced = alarm.forced
        /\ alarm'.cause = IF alarm.cause = e THEN NoEid ELSE alarm.cause
    BY <1>1, <2>1, DisownedPoints
  <2>3. \A x \in Eids \ {e} : kept'.enrolled[x] = kept.enrolled[x]
    <3>1. PICK as \in {"no", "bare"} : Enroll(e, as)
      BY <1>11 DEF WebToggle, WebRemove
    <3> QED
      BY <1>1, <3>1, EnrollWrites
  <2>4. tag' = tag \/ tag' = Freed(Holding(e))
    BY <1>11 DEF WebToggle, WebRemove
  <2>5. CASE alarm.screen \notin Alarm
    BY <2>2, <2>5, NoAlarmNoCause
  <2>6. CASE alarm.screen \in Alarm
    <3>1. alarm'.cause # NoEid =>
            /\ tag'[alarm.trig] = tag[alarm.trig] /\ kept'.enrolled[alarm.cause] # "no"
      <4> SUFFICES ASSUME alarm'.cause # NoEid
                   PROVE  /\ tag'[alarm.trig] = tag[alarm.trig] /\ kept'.enrolled[alarm.cause] # "no"
        OBVIOUS
      <4>1. alarm.cause # e /\ alarm.cause # NoEid
        BY <2>2
      <4>2. tag[alarm.trig].eid = alarm.cause /\ kept.enrolled[alarm.cause] # "no" /\ alarm.cause \in Eids
        BY <1>5, <2>6, <4>1
      <4>3. alarm.trig \notin Holding(e)
        BY <4>1, <4>2 DEF Holding
      <4> QED
        BY <1>1, <1>4, <2>3, <2>4, <2>6, <4>1, <4>2, <4>3, FreedSlots
    <3>2. tag'[alarm.trig].age >= MinOf(MissingRange) \/ tag'[alarm.trig].age = tag[alarm.trig].age
      <4>1. \/ tag'[alarm.trig] = tag[alarm.trig]
            \/ tag'[alarm.trig].age = Lasting
        BY <1>1, <1>4, <2>4, <2>6, FreedSlots
      <4> QED
        BY <4>1, Ranges
    <3>3. alarm'.cause \in {alarm.cause, NoEid}
      BY <2>2
    <3> QED
      BY <1>1, <1>3, <2>2, <2>6, <3>1, <3>2, <3>3, CauseKept
  <2> QED
    BY <2>5, <2>6
<1> QED
  BY <1>6, <1>7, <1>8, <1>9, <1>10, <1>11 DEF Serve

LEMMA RecogniseCause ==
  ASSUME MobTyped, AlarmHasCause, NEW e \in Eids, Recognise(e)
  PROVE  AlarmHasCause'
<1>1. PICK s : /\ tag' = [tag EXCEPT ![s] = [used |-> TRUE, eid |-> e, age |-> 0,
                                shown |-> IF s \in Holding(e) THEN tag[s].shown ELSE 0]]
               /\ alarm' = IF Clears(s) THEN Resting ELSE alarm
  BY DEF Recognise
<1>2. kept' = kept /\ off' = off
  BY DEF Recognise
<1>3. CASE Clears(s)
  BY <1>1, <1>3, AlarmsMade, NoAlarmNoCause
<1>4. CASE ~Clears(s) /\ alarm.screen \in Alarm
  <2>1. alarm' = alarm /\ alarm.trig # s /\ alarm.trig \in MobSlots
    BY <1>1, <1>4 DEF Clears, AlarmHasCause
  <2>2. tag'[alarm.trig] = tag[alarm.trig]
    BY <1>1, <2>1, MobTypes
  <2> QED
    BY <1>2, <2>1, <2>2 DEF AlarmHasCause, Disabled, Enrolled
<1>5. CASE ~Clears(s) /\ alarm.screen \notin Alarm
  BY <1>1, <1>5, NoAlarmNoCause
<1> QED
  BY <1>3, <1>4, <1>5

LEMMA WatchCause ==
  ASSUME MobTyped, AlarmHasCause, Watch
  PROVE  AlarmHasCause'
<1>1. /\ kept \in KeptSet /\ timers \in Timers /\ tag \in [MobSlots -> SlotSet] /\ Points(alarm)
      /\ off' = off
  BY MobTypes DEF Watch
<1>2. PICK S \in SUBSET {s \in MobSlots : /\ tag[s].used /\ tag[s].age = Lasting
                                       /\ tag[s].eid \in Eids /\ kept'.enrolled[tag[s].eid] = "no"} :
        tag' = Freed(S)
  BY DEF Watch, Prune
<1>3. \A s \in MobSlots : tag'[s] = tag[s] \/ (tag'[s].age = Lasting /\ s \in S)
  BY <1>1, <1>2, FreedSlots
<1>4. \A s \in S : tag[s].eid \in Eids /\ kept'.enrolled[tag[s].eid] = "no"
  BY <1>2
<1>5. CASE Looks
  <2>1. /\ alarm.screen \notin Alarm /\ ~Disabled /\ Gone # {}
    BY <1>5 DEF Looks, Alarm
  <2>2. \/ alarm' = alarm
        \/ kept' = kept /\ alarm' = Raised(MinOf(Gone), FALSE)
    BY <1>1, <1>5, <2>1, MissedTyped DEF Watch
  <2>3. CASE alarm' = alarm
    BY <2>1, <2>3, NoAlarmNoCause
  <2>4. CASE kept' = kept /\ alarm' = Raised(MinOf(Gone), FALSE) /\ alarm' # alarm
    <3> PICK s \in MobSlots : s = MinOf(Gone) /\ s \in Gone
      BY <2>1, GoneSlot DEF Gone
    <3>1. s \in MobSlots /\ Enrolled(tag[s].eid) /\ tag[s].age >= timers.missing
      BY DEF Gone
    <3>2. tag[s].used
      BY DEF Gone
    <3>3. s \notin S
      BY <1>4, <2>4, <3>1 DEF Enrolled
    <3>4. tag'[s] = tag[s]
      BY <1>3, <3>1, <3>3
    <3>5. tag[s].age >= MinOf(MissingRange)
      <4>1. tag[s].age \in Nat /\ timers.missing \in MissingRange /\ timers.missing \in Nat
        <5>1. tag[s] \in SlotSet
          BY <1>1
        <5>2. tag[s].age \in 0..Lasting
          BY <5>1 DEF SlotSet
        <5>3. timers.missing \in MissingRange
          BY <1>1 DEF Timers
        <5>4. Lasting \in Nat /\ MissingRange \in SUBSET Nat
          BY Ranges
        <5>5. tag[s].age \in Nat
          BY <5>2, <5>4
        <5>6. timers.missing \in Nat
          BY <5>3, <5>4
        <5> QED
          BY <5>3, <5>5, <5>6
      <4>2. MinOf(MissingRange) <= timers.missing /\ MinOf(MissingRange) \in Nat
        BY <4>1, Ranges
      <4> QED
        BY <3>1, <4>1, <4>2
    <3>6. alarm' = [screen |-> "detected", trig |-> s, since |-> 0, forced |-> FALSE, cause |-> tag[s].eid]
      BY <1>1, <2>4, <3>1, RaisedPoints
    <3>7. alarm'.trig = s /\ alarm'.cause = tag[s].eid
      BY <3>6
    <3>8. /\ ~Disabled' /\ Enrolled(alarm.cause)'
          /\ tag'[s].eid = tag[s].eid /\ tag'[s].age >= MinOf(MissingRange)
      <4>1. ~Disabled'
        BY <1>1, <2>1 DEF Disabled
      <4>2. Enrolled(alarm.cause)'
        BY <2>4, <3>1, <3>7 DEF Enrolled
      <4> QED
        BY <3>4, <3>5, <4>1, <4>2
    <3>9. tag'[s].used
      BY <3>2, <3>4, Zenon
    <3>10. tag'[alarm'.trig].used /\ tag'[alarm'.trig].eid = alarm'.cause
      BY <3>4, <3>7, <3>9
    <3> QED
      BY <3>7, <3>8, <3>10 DEF AlarmHasCause
  <2> QED
    BY <2>2, <2>3, <2>4
<1>6. CASE ~Looks
  <2>1. /\ kept' = kept /\ Points(alarm') /\ (alarm'.screen \in Alarm => alarm.screen \in Alarm)
        /\ alarm'.trig = alarm.trig /\ alarm'.forced = alarm.forced /\ alarm'.cause = alarm.cause
    BY <1>1, <1>6, EscalatedPoints DEF Watch
  <2>2. CASE alarm.screen \notin Alarm
    BY <2>1, <2>2, NoAlarmNoCause
  <2>3. CASE alarm.screen \in Alarm
    <3>1. alarm.trig \in MobSlots
      BY <2>3 DEF AlarmHasCause
    <3>2. alarm'.cause # NoEid =>
            tag'[alarm.trig] = tag[alarm.trig] /\ kept'.enrolled[alarm.cause] # "no"
      <4>1. alarm.cause # NoEid => tag[alarm.trig].eid = alarm.cause /\ kept'.enrolled[alarm.cause] # "no"
        BY <2>1, <2>3 DEF AlarmHasCause, Enrolled
      <4>2. alarm.cause # NoEid => alarm.trig \notin S
        BY <1>4, <4>1
      <4> QED
        BY <1>3, <2>1, <3>1, <4>1, <4>2
    <3>3. tag'[alarm.trig].age >= MinOf(MissingRange) \/ tag'[alarm.trig].age = tag[alarm.trig].age
      <4>1. tag'[alarm.trig] = tag[alarm.trig] \/ tag'[alarm.trig].age = Lasting
        BY <1>3, <3>1
      <4> QED
        BY <4>1, Ranges
    <3>4. alarm'.cause \in {alarm.cause, NoEid}
      BY <2>1
    <3> QED
      BY <1>1, <2>1, <2>3, <3>2, <3>3, <3>4, CauseKept
  <2> QED
    BY <2>2, <2>3
<1> QED
  BY <1>5, <1>6

LEMMA TickCause ==
  ASSUME MobTyped, AlarmHasCause, Tick
  PROVE  AlarmHasCause'
<1>1. /\ \A s \in MobSlots : /\ tag'[s].eid = tag[s].eid /\ tag'[s].used = tag[s].used
                              /\ tag'[s].age >= tag[s].age
      /\ alarm'.screen = alarm.screen /\ alarm'.trig = alarm.trig
      /\ alarm'.forced = alarm.forced /\ alarm'.cause = alarm.cause
      /\ off = 0 => off' = 0
  BY TickKeeps
<1>2. MobTyped' /\ kept' = kept
  BY TickKeeps DEF Tick
<1>3. CASE alarm.screen \notin Alarm
  BY <1>1, <1>3, NoAlarmNoCause
<1>4. CASE alarm.screen \in Alarm
  <2>1. alarm.trig \in MobSlots /\ off = 0
    BY <1>4 DEF AlarmHasCause, Disabled
  <2>2. Points(alarm') /\ off' = off
    BY <1>1, <1>2, <2>1, MobTypes DEF MobTyped
  <2>3. alarm.cause # NoEid => kept'.enrolled[alarm.cause] # "no"
    BY <1>2, <1>4 DEF AlarmHasCause, Enrolled
  <2>4. CASE alarm.forced
    <3>1. alarm'.forced
      BY <1>1, <2>4, Zenon
    <3>2. alarm'.trig \in MobSlots /\ ~Disabled'
      BY <1>1, <2>1 DEF Disabled
    <3>3. alarm'.cause # NoEid => tag'[alarm'.trig].eid = alarm'.cause /\ Enrolled(alarm.cause)'
      BY <1>1, <1>2, <1>4, <2>1 DEF AlarmHasCause, Enrolled
    <3>4. alarm'.cause # NoEid => tag'[alarm'.trig].used
      <4>1. alarm'.cause # NoEid => tag[alarm.trig].used
        BY <1>1, <1>4 DEF AlarmHasCause
      <4>2. tag'[alarm'.trig].used = tag[alarm.trig].used
        BY <1>1, <2>1
      <4> QED
        BY <4>1, <4>2, Zenon
    <3>5. alarm'.cause = alarm.cause
      BY <1>1
    <3> QED
      BY <3>1, <3>2, <3>3, <3>4, <3>5 DEF AlarmHasCause
  <2>5. CASE ~alarm.forced
    <3>1. tag[alarm.trig].age >= MinOf(MissingRange)
      BY <1>4, <2>5, Zenon DEF AlarmHasCause
    <3>2. tag[alarm.trig].age \in Nat /\ tag'[alarm.trig].age \in Nat
      <4>1. tag \in [MobSlots -> SlotSet] /\ tag' \in [MobSlots -> SlotSet]
        BY <1>2, MobTypes DEF MobTyped, MobTypeOK, SlotSet
      <4> QED
        BY <2>1, <4>1, Ranges DEF SlotSet
    <3>3. MinOf(MissingRange) \in Nat
      BY Ranges
    <3>4. tag'[alarm.trig].age >= MinOf(MissingRange)
      BY <1>1, <2>1, <3>1, <3>2, <3>3
    <3> QED
      BY <1>1, <1>4, <2>1, <2>2, <2>3, <3>4, CauseKept
  <2> QED
    BY <2>4, <2>5
<1> QED
  BY <1>3, <1>4

-----------------------------------------------------------------------------
(* The theorems.                                                             *)

LEMMA MobStart ==
  ASSUME MobInit
  PROVE  MobTyped /\ AlarmHasCause
<1>1. alarm = Resting /\ Points(Resting) /\ Resting.screen \notin Alarm
  BY AlarmsMade DEF MobInit
<1>2. [missing |-> MinOf(MissingRange), action |-> MinOf(ActionRange)] \in Timers
  BY Ranges DEF Timers
<1>3. kept \in KeptSet /\ timers \in Timers /\ undoubled \in Timers
  BY <1>2 DEF MobInit, KeptSet
<1>4. NeverUsed \in SlotSet
  BY Ranges DEF NeverUsed, SlotSet
<1>5. tag \in [MobSlots -> SlotSet]
  BY <1>4 DEF MobInit
<1>6. sel \in 0..NumSlots /\ off \in 0..Forever
  BY MobAssumption, Ranges DEF MobInit, NoTag
<1>7. wifi \in BOOLEAN
  BY Zenon DEF MobInit
<1>8. mob_pc \in {"web", "ble", "touch", "portal"} /\ alarm \in AlarmSet
  BY <1>1 DEF MobInit, Points
<1>9. MobTypeOK
  BY <1>3, <1>5, <1>6, <1>7, <1>8 DEF MobTypeOK, KeptSet, SlotSet, AlarmSet
<1> QED
  BY <1>1, <1>9 DEF MobTyped, AlarmHasCause

MobIInv == MobTyped /\ AlarmHasCause

LEMMA MobStep ==
  ASSUME MobIInv, [MobNext]_mobVars
  PROVE  MobIInv'
<1> USE DEF MobIInv
<1>1. CASE Reboot \/ PortalSave
  <2>1. kept' \in KeptSet /\ Boot
    BY <1>1, MobTypes, KeptFields DEF Reboot, PortalSave
  <2> QED
    BY <2>1, BootTyped, AlarmsMade, NoAlarmNoCause
<1>2. CASE Serve
  BY <1>2, ServeTyped, ServeCause
<1>3. CASE Watch
  BY <1>3, WatchTyped, WatchCause
<1>4. CASE Touch
  <2>1. mob_pc' = "web"
    BY <1>4 DEF Touch
  <2>2. CASE UNCHANGED <<kept, timers, undoubled, wifi, tag, alarm, sel, off>>
    <3>1. wifi' \in BOOLEAN
      <4>1. wifi \in BOOLEAN /\ wifi' = wifi
        BY <2>2, MobTypes
      <4> QED
        BY <4>1, Zenon
    <3>2. MobTyped'
      BY <2>1, <2>2, <3>1, MobTypes, MobTypesBack
    <3> QED
      BY <2>2, <3>2, CauseStays
  <2>3. CASE TapList \/ TapSettings \/ TapDisable \/ Silence \/ TapConfirm \/ TapWarning
    BY <2>1, <2>3, TapListKeeps, TapSettingsKeeps, TapTyped, TapKeepsTypes
  <2> QED
    BY <1>4, <2>2, <2>3 DEF Touch
<1>5. CASE OpenPortal
  BY <1>5, PortalTyped, TapKeepsTypes
<1>6. CASE Tick
  BY <1>6, TickKeeps, TickCause
<1>7. ASSUME NEW e \in Eids, Recognise(e)
      PROVE  MobIInv'
  BY <1>7, RecogniseTyped, RecogniseCause
<1>8. CASE UNCHANGED mobVars
  BY <1>8 DEF mobVars, MobTyped, MobTypeOK, Points, AlarmHasCause, Disabled, Enrolled
<1> QED
  BY <1>1, <1>2, <1>3, <1>4, <1>5, <1>6, <1>7, <1>8 DEF MobNext

\* The hub's variables keep their types.
THEOREM MobTypeCorrect == MobSpec => []MobTypeOK
<1>1. MobInit => MobIInv
  BY MobStart DEF MobIInv
<1>2. MobIInv /\ [MobNext]_mobVars => MobIInv'
  BY MobStep
<1>3. MobIInv => MobTypeOK
  BY DEF MobIInv, MobTyped
<1> QED
  BY <1>1, <1>2, <1>3, PTL DEF MobSpec

\* The alarm is about the tag whose slot is remembered, which is trusted unless it was
\* un-enrolled from elsewhere, detection is on while it sounds, and unless it was forced
\* the tag has not been heard since (trigger_mob, find_or_create_tag_slot, mark_tag_seen).
THEOREM AlarmsHaveCause == MobSpec => []AlarmHasCause
<1>1. MobInit => MobIInv
  BY MobStart DEF MobIInv
<1>2. MobIInv /\ [MobNext]_mobVars => MobIInv'
  BY MobStep
<1>3. MobIInv => AlarmHasCause
  BY DEF MobIInv
<1> QED
  BY <1>1, <1>2, <1>3, PTL DEF MobSpec
=============================================================================
