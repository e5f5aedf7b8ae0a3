--------------------------- MODULE UpdateProofs ----------------------------
(***************************************************************************)
(* Updates. Over the air, for every fleet of boards, every server and      *)
(* every loss on the way: what is flashed is what the HELM meant, and no   *)
(* older. Of the paper display's program, for every number of versions,    *)
(* parts and faults: what is installed stays whole.                        *)
(***************************************************************************)
EXTENDS FleetUpdate, PaperUpdate, FiniteSetTheorems, SequenceTheorems, TLAPS

Record == [buf : Image, url : Build, sum : Build, ready : BOOLEAN,
           joining : BOOLEAN, on : BOOLEAN, fw : Build \cup {Broken}]
Frame == [part : {"url", "sum"}, of : Image]

HelmType ==
    /\ newest \in Image /\ node \in Image
    /\ heard \in [Engines -> Build]
    /\ ua \in [active : BOOLEAN, after : BOOLEAN, due : BOOLEAN, late : BOOLEAN]
    /\ item \in [Engines -> [build : Build, st : {"none", "waiting", "done", "failed"}]]
    /\ helmFw \in Build
AirType == air \in [Boards -> Seq(Frame)]
BoardType == board \in [Boards -> Record]

\* The types, in three parts.
LEMMA TypeParts == FleetTypeOK <=> HelmType /\ AirType /\ BoardType
  BY DEF FleetTypeOK, HelmType, AirType, BoardType, Record, Frame

-----------------------------------------------------------------------------
(* What becomes of a board's record.                                         *)

\* A restart (ESP.restart) leaves nothing but the image.
LEMMA BootedIs ==
  ASSUME NEW f \in Build \cup {Broken}
  PROVE  /\ Booted(f) \in Record
         /\ Booted(f).buf.url = 0 /\ Booted(f).fw = f
         /\ Booted(f).on = FALSE /\ Booted(f).ready = FALSE /\ Booted(f).joining = FALSE
  BY FleetAssumption DEF Booted, Record, NoImage, Image, Build

\* A frame fills the buffer, or completes it and makes the board ready, or is
\* dropped (ota_handle_start_chunk).
LEMMA ChunkIs ==
  ASSUME NEW r \in Record, NEW f \in Frame
  PROVE  /\ Chunk(r, f) \in Record
         /\ Chunk(r, f).fw = r.fw /\ Chunk(r, f).on = r.on
         /\ Chunk(r, f).joining = r.joining
         /\ \/ /\ Chunk(r, f).buf \in {r.buf, f.of}
               /\ Chunk(r, f).url = r.url /\ Chunk(r, f).ready = r.ready
            \/ /\ Chunk(r, f).buf.url = 0
               /\ Chunk(r, f).url = r.buf.url /\ r.buf.url # 0
<1> USE FleetAssumption DEF Record, Frame, Image, Build
<1>1. CASE f.part = "url"
  <2>1. Chunk(r, f) = [r EXCEPT !.buf = f.of]
    BY <1>1 DEF Chunk
  <2> QED
    BY <2>1
<1>2. CASE f.part # "url" /\ ~SameLength(r.buf, f.of)
  <2>1. Chunk(r, f) = r
    BY <1>2 DEF Chunk
  <2> QED
    BY <2>1
<1>3. CASE f.part # "url" /\ SameLength(r.buf, f.of)
  <2>1. Chunk(r, f) = [r EXCEPT !.buf = NoImage, !.url = r.buf.url, !.sum = f.of.sum,
                                !.ready = TRUE]
    BY <1>3 DEF Chunk
  <2>2. r.buf.url # 0
    BY <1>3 DEF SameLength
  <2>3. NoImage \in Image /\ NoImage.url = 0
    BY DEF NoImage
  <2>4. Chunk(r, f).buf = NoImage /\ Chunk(r, f).url = r.buf.url
    BY <2>1
  <2>5. Chunk(r, f) \in Record
    BY <2>1, <2>3
  <2>6. Chunk(r, f).fw = r.fw
    BY <2>1
  <2>7. Chunk(r, f).on = r.on
    BY <2>1
  <2>8. Chunk(r, f).joining = r.joining
    BY <2>1
  <2> QED
    BY <2>2, <2>3, <2>4, <2>5, <2>6, <2>7, <2>8
<1> QED
  BY <1>1, <1>2, <1>3

-----------------------------------------------------------------------------
(* Bursts.                                                                   *)

\* A burst is frames of the image last read, and none goes to a board without an
\* engine that is out of date (ota_send_update_all).
LEMMA BurstsAre ==
  ASSUME HelmType, NEW b \in Boards
  PROVE  /\ Bursts(b) \in Nat
         /\ Bursts(b) > 0 => \E e \in Engines : BoardOf[e] = b /\ OutOfDate(e)
<1> DEFINE late == {e \in Engines : BoardOf[e] = b /\ OutOfDate(e)}
<1>1. IsFiniteSet(late)
  BY FleetAssumption, FS_Subset
<1>2. Cardinality(late) \in Nat /\ (Cardinality(late) = 0 <=> late = {})
  BY <1>1, FS_CardinalityType, FS_EmptySet
<1>3. Bursts(b) \in Nat /\ (Bursts(b) > 0 => Cardinality(late) > 0)
  BY <1>2 DEF Bursts
<1> QED
  BY <1>2, <1>3

\* A burst goes to the board at hand, two frames a try.
LEMMA BurstIs ==
  ASSUME HelmType, NEW n \in Nat
  PROVE  /\ Burst(n) \in Seq(Frame) /\ Len(Burst(n)) = 2 * n
         /\ \A i \in 1..Len(Burst(n)) : Burst(n)[i].of = node
<1> DEFINE part(i) == IF i % 2 = 1 THEN "url" ELSE "sum"
           m == 2 * n
<1>1. m \in Nat
  OBVIOUS
<1>2. \A i \in 1..m : part(i) \in {"url", "sum"}
  OBVIOUS
<1>3. \A i \in 1..m : [part |-> part(i), of |-> node] \in Frame
  <2> HIDE DEF part, m
  <2> QED
    BY <1>2 DEF HelmType, Frame
<1>4. Burst(n) = [i \in 1..m |-> [part |-> part(i), of |-> node]]
  BY DEF Burst
<1> HIDE DEF part, m
<1>5. Burst(n) \in Seq(Frame) /\ Len(Burst(n)) = m
  BY <1>1, <1>3, <1>4
<1>6. \A i \in 1..m : Burst(n)[i].of = node
  BY <1>4
<1> QED
  BY <1>5, <1>6 DEF m

-----------------------------------------------------------------------------
(* Types.                                                                    *)

\* The HELM's part.
LEMMA HelmTypeStep ==
  ASSUME FleetTypeOK, [FleetNext]_fleetVars
  PROVE  HelmType'
<1> USE TypeParts, FleetAssumption DEF HelmType, helmVars, boardVars
<1>1. CASE CheckFleet
  BY <1>1 DEF CheckFleet
<1>2. CASE Close
  BY <1>2 DEF Close
<1>3. CASE UpdateAllStart
  <2>1. ua' \in [active : BOOLEAN, after : BOOLEAN, due : BOOLEAN, late : BOOLEAN]
    <3> DEFINE after == HelmNew
               due == {e \in Engines : OutOfDate(e)} = {}
    <3>1. ua' = [active |-> TRUE, after |-> after, due |-> due, late |-> FALSE]
      BY <1>3 DEF UpdateAllStart
    <3>2. after \in BOOLEAN /\ due \in BOOLEAN
      BY DEF HelmNew
    <3> HIDE DEF after, due
    <3> QED
      BY <3>1, <3>2
  <2>2. item' \in [Engines -> [build : Build, st : {"none", "waiting", "done", "failed"}]]
    <3>1. node.url \in Build /\ 0 \in Build
      BY DEF Image, Build
    <3>2. [build |-> node.url, st |-> "waiting"]
             \in [build : Build, st : {"none", "waiting", "done", "failed"}]
      BY <3>1
    <3>3. NoItem \in [build : Build, st : {"none", "waiting", "done", "failed"}]
      BY <3>1 DEF NoItem
    <3> QED
      BY <1>3, <3>2, <3>3 DEF UpdateAllStart
  <2> QED
    BY <1>3, <2>1, <2>2 DEF UpdateAllStart
<1>4. CASE Watch
  <2>1. \A e \in Engines :
           Watched(e) \in [build : Build, st : {"none", "waiting", "done", "failed"}]
    BY DEF Watched
  <2>2. item' \in [Engines -> [build : Build, st : {"none", "waiting", "done", "failed"}]]
    BY <1>4, <2>1 DEF Watch
  <2>3. ua' \in {ua, [ua EXCEPT !.due = TRUE], [ua EXCEPT !.active = FALSE]}
    BY <1>4 DEF Watch
  <2> QED
    BY <1>4, <2>2, <2>3 DEF Watch
<1>5. CASE Timeout
  BY <1>5 DEF Timeout
<1>6. CASE HelmUpdates
  <2>1. NoImage \in Image
    BY DEF NoImage, Image, Build
  <2>2. NoItem \in [build : Build, st : {"none", "waiting", "done", "failed"}]
    BY DEF NoItem, Build
  <2>3. ua' \in {[ua EXCEPT !.active = FALSE, !.due = FALSE], NoUpdate}
    BY <1>6 DEF HelmUpdates
  <2>4. ua' \in [active : BOOLEAN, after : BOOLEAN, due : BOOLEAN, late : BOOLEAN]
    <3>1. NoUpdate \in [active : BOOLEAN, after : BOOLEAN, due : BOOLEAN, late : BOOLEAN]
      BY DEF NoUpdate
    <3>2. [ua EXCEPT !.active = FALSE, !.due = FALSE]
             \in [active : BOOLEAN, after : BOOLEAN, due : BOOLEAN, late : BOOLEAN]
      OBVIOUS
    <3> QED
      BY <2>3, <3>1, <3>2
  <2>5. node.url \in Build /\ 0 \in Build
    BY DEF Image, Build
  <2> QED
    BY <1>6, <2>1, <2>2, <2>4, <2>5 DEF HelmUpdates
<1>7. ASSUME NEW e \in Engines, Announce(e) \/ AgeOut(e)
      PROVE  HelmType'
  <2>1. 0 \in Build
    BY DEF Build
  <2>2. Announce(e) => board[BoardOf[e]].fw \in Build
    BY DEF Announce, BoardType, Record
  <2> QED
    BY <1>7, <2>1, <2>2 DEF Announce, AgeOut
<1>8. ASSUME NEW b \in Boards, Deliver(b) \/ Lose(b) \/ Join(b) \/ FleetRestart(b) \/ WifiJoin(b)
      PROVE  HelmType'
  BY <1>8 DEF Deliver, Lose, Join, FleetRestart, WifiJoin
<1>9. CASE Release
  BY <1>9 DEF Release, Image, Build
<1>10. CASE UNCHANGED fleetVars
  BY <1>10 DEF fleetVars
<1> QED
  BY <1>1, <1>2, <1>3, <1>4, <1>5, <1>6, <1>7, <1>8, <1>9, <1>10 DEF FleetNext

\* The air's part.
LEMMA AirTypeStep ==
  ASSUME FleetTypeOK, [FleetNext]_fleetVars
  PROVE  AirType'
<1> USE TypeParts DEF AirType
<1>1. CASE UpdateAllStart
  <2>1. \A b \in Boards : Burst(Bursts(b)) \in Seq(Frame)
    BY BurstsAre, BurstIs
  <2> QED
    BY <1>1, <2>1 DEF UpdateAllStart
<1>2. ASSUME NEW b \in Boards, Deliver(b) \/ Lose(b)
      PROVE  AirType'
  <2>1. Tail(air[b]) \in Seq(Frame)
    BY <1>2 DEF Deliver, Lose
  <2> QED
    BY <1>2, <2>1 DEF Deliver, Lose
<1>3. CASE UNCHANGED air
  BY <1>3
<1> QED
  BY <1>1, <1>2, <1>3
  DEF FleetNext, CheckFleet, Close, Watch, Timeout, HelmUpdates, Join, FleetRestart, WifiJoin,
      Announce, AgeOut, Release, fleetVars, helmVars, boardVars

\* The boards' part.
LEMMA BoardTypeStep ==
  ASSUME FleetTypeOK, [FleetNext]_fleetVars
  PROVE  BoardType'
<1> USE TypeParts DEF BoardType
<1>1. ASSUME NEW b \in Boards, Deliver(b)
      PROVE  BoardType'
  <2>1. Head(air[b]) \in Frame
    BY <1>1 DEF Deliver, AirType
  <2>2. Chunk(board[b], Head(air[b])) \in Record
    BY <2>1, ChunkIs
  <2> QED
    BY <1>1, <2>2 DEF Deliver
<1>2. ASSUME NEW b \in Boards, Join(b)
      PROVE  BoardType'
  <2>1. [board[b] EXCEPT !.ready = FALSE, !.joining = TRUE] \in Record
    BY DEF Record
  <2> QED
    BY <1>2, <2>1 DEF Join
<1>3. ASSUME NEW b \in Boards, FleetRestart(b) \/ WifiJoin(b)
      PROVE  BoardType'
  <2>1. board[b].fw \in Build \cup {Broken} /\ board[b].url \in Build
    BY DEF Record
  <2>2. \A o \in Outcome : Flashed(board[b].url, o) \in Build \cup {Broken}
    BY <2>1 DEF Flashed
  <2>3. Booted(board[b].fw) \in Record
    BY <2>1, BootedIs
  <2>4. \A o \in Outcome : Booted(Flashed(board[b].url, o)) \in Record
    BY <2>2, BootedIs
  <2> QED
    BY <1>3, <2>3, <2>4 DEF FleetRestart, WifiJoin
<1>4. ASSUME NEW e \in Engines, Announce(e)
      PROVE  BoardType'
  <2>1. BoardOf[e] \in Boards
    BY FleetAssumption
  <2>2. board[BoardOf[e]] \in Record
    BY <2>1
  <2>3. [board[BoardOf[e]] EXCEPT !.on = TRUE] \in Record
    BY <2>2 DEF Record
  <2>4. board' = [board EXCEPT ![BoardOf[e]] = [board[BoardOf[e]] EXCEPT !.on = TRUE]]
    BY <1>4 DEF Announce
  <2> QED
    BY <2>1, <2>3, <2>4
<1>5. CASE UNCHANGED board
  BY <1>5
<1> QED
  BY <1>1, <1>2, <1>3, <1>4, <1>5
  DEF FleetNext, CheckFleet, Close, UpdateAllStart, Watch, Timeout, HelmUpdates, Lose,
      AgeOut, Release, fleetVars, helmVars, boardVars

\* Every step keeps the types.
LEMMA TypeStep == FleetTypeOK /\ [FleetNext]_fleetVars => FleetTypeOK'
  BY HelmTypeStep, AirTypeStep, BoardTypeStep, TypeParts
  DEF FleetTypeOK, HelmType, AirType, BoardType, Record, Frame

\* They hold at the start.
LEMMA TypeInit ==
  ASSUME FleetInit
  PROVE  FleetTypeOK
<1>1. HelmType
  BY FleetAssumption DEF FleetInit, HelmType, Image, Build, NoImage, NoUpdate, NoItem
<1>2. AirType
  BY DEF FleetInit, AirType
<1>3. BoardType
  <2>1. \A f \in 1..MaxBuild : f \in Build \cup {Broken}
    BY FleetAssumption DEF Build
  <2>2. \A f \in 1..MaxBuild : Booted(f) \in Record
    BY <2>1, BootedIs
  <2>3. board \in [Boards -> {Booted(f) : f \in 1..MaxBuild}]
    BY DEF FleetInit
  <2>4. \A b \in Boards : board[b] \in Record
    BY <2>2, <2>3
  <2> QED
    BY <2>3, <2>4 DEF BoardType
<1> QED
  BY <1>1, <1>2, <1>3, TypeParts

\* What the HELM and the boards hold of images and builds keeps its types
\* (update_all_start, update_all_tick, ota_handle_start_chunk, ota_tick).
THEOREM TypeCorrect ==
  FleetSpec => []FleetTypeOK
  BY TypeInit, TypeStep, PTL DEF FleetSpec

-----------------------------------------------------------------------------
(* No board goes back.  What is on its way to a board, held in its buffer or  *)
(* about to be fetched by it is a build no older than the one it runs and no  *)
(* newer than what is released, nor than what the HELM last read of it; and   *)
(* the HELM has heard nothing of an engine that is newer than its board.      *)

\* u may be flashed on board b.
Reaches(b, u) ==
    /\ u # 0 /\ u <= newest.url
    /\ node.url = 0 \/ u <= node.url
    /\ board[b].fw # Broken => board[b].fw <= u

InAir(b) == \A i \in 1..Len(air[b]) : Reaches(b, air[b][i].of.url)
InBuffer(b) == board[b].buf.url # 0 => Reaches(b, board[b].buf.url)
InHand(b) == board[b].ready \/ board[b].joining => Reaches(b, board[b].url)
Dead(b) == board[b].fw = Broken => ~board[b].on /\ ~board[b].ready /\ ~board[b].joining
Heard(e) ==
    LET f == board[BoardOf[e]].fw
    IN  heard[e] # 0 /\ f # Broken
        => /\ heard[e] <= f
           /\ heard[e] < f => f <= newest.url /\ (node.url = 0 \/ f <= node.url)

ForwardInv ==
    /\ node.url <= newest.url
    /\ \A b \in Boards : InAir(b) /\ InBuffer(b) /\ InHand(b) /\ Dead(b)
    /\ \A e \in Engines : Heard(e)

\* The types the steps below need, as numbers.
LEMMA Numbers ==
  ASSUME FleetTypeOK
  PROVE  /\ newest.url \in Nat /\ node.url \in Nat
         /\ \A e \in Engines : heard[e] \in Nat /\ BoardOf[e] \in Boards
         /\ \A b \in Boards :
               /\ board[b] \in Record
               /\ board[b].fw \in Nat \cup {Broken}
               /\ board[b].url \in Nat /\ board[b].buf.url \in Nat
               /\ \A i \in 1..Len(air[b]) : air[b][i] \in Frame /\ air[b][i].of.url \in Nat
         /\ Broken \notin Nat
<1> USE TypeParts, FleetAssumption DEF HelmType, BoardType
<1>1. Build \subseteq Nat
  BY DEF Build
<1>2. newest.url \in Nat /\ node.url \in Nat
  BY <1>1 DEF Image
<1>3. ASSUME NEW b \in Boards
      PROVE  /\ board[b] \in Record
             /\ board[b].fw \in Nat \cup {Broken}
             /\ board[b].url \in Nat /\ board[b].buf.url \in Nat
  BY <1>1 DEF Record, Image
<1>4. ASSUME NEW b \in Boards, NEW i \in 1..Len(air[b])
      PROVE  air[b][i] \in Frame /\ air[b][i].of.url \in Nat
  <2>1. air[b][i] \in Frame
    BY DEF AirType
  <2> QED
    BY <2>1, <1>1 DEF Frame, Image
<1>5. \A e \in Engines : heard[e] \in Nat /\ BoardOf[e] \in Boards
  BY <1>1
<1> QED
  BY <1>2, <1>3, <1>4, <1>5

\* With the boards left alone, the invariant survives what the HELM reads: the
\* newest image, or nothing.
LEMMA ReadingIsSafe ==
  ASSUME FleetTypeOK, ForwardInv, boardVars' = boardVars,
         newest'.url \in Nat, newest.url <= newest'.url,
         \/ node' = node
         \/ node' = newest /\ newest' = newest
         \/ node'.url = 0,
         \A e \in Engines : heard'[e] \in {0, heard[e]}
  PROVE  ForwardInv'
<1> USE Numbers DEF boardVars, ForwardInv
<1>0. node'.url <= newest'.url
  OBVIOUS
<1>1. \A b \in Boards, u \in Nat : Reaches(b, u) => Reaches(b, u)'
  BY DEF Reaches
<1>2. ASSUME NEW b \in Boards
      PROVE  (InAir(b) /\ InBuffer(b) /\ InHand(b) /\ Dead(b))'
  BY <1>1 DEF InAir, InBuffer, InHand, Dead
<1>3. ASSUME NEW e \in Engines
      PROVE  Heard(e)'
  <2> DEFINE f == board[BoardOf[e]].fw
  <2>1. f \in Nat \cup {Broken} /\ heard[e] \in Nat /\ Heard(e)
    OBVIOUS
  <2> QED
    BY <2>1 DEF Heard
<1> QED
  BY <1>0, <1>2, <1>3

\* With the HELM left alone, a step of one board's record is enough to look at.
LEMMA OneBoard ==
  ASSUME FleetTypeOK, ForwardInv, NEW b \in Boards,
         newest' = newest, node' = node,
         \A c \in Boards : c # b => board'[c] = board[c] /\ air'[c] = air[c],
         (InAir(b) /\ InBuffer(b) /\ InHand(b) /\ Dead(b))',
         \A e \in Engines : Heard(e)'
  PROVE  ForwardInv'
<1>1. ASSUME NEW c \in Boards, c # b
      PROVE  (InAir(c) /\ InBuffer(c) /\ InHand(c) /\ Dead(c))'
  BY <1>1 DEF ForwardInv, InAir, InBuffer, InHand, Dead, Reaches
<1> QED
  BY <1>1 DEF ForwardInv

\* A burst starts only for an engine that is out of date, and what is known of it
\* is not newer than its board.
LEMMA SendIsForward ==
  ASSUME FleetTypeOK, ForwardInv, UpdateAllStart
  PROVE  ForwardInv'
<1> USE Numbers
<1>1. /\ newest' = newest /\ node' = node /\ heard' = heard /\ board' = board
      /\ air' = [b \in Boards |-> Burst(Bursts(b))]
  BY DEF UpdateAllStart, boardVars
<1>2. ASSUME NEW b \in Boards
      PROVE  InAir(b)'
  <2>1. Bursts(b) \in Nat /\ (Bursts(b) > 0 => \E e \in Engines : BoardOf[e] = b /\ OutOfDate(e))
    BY BurstsAre, TypeParts
  <2>2. /\ Len(Burst(Bursts(b))) = 2 * Bursts(b)
        /\ \A i \in 1..Len(Burst(Bursts(b))) : Burst(Bursts(b))[i].of = node
    BY <2>1, BurstIs, TypeParts
  <2>3. ASSUME NEW e \in Engines, BoardOf[e] = b, OutOfDate(e)
        PROVE  Reaches(b, node.url)
    <3>1. heard[e] # 0 /\ heard[e] < node.url /\ Heard(e) /\ node.url <= newest.url
      BY <2>3 DEF OutOfDate, ForwardInv
    <3>2. heard[e] \in Nat /\ node.url \in Nat /\ board[b].fw \in Nat \cup {Broken}
      OBVIOUS
    <3>3. board[b].fw # Broken => board[b].fw <= node.url
      BY <2>3, <3>1, <3>2 DEF Heard
    <3> QED
      BY <3>1, <3>2, <3>3 DEF Reaches
  <2>4. Bursts(b) > 0 => Reaches(b, node.url)'
    BY <1>1, <2>1, <2>3 DEF Reaches
  <2>5. air'[b] = Burst(Bursts(b))
    BY <1>1
  <2>6. CASE Bursts(b) = 0
    BY <2>2, <2>5, <2>6 DEF InAir
  <2>7. CASE Bursts(b) > 0
    BY <2>2, <2>4, <2>5, <2>7, <1>1 DEF InAir
  <2> QED
    BY <2>1, <2>6, <2>7
<1>3. ASSUME NEW b \in Boards
      PROVE  (InBuffer(b) /\ InHand(b) /\ Dead(b))'
  BY <1>1 DEF ForwardInv, InBuffer, InHand, Dead, Reaches
<1>4. \A e \in Engines : Heard(e)'
  BY <1>1 DEF ForwardInv, Heard
<1> QED
  BY <1>1, <1>2, <1>3, <1>4 DEF ForwardInv

\* The rest of a burst after its first frame.
LEMMA RestOfBurst ==
  ASSUME FleetTypeOK, ForwardInv, NEW b \in Boards, air[b] # <<>>,
         newest' = newest, node' = node,
         air' = [air EXCEPT ![b] = Tail(@)], board'[b].fw = board[b].fw
  PROVE  InAir(b)'
<1>1. air[b] \in Seq(Frame)
  BY TypeParts DEF AirType
<1>2. air'[b] = Tail(air[b])
  BY TypeParts DEF AirType
<1>3. Len(air'[b]) = Len(air[b]) - 1 /\ Len(air[b]) \in Nat
  BY <1>1, <1>2, HeadTailProperties, LenProperties
<1>4. ASSUME NEW i \in 1..Len(air'[b])
      PROVE  i + 1 \in 1..Len(air[b]) /\ air'[b][i] = air[b][i + 1]
  BY <1>1, <1>2, <1>3, HeadTailProperties
<1>5. InAir(b)
  BY DEF ForwardInv
<1>6. ASSUME NEW i \in 1..Len(air'[b])
      PROVE  Reaches(b, air[b][i].of.url)'
  <2>1. Reaches(b, air[b][i + 1].of.url)
    BY <1>4, <1>5 DEF InAir
  <2> QED
    BY <1>4, <2>1 DEF Reaches
<1> QED
  BY <1>6 DEF InAir

\* A frame changes the buffer and the image in hand to what is in the air, or to
\* what is in the buffer.
LEMMA DeliverIsForward ==
  ASSUME FleetTypeOK, ForwardInv, NEW b \in Boards, Deliver(b)
  PROVE  ForwardInv'
<1> DEFINE r == board[b]
           f == Head(air[b])
<1>1. /\ air[b] # <<>> /\ newest' = newest /\ node' = node /\ heard' = heard
      /\ air' = [air EXCEPT ![b] = Tail(@)]
      /\ board' = IF Hears(b) THEN [board EXCEPT ![b] = Chunk(@, Head(air[b]))] ELSE board
  BY DEF Deliver, helmVars
<1>2. r \in Record /\ air[b] \in Seq(Frame) /\ f \in Frame /\ f = air[b][1] /\ 1 \in 1..Len(air[b])
  BY <1>1, TypeParts, Numbers DEF AirType
<1>3. Reaches(b, f.of.url) /\ InBuffer(b) /\ InHand(b) /\ Dead(b)
  BY <1>2 DEF ForwardInv, InAir
<1>4. \A c \in Boards : c # b => board'[c] = board[c] /\ air'[c] = air[c]
  BY <1>1, TypeParts DEF BoardType, AirType
<1>5. CASE ~Hears(b)
  <2>1. board' = board
    BY <1>1, <1>5
  <2>2. InAir(b)'
    BY <1>1, <2>1, RestOfBurst
  <2>3. (InBuffer(b) /\ InHand(b) /\ Dead(b))' /\ \A e \in Engines : Heard(e)'
    BY <1>1, <2>1 DEF ForwardInv, InBuffer, InHand, Dead, Heard, Reaches
  <2> QED
    BY <1>1, <1>4, <2>2, <2>3, OneBoard
<1>6. CASE Hears(b)
  <2> DEFINE q == board'[b]
  <2>1. q = Chunk(r, f)
    BY <1>1, <1>6, TypeParts DEF BoardType
  <2>2. q.fw = r.fw
    BY <1>2, <2>1, ChunkIs
  <2>3. q.on = r.on /\ q.joining = r.joining
    BY <1>2, <2>1, ChunkIs
  <2>4. \/ q.buf \in {r.buf, f.of} /\ q.url = r.url /\ q.ready = r.ready
        \/ q.buf.url = 0 /\ q.url = r.buf.url /\ r.buf.url # 0
    BY <1>2, <2>1, ChunkIs
  <2>5. InAir(b)'
    BY <1>1, <2>2, RestOfBurst
  <2>6. \A u : Reaches(b, u)' <=> Reaches(b, u)
    BY <1>1, <2>2 DEF Reaches
  <2>7. InBuffer(b)'
    BY <1>3, <2>4, <2>6 DEF InBuffer
  <2>8. InHand(b)'
    BY <1>3, <2>3, <2>4, <2>6 DEF InHand, InBuffer
  <2>9. Dead(b)'
    <3>1. r.fw # Broken
      BY <1>3, <1>6 DEF Hears, Dead
    <3> QED
      BY <2>2, <3>1 DEF Dead
  <2>10. ASSUME NEW e \in Engines
         PROVE  Heard(e)'
    <3>1. board'[BoardOf[e]].fw = board[BoardOf[e]].fw
      BY <1>4, <2>2, Numbers
    <3> QED
      BY <1>1, <3>1 DEF ForwardInv, Heard
  <2> QED
    BY <1>1, <1>4, <2>5, <2>7, <2>8, <2>9, <2>10, OneBoard
<1> QED
  BY <1>5, <1>6

\* A frame that is lost changes nothing of it.
LEMMA LoseIsForward ==
  ASSUME FleetTypeOK, ForwardInv, NEW b \in Boards, Lose(b)
  PROVE  ForwardInv'
<1>1. /\ air[b] # <<>> /\ newest' = newest /\ node' = node /\ heard' = heard
      /\ air' = [air EXCEPT ![b] = Tail(@)] /\ board' = board
  BY DEF Lose, helmVars
<1>2. InAir(b)'
  BY <1>1, RestOfBurst
<1>3. (InBuffer(b) /\ InHand(b) /\ Dead(b))' /\ \A e \in Engines : Heard(e)'
  BY <1>1 DEF ForwardInv, InBuffer, InHand, Dead, Heard, Reaches
<1>4. \A c \in Boards : c # b => board'[c] = board[c] /\ air'[c] = air[c]
  BY <1>1, TypeParts DEF AirType
<1> QED
  BY <1>1, <1>2, <1>3, <1>4, OneBoard

\* A board that leaves the bus takes along the image it had ready.
LEMMA JoinIsForward ==
  ASSUME FleetTypeOK, ForwardInv, NEW b \in Boards, Join(b)
  PROVE  ForwardInv'
<1>1. /\ board[b].ready /\ newest' = newest /\ node' = node /\ heard' = heard /\ air' = air
      /\ board' = [board EXCEPT ![b] = [board[b] EXCEPT !.ready = FALSE, !.joining = TRUE]]
  BY DEF Join, helmVars
<1>2. board[b] \in Record
  BY Numbers
<1>3. board'[b] = [board[b] EXCEPT !.ready = FALSE, !.joining = TRUE]
  BY <1>1, TypeParts DEF BoardType
<1>4. /\ board'[b].fw = board[b].fw /\ board'[b].url = board[b].url
      /\ board'[b].buf = board[b].buf
  BY <1>2, <1>3 DEF Record
<1>5. \A u : Reaches(b, u)' <=> Reaches(b, u)
  BY <1>1, <1>4 DEF Reaches
<1>6. board[b].fw # Broken
  <2>1. Dead(b) /\ board[b].ready
    BY <1>1 DEF ForwardInv
  <2> QED
    BY <2>1 DEF Dead
<1>7. InAir(b)' /\ InBuffer(b)' /\ Dead(b)'
  BY <1>1, <1>4, <1>5, <1>6 DEF ForwardInv, InAir, InBuffer, Dead
<1>8. InHand(b)'
  BY <1>1, <1>4, <1>5 DEF ForwardInv, InHand
<1>9. \A c \in Boards : c # b => board'[c] = board[c] /\ air'[c] = air[c]
  BY <1>1, TypeParts DEF BoardType
<1>10. ASSUME NEW e \in Engines
       PROVE  Heard(e)'
  <2>1. board'[BoardOf[e]].fw = board[BoardOf[e]].fw
    BY <1>4, <1>9, Numbers
  <2> QED
    BY <1>1, <2>1 DEF ForwardInv, Heard
<1> QED
  BY <1>1, <1>7, <1>8, <1>9, <1>10, OneBoard

\* What a board runs after a restart: what it ran, or the image it had in hand, whole
\* or not.
LEMMA RestartIs ==
  ASSUME FleetTypeOK, NEW b \in Boards, FleetRestart(b) \/ WifiJoin(b)
  PROVE  \E w \in Build \cup {Broken} :
            /\ board'[b] = Booted(w)
            /\ \/ w = board[b].fw
               \/ /\ board[b].joining /\ w \in {board[b].url, Broken}
                  /\ board[b].sum \in {0, w}
<1> USE Numbers
<1>1. board[b].fw \in Build \cup {Broken} /\ board[b].url \in Build
  BY DEF Record
<1>2. CASE board' = [board EXCEPT ![b] = Booted(board[b].fw)]
  BY <1>1, <1>2, TypeParts DEF BoardType
<1>3. ASSUME NEW o \in Outcome, board[b].joining,
             Accepted(board[b].url, board[b].sum, o),
             board' = [board EXCEPT ![b] = Booted(Flashed(board[b].url, o))]
      PROVE  \E w \in Build \cup {Broken} :
                /\ board'[b] = Booted(w)
                /\ board[b].joining /\ w \in {board[b].url, Broken}
                /\ board[b].sum \in {0, w}
  <2> DEFINE w == Flashed(board[b].url, o)
  <2>1. w \in {board[b].url, Broken}
    BY DEF Flashed
  <2>2. board[b].sum # 0 => w = board[b].sum
    BY <1>3 DEF Flashed, Accepted
  <2>3. board'[b] = Booted(w)
    BY <1>3, TypeParts DEF BoardType
  <2>4. w \in Build \cup {Broken} /\ board[b].sum \in {0, w}
    BY <1>1, <2>1, <2>2
  <2> HIDE DEF w
  <2> QED
    BY <1>3, <2>1, <2>3, <2>4
<1> QED
  BY <1>2, <1>3 DEF FleetRestart, WifiJoin

\* What a board runs after a restart is what it ran, or the image it had in hand,
\* whole or not.
LEMMA BootIsForward ==
  ASSUME FleetTypeOK, ForwardInv, NEW b \in Boards, FleetRestart(b) \/ WifiJoin(b)
  PROVE  /\ ForwardInv'
         /\ board[b].fw # Broken /\ board'[b].fw # Broken => board'[b].fw >= board[b].fw
         /\ board'[b].fw # board[b].fw => board[b].sum \in {0, board'[b].fw}
<1> USE Numbers
<1>1. /\ air[b] = <<>> /\ newest' = newest /\ node' = node /\ heard' = heard /\ air' = air
      /\ \A c \in Boards : c # b => board'[c] = board[c]
  BY TypeParts DEF FleetRestart, WifiJoin, helmVars, BoardType
<1>2. PICK w \in Build \cup {Broken} :
         /\ board'[b] = Booted(w)
         /\ \/ w = board[b].fw
            \/ /\ board[b].joining /\ w \in {board[b].url, Broken}
               /\ board[b].sum \in {0, w}
  BY RestartIs
<1>3. board'[b].fw = w
  BY <1>2, BootedIs
<1>4. board'[b].buf.url = 0 /\ ~board'[b].on /\ ~board'[b].ready /\ ~board'[b].joining
  <2>1. /\ Booted(w).buf.url = 0 /\ Booted(w).on = FALSE
        /\ Booted(w).ready = FALSE /\ Booted(w).joining = FALSE
    BY BootedIs
  <2> QED
    BY <1>2, <2>1
<1>5. w # board[b].fw =>
         /\ board[b].fw # Broken
         /\ w # Broken => w \in Nat /\ board[b].fw \in Nat /\ Reaches(b, w)
  <2>1. SUFFICES ASSUME w # board[b].fw
                 PROVE  /\ board[b].fw # Broken
                        /\ w # Broken => w \in Nat /\ board[b].fw \in Nat /\ Reaches(b, w)
    OBVIOUS
  <2>2. board[b].joining /\ w \in {board[b].url, Broken} /\ InHand(b) /\ Dead(b)
    BY <1>2, <2>1 DEF ForwardInv
  <2>3. board[b].fw # Broken
    BY <2>2 DEF Dead
  <2>4. Reaches(b, board[b].url)
    BY <2>2 DEF InHand
  <2> QED
    BY <2>2, <2>3, <2>4
<1>6. board[b].fw # Broken /\ board'[b].fw # Broken => board'[b].fw >= board[b].fw
  BY <1>3, <1>5 DEF Reaches
<1>7. board'[b].fw # board[b].fw => board[b].sum \in {0, board'[b].fw}
  BY <1>2, <1>3
<1>8. InAir(b)' /\ InBuffer(b)' /\ InHand(b)' /\ Dead(b)'
  BY <1>1, <1>4 DEF InAir, InBuffer, InHand, Dead
<1>9. ASSUME NEW e \in Engines
       PROVE  Heard(e)'
  <2>1. Heard(e) /\ heard[e] \in Nat /\ BoardOf[e] \in Boards
    BY DEF ForwardInv
  <2>2. CASE board'[BoardOf[e]].fw = board[BoardOf[e]].fw
    BY <1>1, <2>1, <2>2 DEF Heard
  <2>3. CASE board'[BoardOf[e]].fw # board[BoardOf[e]].fw
    <3>1. BoardOf[e] = b
      BY <1>1, <2>1, <2>3
    <3>2. w # board[b].fw
      BY <1>3, <2>3, <3>1
    <3>3. CASE w = Broken
      BY <1>3, <3>1, <3>3 DEF Heard
    <3>4. CASE w # Broken
      <4>1. /\ w \in Nat /\ board[b].fw \in Nat /\ w <= newest.url
            /\ node.url = 0 \/ w <= node.url
            /\ board[b].fw <= w
        BY <1>5, <3>2, <3>4 DEF Reaches
      <4>2. heard[e] # 0 => heard[e] <= board[b].fw
        BY <2>1, <3>1, <1>5, <3>2 DEF Heard
      <4> QED
        BY <1>1, <1>3, <2>1, <3>1, <4>1, <4>2 DEF Heard
    <3> QED
      BY <3>3, <3>4
  <2> QED
    BY <2>2, <2>3
<1>10. ForwardInv'
  BY <1>1, <1>8, <1>9, OneBoard
<1> QED
  BY <1>6, <1>7, <1>10

\* An announcement tells what the board runs.
LEMMA AnnounceIsForward ==
  ASSUME FleetTypeOK, ForwardInv, NEW e \in Engines, Announce(e)
  PROVE  ForwardInv'
<1> DEFINE b == BoardOf[e]
<1> USE Numbers
<1>1. /\ board[b].fw # Broken /\ newest' = newest /\ node' = node /\ air' = air
      /\ heard' = [heard EXCEPT ![e] = board[b].fw]
      /\ board' = [board EXCEPT ![b] = [board[b] EXCEPT !.on = TRUE]]
  BY DEF Announce
<1>2. b \in Boards /\ board[b] \in Record
  OBVIOUS
<1>3. board'[b] = [board[b] EXCEPT !.on = TRUE]
  BY <1>1, <1>2, TypeParts DEF BoardType
<1>4. /\ board'[b].fw = board[b].fw /\ board'[b].url = board[b].url
      /\ board'[b].buf = board[b].buf
  BY <1>2, <1>3 DEF Record
<1>5. (board'[b].ready = board[b].ready) /\ (board'[b].joining = board[b].joining)
  <2>1. board'[b].ready = board[b].ready
    BY <1>2, <1>3 DEF Record
  <2>2. board'[b].joining = board[b].joining
    BY <1>2, <1>3 DEF Record
  <2> QED
    BY <2>1, <2>2
<1>6. \A u : Reaches(b, u)' <=> Reaches(b, u)
  BY <1>1, <1>4 DEF Reaches
<1>7. InAir(b)' /\ InBuffer(b)' /\ Dead(b)'
  <2>1. board'[b].fw # Broken
    BY <1>1, <1>4
  <2>2. InAir(b) /\ InBuffer(b)
    BY <1>2 DEF ForwardInv
  <2>3. InAir(b)'
    BY <1>1, <1>6, <2>2 DEF InAir
  <2>4. InBuffer(b)'
    BY <1>4, <1>6, <2>2 DEF InBuffer
  <2> QED
    BY <2>1, <2>3, <2>4 DEF Dead
<1>8. InHand(b)'
  BY <1>2, <1>4, <1>5, <1>6 DEF ForwardInv, InHand
<1>9. \A c \in Boards : c # b => board'[c] = board[c] /\ air'[c] = air[c]
  BY <1>1, <1>2, TypeParts DEF BoardType
<1>10. ASSUME NEW i \in Engines
       PROVE  Heard(i)'
  <2>1. board'[BoardOf[i]].fw = board[BoardOf[i]].fw
    BY <1>4, <1>9
  <2>2. CASE i = e
    <3>1. heard'[i] = board[b].fw /\ board[b].fw \in Nat
      BY <1>1, <1>2, <2>2, TypeParts DEF HelmType
    <3> QED
      BY <2>1, <2>2, <3>1 DEF Heard
  <2>3. CASE i # e
    <3>1. heard'[i] = heard[i]
      BY <1>1, <2>3, TypeParts DEF HelmType
    <3> QED
      BY <1>1, <2>1, <3>1 DEF ForwardInv, Heard
  <2> QED
    BY <2>2, <2>3
<1> QED
  BY <1>1, <1>2, <1>7, <1>8, <1>9, <1>10, OneBoard

\* Every step keeps the invariant.
LEMMA ForwardInvStep ==
  ASSUME FleetTypeOK, ForwardInv, [FleetNext]_fleetVars
  PROVE  ForwardInv'
<1> USE Numbers
<1>1. CASE CheckFleet \/ Close \/ Watch \/ Timeout \/ HelmUpdates \/ Release \/ UNCHANGED fleetVars
  <2>1. newest'.url \in Nat /\ newest.url <= newest'.url /\ boardVars' = boardVars
    BY <1>1 DEF CheckFleet, Close, Watch, Timeout, HelmUpdates, Release, fleetVars
  <2>2. \/ node' = node
        \/ node' = newest /\ newest' = newest
        \/ node'.url = 0
    BY <1>1 DEF CheckFleet, Close, Watch, Timeout, HelmUpdates, Release, fleetVars, helmVars, NoImage
  <2>3. \A e \in Engines : heard'[e] \in {0, heard[e]}
    BY <1>1 DEF CheckFleet, Close, Watch, Timeout, HelmUpdates, Release, fleetVars, helmVars
  <2> QED
    BY <2>1, <2>2, <2>3, ReadingIsSafe
<1>2. ASSUME NEW e \in Engines, AgeOut(e)
      PROVE  ForwardInv'
  <2>1. newest' = newest /\ node' = node /\ boardVars' = boardVars
    BY <1>2 DEF AgeOut
  <2>2. \A i \in Engines : heard'[i] \in {0, heard[i]}
    BY <1>2, TypeParts DEF AgeOut, HelmType
  <2> QED
    BY <2>1, <2>2, ReadingIsSafe
<1> QED
  BY <1>1, <1>2, SendIsForward, DeliverIsForward, LoseIsForward, JoinIsForward,
     BootIsForward, AnnounceIsForward DEF FleetNext

\* It holds at the start.
LEMMA ForwardInvInit ==
  ASSUME FleetInit
  PROVE  ForwardInv
<1>1. \A b \in Boards : \E f \in 1..MaxBuild : board[b] = Booted(f)
  BY DEF FleetInit
<1>2. ASSUME NEW b \in Boards
      PROVE  InAir(b) /\ InBuffer(b) /\ InHand(b) /\ Dead(b)
  <2>1. PICK f \in 1..MaxBuild : board[b] = Booted(f)
    BY <1>1
  <2>2. f \in Build \cup {Broken} /\ f # Broken
    BY FleetAssumption DEF Build
  <2>3. /\ board[b].buf.url = 0 /\ board[b].fw = f
        /\ board[b].ready = FALSE /\ board[b].joining = FALSE
    BY <2>1, <2>2, BootedIs
  <2> QED
    BY <2>2, <2>3 DEF FleetInit, InAir, InBuffer, InHand, Dead
<1>3. \A e \in Engines : Heard(e)
  BY DEF FleetInit, Heard
<1>4. node.url <= newest.url
  BY DEF FleetInit, NoImage
<1> QED
  BY <1>2, <1>3, <1>4 DEF ForwardInv

\* No other step than a restart changes what a board runs.
LEMMA OnlyABootChanges ==
  ASSUME FleetTypeOK, [FleetNext]_fleetVars, NEW b \in Boards, board'[b].fw # board[b].fw
  PROVE  FleetRestart(b) \/ WifiJoin(b)
<1> USE Numbers
<1>1. ASSUME NEW c \in Boards, Deliver(c)
      PROVE  board'[b].fw = board[b].fw
  <2>1. Head(air[c]) \in Frame /\ board[c] \in Record
    BY <1>1, TypeParts, HeadTailProperties DEF Deliver, AirType
  <2>2. Chunk(board[c], Head(air[c])).fw = board[c].fw
    BY <2>1, ChunkIs
  <2> QED
    BY <1>1, <2>2, TypeParts DEF Deliver, BoardType
<1>2. ASSUME NEW c \in Boards, Join(c)
      PROVE  board'[b].fw = board[b].fw
  <2>1. [board[c] EXCEPT !.ready = FALSE, !.joining = TRUE].fw = board[c].fw
    BY DEF Record
  <2> QED
    BY <1>2, <2>1, TypeParts DEF Join, BoardType
<1>3. ASSUME NEW e \in Engines, Announce(e)
      PROVE  board'[b].fw = board[b].fw
  <2>1. [board[BoardOf[e]] EXCEPT !.on = TRUE].fw = board[BoardOf[e]].fw
    BY DEF Record
  <2>2. board' = [board EXCEPT ![BoardOf[e]] = [board[BoardOf[e]] EXCEPT !.on = TRUE]]
    BY <1>3 DEF Announce
  <2> QED
    BY <2>1, <2>2, TypeParts DEF BoardType
<1>4. ASSUME NEW c \in Boards, c # b, FleetRestart(c) \/ WifiJoin(c)
      PROVE  board'[b].fw = board[b].fw
  BY <1>4, TypeParts DEF FleetRestart, WifiJoin, BoardType
<1>5. CASE UNCHANGED board
  BY <1>5
<1> QED
  BY <1>1, <1>2, <1>3, <1>4, <1>5
  DEF FleetNext, CheckFleet, Close, UpdateAllStart, Watch, Timeout, HelmUpdates, Lose,
      AgeOut, Release, fleetVars, helmVars, boardVars

\* No board goes back to an older build, however old the bursts in flight and
\* however stale what the HELM has heard (ota_send_update_all, ota_tick).
THEOREM BoardsOnlyMoveForward ==
  FleetSpec => NoDowngrade
<1>1. FleetInit => FleetTypeOK /\ ForwardInv
  BY TypeInit, ForwardInvInit
<1>2. FleetTypeOK /\ ForwardInv /\ [FleetNext]_fleetVars => (FleetTypeOK /\ ForwardInv)'
  BY TypeStep, ForwardInvStep
<1>3. FleetTypeOK /\ ForwardInv /\ [FleetNext]_fleetVars => ForwardStep
  <2>1. SUFFICES ASSUME FleetTypeOK, ForwardInv, [FleetNext]_fleetVars, NEW b \in Boards,
                        board[b].fw # Broken, board'[b].fw # Broken
                 PROVE  board'[b].fw >= board[b].fw
    BY DEF ForwardStep
  <2>2. CASE board'[b].fw = board[b].fw
    BY <2>1, <2>2, Numbers
  <2>3. CASE board'[b].fw # board[b].fw
    BY <2>1, <2>3, OnlyABootChanges, BootIsForward
  <2> QED
    BY <2>2, <2>3
<1> QED
  BY <1>1, <1>2, <1>3, PTL DEF FleetSpec, NoDowngrade

\* A board that was told a checksum runs, after a download, the very build the
\* checksum is of, or what it ran before (ota_tick, apply).
THEOREM ChecksumIsBelieved ==
  FleetSpec => ChecksumHolds
<1>1. FleetInit => FleetTypeOK /\ ForwardInv
  BY TypeInit, ForwardInvInit
<1>2. FleetTypeOK /\ ForwardInv /\ [FleetNext]_fleetVars => (FleetTypeOK /\ ForwardInv)'
  BY TypeStep, ForwardInvStep
<1>3. FleetTypeOK /\ ForwardInv /\ [FleetNext]_fleetVars => ChecksumStep
  BY OnlyABootChanges, BootIsForward DEF ChecksumStep
<1> QED
  BY <1>1, <1>2, <1>3, PTL DEF FleetSpec, ChecksumHolds

\* So what a board runs is what it was meant to run, whatever frames were lost.
THEOREM FlashedRight ==
  FleetSpec => FlashedAsMeant
BY BoardsOnlyMoveForward, ChecksumIsBelieved, PTL
DEF NoDowngrade, ChecksumHolds, FlashedAsMeant

-----------------------------------------------------------------------------
(* The HELM goes last.  Where no two engines share a board, an engine that   *)
(* is waited for is behind the build it was sent, or has it and nothing more *)
(* in hand that could take it away again, nor on its way that it would hear. *)

OneEach == \A d, e \in Engines : BoardOf[d] = BoardOf[e] => d = e

\* r: the engine's board; h: the build heard of it; i: its item; quiet: nothing under way.
HasIt(r, n) == r.fw # Broken /\ r.fw >= n /\ ~r.ready /\ ~r.joining
Behind(r, h, n) == h < n /\ (r.fw # Broken => r.fw < n)
InOrder(r, h, i, quiet) ==
    /\ r.ready \/ r.joining => r.on
    /\ r.on => h \in {0, r.fw}
    /\ i.st = "waiting" =>
         /\ i.build > 0
         /\ \/ Behind(r, h, i.build)
            \/ HasIt(r, i.build) /\ (quiet \/ (~r.on /\ h < i.build))
    /\ i.st = "done" => HasIt(r, i.build) /\ quiet

EngineInOrder(e) == InOrder(board[BoardOf[e]], heard[e], item[e], air[BoardOf[e]] = <<>>)
LastInv ==
    /\ \A e \in Engines : EngineInOrder(e)
    /\ ua.due => \A e \in Engines : item[e].st \in {"none", "done"}

Items == [build : Build, st : {"none", "waiting", "done", "failed"}]
LEMMA BuildsAre ==
  /\ Build \subseteq Nat /\ 0 \in Build /\ Broken \notin Nat
  /\ \A r \in Record : r.fw \in Nat \cup {Broken} /\ r.on \in BOOLEAN /\ r.ready \in BOOLEAN /\ r.joining \in BOOLEAN
  /\ \A i \in Items : i.build \in Nat
  BY FleetAssumption DEF Build, Record, Items

\* What is forgotten of an engine, and a frame that is gone.
LEMMA ForgetInOrder ==
  ASSUME NEW r \in Record, NEW h \in Build, NEW i \in Items, NEW q \in BOOLEAN, NEW q2 \in BOOLEAN,
         InOrder(r, h, i, q), q => q2, NEW g \in {0, h}
  PROVE  InOrder(r, g, i, q2)
<1>1. r.ready \/ r.joining => r.on
  BY Zenon DEF InOrder
<1>2. r.on => g \in {0, r.fw}
  BY Zenon DEF InOrder
<1>3. h \in Nat /\ g \in Nat /\ g <= h /\ i.build \in Nat
  BY BuildsAre
<1>4. ASSUME i.st = "waiting"
      PROVE  /\ i.build > 0
             /\ \/ Behind(r, g, i.build)
                \/ HasIt(r, i.build) /\ (q2 \/ (~r.on /\ g < i.build))
  <2>1. i.build > 0
    BY <1>4, Zenon DEF InOrder
  <2>2. CASE Behind(r, h, i.build)
    BY <1>3, <2>2 DEF Behind
  <2>3. CASE HasIt(r, i.build) /\ q
    BY <2>1, <2>3, Zenon
  <2>4. CASE HasIt(r, i.build) /\ ~r.on /\ h < i.build
    <3>1. g < i.build
      BY <1>3, <2>4
    <3> QED
      BY <2>1, <2>4, <3>1, Zenon
  <2> QED
    BY <1>4, <2>2, <2>3, <2>4, Zenon DEF InOrder
<1>5. i.st = "done" => HasIt(r, i.build) /\ q2
  BY Zenon DEF InOrder
<1> QED
  BY <1>1, <1>2, <1>4, <1>5, Zenon DEF InOrder

\* An item that nothing is said of.
LEMMA NoItemInOrder ==
  ASSUME NEW r \in Record, NEW h \in Build, NEW i \in Items, NEW j \in Items, NEW q \in BOOLEAN, NEW q2 \in BOOLEAN,
         InOrder(r, h, i, q), j.st \notin {"waiting", "done"}
  PROVE  InOrder(r, h, j, q2)
  BY Zenon DEF InOrder

\* A frame that is heard: something was under way.
LEMMA HearInOrder ==
  ASSUME NEW r \in Record, NEW h \in Build, NEW i \in Items, NEW s \in Record, NEW q \in BOOLEAN,
         InOrder(r, h, i, FALSE), r.on, s.on = r.on, s.fw = r.fw
  PROVE  InOrder(s, h, i, q)
<1>1. i.st # "done" /\ (i.st = "waiting" => i.build > 0 /\ Behind(r, h, i.build))
  BY Zenon DEF InOrder
<1>2. Behind(r, h, i.build) => Behind(s, h, i.build)
  BY DEF Behind
<1>3. r.on => h \in {0, r.fw}
  BY Zenon DEF InOrder
<1>4. s.on => h \in {0, s.fw}
  BY <1>3
<1>5. s.on
  OBVIOUS
<1> QED
  BY <1>1, <1>2, <1>4, <1>5, Zenon DEF InOrder

\* The board leaves the bus for what it has in hand.
LEMMA JoinInOrder ==
  ASSUME NEW r \in Record, NEW h \in Build, NEW i \in Items, NEW s \in Record, NEW q \in BOOLEAN,
         InOrder(r, h, i, q), r.ready, s.on = r.on, s.fw = r.fw
  PROVE  InOrder(s, h, i, q)
<1>1. i.st # "done" /\ (i.st = "waiting" => i.build > 0 /\ Behind(r, h, i.build))
  BY Zenon DEF InOrder, HasIt
<1>2. Behind(r, h, i.build) => Behind(s, h, i.build)
  BY DEF Behind
<1>3. (r.on => h \in {0, r.fw}) /\ r.on
  BY Zenon DEF InOrder
<1>4. s.on /\ h \in {0, s.fw}
  BY <1>3
<1> QED
  BY <1>1, <1>2, <1>4, Zenon DEF InOrder

\* A restart, after which the board has nothing in hand: only one that had an image in
\* hand runs another than before.
LEMMA BootInOrder ==
  ASSUME NEW r \in Record, NEW h \in Build, NEW i \in Items, NEW f \in Build \cup {Broken},
         InOrder(r, h, i, TRUE), f = r.fw \/ r.joining
  PROVE  InOrder(Booted(f), h, i, TRUE)
<1> DEFINE s == Booted(f)
<1>1. s \in Record /\ s.fw = f /\ ~s.on /\ ~s.ready /\ ~s.joining
  BY BootedIs
<1> HIDE DEF s
<1>2. f \in Nat \cup {Broken} /\ Broken \notin Nat /\ i.build \in Nat /\ h \in Nat
  BY BuildsAre
<1>3. HasIt(r, i.build) => HasIt(s, i.build)
  <2> SUFFICES ASSUME HasIt(r, i.build) PROVE HasIt(s, i.build)
    OBVIOUS
  <2>1. ~r.joining
    BY Zenon DEF HasIt
  <2>2. f = r.fw
    BY <2>1
  <2>3. r.fw # Broken /\ r.fw >= i.build
    BY Zenon DEF HasIt
  <2>4. s.fw # Broken /\ s.fw >= i.build
    BY <1>1, <2>2, <2>3
  <2> QED
    BY <1>1, <2>4, Zenon DEF HasIt
<1>4. ASSUME i.st = "waiting", Behind(r, h, i.build)
      PROVE  Behind(s, h, i.build) \/ HasIt(s, i.build)
  <2>1. h < i.build
    BY <1>4, Zenon DEF Behind
  <2>2. CASE f = Broken \/ f < i.build
    <3>1. Behind(s, h, i.build)
      BY <1>1, <2>1, <2>2 DEF Behind
    <3> QED
      BY <3>1
  <2>3. CASE f # Broken /\ ~(f < i.build)
    <3>1. s.fw # Broken /\ s.fw >= i.build
      BY <1>1, <1>2, <2>3
    <3> QED
      BY <1>1, <3>1, Zenon DEF HasIt
  <2> QED
    BY <2>2, <2>3, Zenon
<1>5. InOrder(s, h, i, TRUE)
  BY <1>1, <1>3, <1>4, Zenon DEF InOrder
<1> QED
  BY <1>5 DEF s

\* The engine is heard of.
LEMMA AnnounceInOrder ==
  ASSUME NEW r \in Record, NEW h \in Build, NEW i \in Items, NEW s \in Record, NEW q \in BOOLEAN,
         InOrder(r, h, i, q), ~r.joining, r.fw # Broken, r.on \/ q,
         s.on, s.fw = r.fw, s.ready = r.ready, s.joining = r.joining
  PROVE  InOrder(s, r.fw, i, q)
<1>1. HasIt(r, i.build) => HasIt(s, i.build)
  BY DEF HasIt
<1>2. Behind(r, h, i.build) => Behind(s, r.fw, i.build)
  BY DEF Behind
<1>3. i.st = "waiting" => /\ i.build > 0
                          /\ Behind(r, h, i.build) \/ (HasIt(r, i.build) /\ q)
  BY Zenon DEF InOrder
<1>4. i.st = "done" => HasIt(r, i.build) /\ q
  BY Zenon DEF InOrder
<1>5. r.fw \in {0, s.fw}
  OBVIOUS
<1> QED
  BY <1>1, <1>2, <1>3, <1>4, <1>5, Zenon DEF InOrder

\* Update All sees that an engine runs what it was sent.
LEMMA SeenInOrder ==
  ASSUME NEW r \in Record, NEW h \in Build, NEW i \in Items, NEW j \in Items, NEW q \in BOOLEAN,
         InOrder(r, h, i, q), i.st = "waiting", h >= i.build, j.build = i.build, j.st = "done"
  PROVE  InOrder(r, h, j, q)
<1>1. ~(h < i.build)
  BY BuildsAre
<1>2. HasIt(r, i.build) /\ q
  BY <1>1, Zenon DEF InOrder, Behind
<1>3. HasIt(r, j.build)
  BY <1>2
<1> QED
  BY <1>2, <1>3, Zenon DEF InOrder

\* A burst is sent, with nothing under way, for an engine heard of with an older build.
LEMMA SentInOrder ==
  ASSUME NEW r \in Record, NEW h \in Build, NEW i \in Items, NEW j \in Items, NEW q \in BOOLEAN,
         InOrder(r, h, i, TRUE), h # 0, h < j.build, j.st = "waiting"
  PROVE  InOrder(r, h, j, q)
<1>1. h \in Nat /\ j.build \in Nat /\ j.build > 0 /\ r.fw \in Nat \cup {Broken} /\ Broken \notin Nat
  BY BuildsAre
<1>2. (r.ready \/ r.joining => r.on) /\ (r.on => h \in {0, r.fw})
  BY Zenon DEF InOrder
<1>3. CASE r.fw = Broken \/ r.fw < j.build
  <2>1. Behind(r, h, j.build)
    BY <1>3 DEF Behind
  <2> QED
    BY <1>1, <1>2, <2>1, Zenon DEF InOrder
<1>4. CASE r.fw # Broken /\ ~(r.fw < j.build)
  <2>1. r.fw >= j.build /\ h # r.fw
    BY <1>1, <1>4
  <2>2. ~r.on
    BY <1>2, <2>1
  <2>3. HasIt(r, j.build)
    BY <1>2, <1>4, <2>1, <2>2, Zenon DEF HasIt
  <2> QED
    BY <1>1, <1>2, <2>2, <2>3, Zenon DEF InOrder
<1> QED
  BY <1>3, <1>4, Zenon

\* The types, engine by engine.
LEMMA EngineTypes ==
  ASSUME FleetTypeOK
  PROVE  /\ \A b \in Boards : board[b] \in Record
         /\ \A e \in Engines : BoardOf[e] \in Boards /\ heard[e] \in Build /\ item[e] \in Items
  BY FleetAssumption, TypeParts DEF HelmType, BoardType, Items

\* With the HELM left alone but for what it hears, a step of one board is enough to look at.
LEMMA OneBoardInOrder ==
  ASSUME FleetTypeOK, LastInv, NEW b \in Boards, ua' = ua, item' = item,
         \A c \in Boards : c # b => board'[c] = board[c] /\ air'[c] = air[c],
         \A e \in Engines : BoardOf[e] # b => heard'[e] = heard[e],
         \A e \in Engines : BoardOf[e] = b => EngineInOrder(e)'
  PROVE  LastInv'
<1>1. ASSUME NEW e \in Engines
      PROVE  EngineInOrder(e)'
  <2>1. CASE BoardOf[e] = b
    BY <2>1
  <2>2. CASE BoardOf[e] # b
    <3>1. /\ board'[BoardOf[e]] = board[BoardOf[e]] /\ air'[BoardOf[e]] = air[BoardOf[e]]
          /\ heard'[e] = heard[e] /\ item'[e] = item[e]
      BY <2>2, EngineTypes
    <3>2. EngineInOrder(e)
      BY DEF LastInv
    <3> QED
      BY <3>1, <3>2, Zenon DEF EngineInOrder
  <2> QED
    BY <2>1, <2>2
<1>2. (ua.due => \A e \in Engines : item[e].st \in {"none", "done"})'
  BY DEF LastInv
<1> QED
  BY <1>1, <1>2, Zenon DEF LastInv

\* The HELM's steps that touch no board, and forget of an engine at most that it is there.
LEMMA LeaveInOrder ==
  ASSUME FleetTypeOK, LastInv, air' = air, board' = board, item' = item,
         ua'.due => ua.due, \A e \in Engines : heard'[e] \in {0, heard[e]}
  PROVE  LastInv'
<1>1. ASSUME NEW e \in Engines
      PROVE  EngineInOrder(e)'
  <2> DEFINE q == air[BoardOf[e]] = <<>>
  <2>1. InOrder(board[BoardOf[e]], heard[e], item[e], q)
    BY Zenon DEF LastInv, EngineInOrder
  <2>2. q \in BOOLEAN
    OBVIOUS
  <2> HIDE DEF q
  <2>3. InOrder(board[BoardOf[e]], heard'[e], item[e], q)
    BY <2>1, <2>2, EngineTypes, ForgetInOrder
  <2>4. InOrder(board'[BoardOf[e]], heard'[e], item'[e], q)
    BY <2>3, Zenon
  <2> QED
    BY <2>4, Zenon DEF EngineInOrder, q
<1>2. (ua.due => \A e \in Engines : item[e].st \in {"none", "done"})'
  BY DEF LastInv
<1> QED
  BY <1>1, <1>2, Zenon DEF LastInv

\* A burst goes out only with nothing under way (ota_send_update_all).
LEMMA SendKeepsOrder ==
  ASSUME FleetTypeOK, LastInv, UpdateAllStart
  PROVE  LastInv'
<1>1. /\ board' = board /\ heard' = heard /\ \A b \in Boards : air[b] = <<>>
      /\ item' = [e \in Engines |-> IF OutOfDate(e) THEN [build |-> node.url, st |-> "waiting"]
                                    ELSE NoItem]
      /\ ua'.due = ({e \in Engines : OutOfDate(e)} = {})
  BY DEF UpdateAllStart
<1>2. node.url \in Nat /\ node.url \in Build
  BY BuildsAre, TypeParts DEF HelmType, Image
<1>3. NoItem \in Items /\ NoItem.st = "none"
  BY BuildsAre DEF NoItem, Items
<1>4. ASSUME NEW e \in Engines
      PROVE  EngineInOrder(e)'
  <2> DEFINE j == item'[e]
             p == air'[BoardOf[e]] = <<>>
  <2>1. air[BoardOf[e]] = <<>>
    BY <1>1, EngineTypes
  <2>2. InOrder(board[BoardOf[e]], heard[e], item[e], TRUE)
    BY <2>1, Zenon DEF LastInv, EngineInOrder
  <2>3. p \in BOOLEAN
    OBVIOUS
  <2>4. CASE OutOfDate(e)
    <3>1. j = [build |-> node.url, st |-> "waiting"]
      BY <1>1, <2>4
    <3>2. j \in Items /\ j.build = node.url /\ j.st = "waiting"
      BY <1>2, <3>1 DEF Items
    <3>3. heard[e] # 0 /\ heard[e] < j.build
      BY <2>4, <3>2 DEF OutOfDate
    <3> HIDE DEF j, p
    <3>4. InOrder(board[BoardOf[e]], heard[e], j, p)
      BY <2>2, <2>3, <3>2, <3>3, EngineTypes, SentInOrder
    <3> QED
      BY <1>1, <3>4, Zenon DEF EngineInOrder, j, p
  <2>5. CASE ~OutOfDate(e)
    <3>1. j = NoItem
      BY <1>1, <2>5
    <3>2. j \in Items /\ j.st = "none"
      BY <1>3, <3>1
    <3> HIDE DEF j, p
    <3>3. InOrder(board[BoardOf[e]], heard[e], j, p)
      <4>1. j.st \notin {"waiting", "done"}
        BY <3>2
      <4> QED
        BY <2>2, <2>3, <3>2, <4>1, EngineTypes, NoItemInOrder
    <3> QED
      BY <1>1, <3>3, Zenon DEF EngineInOrder, j, p
  <2> QED
    BY <2>4, <2>5
<1>5. ua'.due => \A e \in Engines : item'[e].st \in {"none", "done"}
  BY <1>1, <1>3
<1> QED
  BY <1>4, <1>5, Zenon DEF LastInv

\* An engine is done when it is heard to run its build (update_all_tick).
LEMMA WatchKeepsOrder ==
  ASSUME FleetTypeOK, LastInv, Watch
  PROVE  LastInv'
<1>1. /\ board' = board /\ heard' = heard /\ air' = air
      /\ item' = [e \in Engines |-> Watched(e)]
      /\ ua' = IF ua.due \/ \E e \in Engines : item'[e].st = "waiting" THEN ua
               ELSE IF ua.after /\ \A e \in Engines : item'[e].st # "failed"
                    THEN [ua EXCEPT !.due = TRUE]
                    ELSE [ua EXCEPT !.active = FALSE]
  BY DEF Watch, boardVars
<1>2. \A e \in Engines :
         /\ item'[e] \in Items /\ item'[e].build = item[e].build
         /\ \/ item'[e] = item[e]
            \/ item[e].st = "waiting" /\ heard[e] >= item[e].build /\ item'[e].st = "done"
            \/ item[e].st = "waiting" /\ item'[e].st = "failed"
  BY <1>1, EngineTypes DEF Watched, Items
<1>3. ASSUME NEW e \in Engines
      PROVE  EngineInOrder(e)'
  <2> DEFINE q == air[BoardOf[e]] = <<>>
             j == item'[e]
  <2>1. InOrder(board[BoardOf[e]], heard[e], item[e], q) /\ q \in BOOLEAN
    BY Zenon DEF LastInv, EngineInOrder
  <2>2. j \in Items /\ j.build = item[e].build
    BY <1>2
  <2>3. \/ j = item[e]
        \/ item[e].st = "waiting" /\ heard[e] >= item[e].build /\ j.st = "done"
        \/ item[e].st = "waiting" /\ j.st = "failed"
    BY <1>2
  <2> HIDE DEF q, j
  <2>4. InOrder(board[BoardOf[e]], heard[e], j, q)
    <3>1. CASE j = item[e]
      BY <2>1, <3>1
    <3>2. CASE item[e].st = "waiting" /\ heard[e] >= item[e].build /\ j.st = "done"
      BY <2>1, <2>2, <3>2, EngineTypes, SeenInOrder
    <3>3. CASE j.st = "failed"
      <4>1. j.st \notin {"waiting", "done"}
        BY <3>3
      <4> QED
        BY <2>1, <2>2, <4>1, EngineTypes, NoItemInOrder
    <3> QED
      BY <2>3, <3>1, <3>2, <3>3
  <2> QED
    BY <1>1, <2>4, Zenon DEF EngineInOrder, q, j
<1>4. ASSUME ua'.due, NEW e \in Engines
      PROVE  item'[e].st \in {"none", "done"}
  <2>1. CASE ua.due
    <3>1. item[e].st \in {"none", "done"}
      BY <2>1 DEF LastInv
    <3> QED
      BY <1>2, <3>1
  <2>2. CASE ~ua.due
    <3>1. ua \in [active : BOOLEAN, after : BOOLEAN, due : BOOLEAN, late : BOOLEAN]
      BY TypeParts DEF HelmType
    <3>2. [ua EXCEPT !.active = FALSE].due = ua.due
      BY <3>1
    <3>3. /\ ~\E d \in Engines : item'[d].st = "waiting"
          /\ \A d \in Engines : item'[d].st # "failed"
      BY <1>1, <1>4, <2>2, <3>2
    <3>4. item'[e].st \in {"none", "waiting", "done", "failed"}
      BY <1>2 DEF Items
    <3> QED
      BY <3>3, <3>4
  <2> QED
    BY <2>1, <2>2
<1> QED
  BY <1>3, <1>4, Zenon DEF LastInv

\* A restart of the HELM forgets the items and the engines.
LEMMA HelmUpdateKeepsOrder ==
  ASSUME FleetTypeOK, LastInv, HelmUpdates
  PROVE  LastInv'
<1>1. board' = board /\ air' = air /\ ua'.due = FALSE
  <2>1. ua \in [active : BOOLEAN, after : BOOLEAN, due : BOOLEAN, late : BOOLEAN]
    BY TypeParts DEF HelmType
  <2>2. [ua EXCEPT !.active = FALSE, !.due = FALSE].due = FALSE
    BY <2>1
  <2>3. NoUpdate.due = FALSE
    BY DEF NoUpdate
  <2>4. ua' = [ua EXCEPT !.active = FALSE, !.due = FALSE] \/ ua' = NoUpdate
    BY DEF HelmUpdates
  <2>5. ua'.due = FALSE
    BY <2>2, <2>3, <2>4
  <2>6. board' = board /\ air' = air
    BY DEF HelmUpdates, boardVars
  <2> QED
    BY <2>5, <2>6
<1>2. CASE heard' = heard /\ item' = item
  BY <1>1, <1>2, LeaveInOrder
<1>3. CASE heard' = [e \in Engines |-> 0] /\ item' = [e \in Engines |-> NoItem]
  <2>1. ASSUME NEW e \in Engines
        PROVE  EngineInOrder(e)'
    <3> DEFINE q == air[BoardOf[e]] = <<>>
    <3>1. InOrder(board[BoardOf[e]], heard[e], item[e], q) /\ q \in BOOLEAN
      BY Zenon DEF LastInv, EngineInOrder
    <3>2. NoItem \in Items /\ NoItem.st \notin {"waiting", "done"} /\ 0 \in Build
      BY BuildsAre DEF NoItem, Items
    <3> HIDE DEF q
    <3>3. InOrder(board[BoardOf[e]], 0, item[e], q)
      BY <3>1, EngineTypes, ForgetInOrder
    <3>4. InOrder(board[BoardOf[e]], 0, NoItem, q)
      BY <3>1, <3>2, <3>3, EngineTypes, NoItemInOrder
    <3>5. heard'[e] = 0 /\ item'[e] = NoItem
      BY <1>3
    <3> QED
      BY <1>1, <3>4, <3>5, Zenon DEF EngineInOrder, q
  <2> QED
    BY <1>1, <2>1, Zenon DEF LastInv
<1> QED
  BY <1>2, <1>3 DEF HelmUpdates

\* A frame that arrives or is lost: its board's engine was not done with it.
LEMMA FrameKeepsOrder ==
  ASSUME FleetTypeOK, LastInv, NEW b \in Boards, Deliver(b) \/ Lose(b)
  PROVE  LastInv'
<1>1. /\ air[b] # <<>> /\ ua' = ua /\ item' = item /\ heard' = heard
      /\ air' = [air EXCEPT ![b] = Tail(@)]
      /\ \/ board' = board
         \/ Hears(b) /\ board' = [board EXCEPT ![b] = Chunk(@, Head(air[b]))]
  BY DEF Deliver, Lose, helmVars
<1>2. board[b] \in Record /\ Head(air[b]) \in Frame
  BY <1>1, TypeParts, Numbers DEF AirType
<1>3. \A c \in Boards : c # b => board'[c] = board[c] /\ air'[c] = air[c]
  BY <1>1, TypeParts DEF BoardType, AirType
<1>4. \/ board'[b] = board[b]
      \/ board[b].on /\ board'[b] = Chunk(board[b], Head(air[b]))
  BY <1>1, TypeParts DEF BoardType, Hears
<1>5. ASSUME NEW e \in Engines, BoardOf[e] = b
      PROVE  EngineInOrder(e)'
  <2> DEFINE s == board'[b]
             q == air'[b] = <<>>
  <2>1. InOrder(board[b], heard[e], item[e], FALSE)
    BY <1>1, <1>5, Zenon DEF LastInv, EngineInOrder
  <2>2. q \in BOOLEAN
    OBVIOUS
  <2>3. CASE board'[b] = board[b]
    <3> HIDE DEF q
    <3>1. InOrder(board[b], heard[e], item[e], q)
      BY <1>2, <2>1, <2>2, EngineTypes, ForgetInOrder
    <3> QED
      BY <1>1, <1>5, <2>3, <3>1, Zenon DEF EngineInOrder, q
  <2>4. CASE board[b].on /\ board'[b] = Chunk(board[b], Head(air[b]))
    <3>1. s \in Record
      BY <1>2, <2>4, ChunkIs
    <3>2. s.on = board[b].on
      <4>1. Chunk(board[b], Head(air[b])).on = board[b].on
        BY <1>2, ChunkIs, Zenon
      <4> QED
        BY <2>4, <4>1, Zenon
    <3>3. s.fw = board[b].fw
      BY <1>2, <2>4, ChunkIs
    <3> HIDE DEF q, s
    <3>4. InOrder(s, heard[e], item[e], q)
      BY <1>2, <2>1, <2>2, <2>4, <3>1, <3>2, <3>3, EngineTypes, HearInOrder
    <3> QED
      BY <1>1, <1>5, <3>4, Zenon DEF EngineInOrder, q, s
  <2> QED
    BY <1>4, <2>3, <2>4
<1> QED
  BY <1>1, <1>3, <1>5, OneBoardInOrder

\* A board that leaves the bus had an image in hand: its engine was not done.
LEMMA JoinKeepsOrder ==
  ASSUME FleetTypeOK, LastInv, NEW b \in Boards, Join(b)
  PROVE  LastInv'
<1>1. /\ board[b].ready /\ ua' = ua /\ item' = item /\ heard' = heard /\ air' = air
      /\ board' = [board EXCEPT ![b] = [board[b] EXCEPT !.ready = FALSE, !.joining = TRUE]]
  BY DEF Join, helmVars
<1>2. board[b] \in Record
  BY Numbers
<1>3. board'[b] = [board[b] EXCEPT !.ready = FALSE, !.joining = TRUE]
  BY <1>1, TypeParts DEF BoardType
<1>4. \A c \in Boards : c # b => board'[c] = board[c] /\ air'[c] = air[c]
  BY <1>1, TypeParts DEF BoardType
<1>5. ASSUME NEW e \in Engines, BoardOf[e] = b
      PROVE  EngineInOrder(e)'
  <2> DEFINE s == board'[b]
             q == air[b] = <<>>
  <2>1. InOrder(board[b], heard[e], item[e], q) /\ q \in BOOLEAN
    BY <1>5, Zenon DEF LastInv, EngineInOrder
  <2>2. s \in Record
    BY <1>2, <1>3 DEF Record
  <2>3. s.on = board[b].on
    BY <1>2, <1>3 DEF Record
  <2>4. s.fw = board[b].fw
    BY <1>2, <1>3 DEF Record
  <2> HIDE DEF q, s
  <2>5. InOrder(s, heard[e], item[e], q)
    BY <1>1, <1>2, <2>1, <2>2, <2>3, <2>4, EngineTypes, JoinInOrder
  <2> QED
    BY <1>1, <1>5, <2>5, Zenon DEF EngineInOrder, q, s
<1> QED
  BY <1>1, <1>4, <1>5, OneBoardInOrder

\* A board restarts with nothing on its way to it.
LEMMA BootKeepsOrder ==
  ASSUME FleetTypeOK, LastInv, NEW b \in Boards, FleetRestart(b) \/ WifiJoin(b)
  PROVE  LastInv'
<1>1. /\ air[b] = <<>> /\ ua' = ua /\ item' = item /\ heard' = heard /\ air' = air
      /\ \A c \in Boards : c # b => board'[c] = board[c]
  BY TypeParts DEF FleetRestart, WifiJoin, helmVars, BoardType
<1>2. PICK w \in Build \cup {Broken} :
         /\ board'[b] = Booted(w)
         /\ \/ w = board[b].fw
            \/ /\ board[b].joining /\ w \in {board[b].url, Broken}
               /\ board[b].sum \in {0, w}
  BY RestartIs
<1>3. ASSUME NEW e \in Engines, BoardOf[e] = b
      PROVE  EngineInOrder(e)'
  <2>1. InOrder(board[b], heard[e], item[e], TRUE)
    BY <1>1, <1>3, Zenon DEF LastInv, EngineInOrder
  <2>2. board[b] \in Record /\ heard[e] \in Build /\ item[e] \in Items
    BY EngineTypes
  <2>3. w = board[b].fw \/ board[b].joining
    BY <1>2
  <2>4. InOrder(Booted(w), heard[e], item[e], TRUE)
    BY <2>1, <2>2, <2>3, BootInOrder
  <2>5. air'[b] = <<>>
    BY <1>1
  <2> QED
    BY <1>1, <1>2, <1>3, <2>4, <2>5, Zenon DEF EngineInOrder
<1> QED
  BY <1>1, <1>3, OneBoardInOrder

\* The announcement that ends a wait comes after all that was sent.
LEMMA AnnounceKeepsOrder ==
  ASSUME OneEach, FleetTypeOK, LastInv, NEW e \in Engines, Announce(e)
  PROVE  LastInv'
<1> DEFINE b == BoardOf[e]
<1>1. /\ ~board[b].joining /\ board[b].fw # Broken /\ (board[b].on \/ air[b] = <<>>)
      /\ ua' = ua /\ item' = item /\ air' = air
      /\ heard' = [heard EXCEPT ![e] = board[b].fw]
      /\ board' = [board EXCEPT ![b] = [board[b] EXCEPT !.on = TRUE]]
  BY DEF Announce
<1>2. b \in Boards /\ board[b] \in Record
  BY EngineTypes
<1>3. board'[b] = [board[b] EXCEPT !.on = TRUE]
  BY <1>1, <1>2, TypeParts DEF BoardType
<1>4. \A c \in Boards : c # b => board'[c] = board[c] /\ air'[c] = air[c]
  BY <1>1, <1>2, TypeParts DEF BoardType
<1>5. \A d \in Engines : d # e => heard'[d] = heard[d]
  BY <1>1, TypeParts DEF HelmType
<1>6. heard'[e] = board[b].fw
  BY <1>1, TypeParts DEF HelmType
<1>7. EngineInOrder(e)'
  <2> DEFINE s == board'[b]
             q == air[b] = <<>>
  <2>1. InOrder(board[b], heard[e], item[e], q) /\ q \in BOOLEAN
    BY Zenon DEF LastInv, EngineInOrder
  <2>2. s \in Record /\ s.on
    BY <1>2, <1>3 DEF Record
  <2>3. s.fw = board[b].fw
    BY <1>2, <1>3 DEF Record
  <2>4. s.ready = board[b].ready
    BY <1>2, <1>3 DEF Record
  <2>5. s.joining = board[b].joining
    BY <1>2, <1>3 DEF Record
  <2>6. board[b].on \/ q
    BY <1>1
  <2> HIDE DEF q, s
  <2>7. InOrder(s, board[b].fw, item[e], q)
    BY <1>1, <1>2, <2>1, <2>2, <2>3, <2>4, <2>5, <2>6, EngineTypes, AnnounceInOrder
  <2> QED
    BY <1>1, <1>6, <2>7, Zenon DEF EngineInOrder, q, s
<1>8. \A d \in Engines : BoardOf[d] = b => EngineInOrder(d)'
  BY <1>7, Zenon DEF OneEach
<1>9. \A d \in Engines : BoardOf[d] # b => heard'[d] = heard[d]
  BY <1>5
<1> HIDE DEF b
<1> QED
  BY <1>1, <1>2, <1>4, <1>8, <1>9, OneBoardInOrder

\* Every step keeps the invariant.
LEMMA LastInvStep ==
  ASSUME OneEach, FleetTypeOK, LastInv, [FleetNext]_fleetVars
  PROVE  LastInv'
<1>1. CASE CheckFleet \/ Close \/ Timeout \/ Release \/ UNCHANGED fleetVars
  <2>1. air' = air /\ board' = board /\ item' = item /\ heard' = heard
    BY <1>1 DEF CheckFleet, Close, Timeout, Release, fleetVars, helmVars, boardVars
  <2>2. ua'.due => ua.due
    <3>1. ua \in [active : BOOLEAN, after : BOOLEAN, due : BOOLEAN, late : BOOLEAN]
      BY TypeParts DEF HelmType
    <3>2. [ua EXCEPT !.active = FALSE, !.due = FALSE].due = FALSE
      BY <3>1
    <3>3. [ua EXCEPT !.late = TRUE].due = ua.due
      BY <3>1
    <3>4. \/ ua' = ua \/ ua' = [ua EXCEPT !.active = FALSE, !.due = FALSE]
          \/ ua' = [ua EXCEPT !.late = TRUE]
      BY <1>1 DEF CheckFleet, Close, Timeout, Release, fleetVars, helmVars
    <3> QED
      BY <3>2, <3>3, <3>4
  <2> QED
    BY <2>1, <2>2, LeaveInOrder
<1>2. ASSUME NEW e \in Engines, AgeOut(e)
      PROVE  LastInv'
  <2>1. air' = air /\ board' = board /\ item' = item /\ ua' = ua
    BY <1>2 DEF AgeOut, boardVars
  <2>2. \A i \in Engines : heard'[i] \in {0, heard[i]}
    BY <1>2, TypeParts DEF AgeOut, HelmType
  <2> QED
    BY <2>1, <2>2, LeaveInOrder
<1> QED
  BY <1>1, <1>2, SendKeepsOrder, WatchKeepsOrder, HelmUpdateKeepsOrder, FrameKeepsOrder,
     JoinKeepsOrder, BootKeepsOrder, AnnounceKeepsOrder DEF FleetNext

\* It holds at the start.
LEMMA LastInvInit ==
  ASSUME FleetInit
  PROVE  LastInv
<1>1. ASSUME NEW e \in Engines
      PROVE  EngineInOrder(e)
  <2>1. PICK f \in 1..MaxBuild : board[BoardOf[e]] = Booted(f)
    BY FleetAssumption DEF FleetInit
  <2>2. f \in Build \cup {Broken}
    BY FleetAssumption DEF Build
  <2>3. /\ board[BoardOf[e]].on = FALSE /\ board[BoardOf[e]].ready = FALSE
        /\ board[BoardOf[e]].joining = FALSE
    BY <2>1, <2>2, BootedIs
  <2>4. item[e].st = "none"
    BY DEF FleetInit, NoItem
  <2> QED
    BY <2>3, <2>4 DEF EngineInOrder, InOrder
<1>2. ua.due = FALSE
  BY DEF FleetInit, NoUpdate
<1> QED
  BY <1>1, <1>2 DEF LastInv

\* The HELM takes a new build only when the boards it sent one to run it, if no two of
\* the engines it knows are on one board (update_all_tick, g_ua_helm_at_ms).
THEOREM HelmIsLast ==
  ASSUME OneEach
  PROVE  FleetSpec => HelmGoesLast
<1>1. FleetInit => FleetTypeOK /\ LastInv
  BY TypeInit, LastInvInit
<1>2. FleetTypeOK /\ LastInv /\ [FleetNext]_fleetVars => (FleetTypeOK /\ LastInv)'
  BY TypeStep, LastInvStep
<1>3. FleetTypeOK /\ LastInv /\ [FleetNext]_fleetVars => [HelmStep]_fleetVars
  <2>1. SUFFICES ASSUME FleetTypeOK, LastInv, [FleetNext]_fleetVars, helmFw' # helmFw,
                        NEW e \in Engines, item[e].st # "none"
                 PROVE  board[BoardOf[e]].fw # Broken /\ board[BoardOf[e]].fw >= item[e].build
    BY DEF HelmStep
  <2>2. HelmUpdates
    BY <2>1 DEF FleetNext, CheckFleet, Close, UpdateAllStart, Watch, Timeout, Deliver, Lose,
        Join, FleetRestart, WifiJoin, Announce, AgeOut, Release, fleetVars, helmVars
  <2>3. item[e].st = "done"
    BY <2>1, <2>2 DEF HelmUpdates, LastInv
  <2>4. EngineInOrder(e)
    BY <2>1 DEF LastInv
  <2>5. HasIt(board[BoardOf[e]], item[e].build)
    BY <2>3, <2>4, Zenon DEF EngineInOrder, InOrder
  <2> QED
    BY <2>5 DEF HasIt
<1> QED
  BY <1>1, <1>2, <1>3, PTL DEF FleetSpec, HelmGoesLast

-----------------------------------------------------------------------------
(* PaperUpdate: what is installed.                                           *)

Working == {"fetch", "hash", "chmod", "prev", "out", "in"}

\* One updater works at a time, and only while the program runs.
Alone ==
  /\ \A t, u \in Updaters : thread[t].pc # "idle" /\ u # t => thread[u].pc = "idle"
  /\ \A t \in Updaters : thread[t].pc # "idle" => Runs

\* exe.prev is a whole version; so is exe if there is no exe.prev, or while the program
\* runs; and if it is not, a power cut has lost a part. While the program is up exe is
\* away only between two renames. What the disk does not have yet is in neither, except
\* in an exe put in place since, beside its exe.prev; exe.new is never another name's.
Filed ==
  /\ name.prev # None => Whole(disk[name.prev])
  /\ name.exe # None /\ (name.prev = None \/ Runs) => Whole(disk[name.exe])
  /\ name.exe # None => Whole(disk[name.exe]) \/ LostIn(disk[name.exe])
  /\ name.exe = None => name.prev # None
  /\ name.exe = None /\ program.up => \E t \in Updaters : thread[t].pc = "in"
  /\ launch.moved => ~program.up /\ name.exe = None
  /\ unsynced # None =>
       /\ unsynced # name.prev
       /\ unsynced = name.exe =>
            name.prev # None /\ \A t \in Updaters : thread[t].pc \notin Working
  /\ name.new # None => name.new # name.exe /\ name.new # name.prev

\* An updater at work has its file under exe.new: the parts that have come are the
\* release's unless it knows better, and past the hash all of them are.
Good(th) ==
  /\ th.pc \notin Working => th.ino = None
  /\ th.pc \in Working =>
       /\ name.new # None /\ th.rel \in Versions
       /\ th.pc \in {"fetch", "hash"} => th.ino = name.new
       /\ th.pc = "fetch" =>
            /\ th.part \in Parts
            /\ th.ok => \A q \in Parts : q < th.part => disk[name.new][q] = th.rel
       /\ th.pc = "hash" => (th.ok => \A q \in Parts : disk[name.new][q] = th.rel)
       /\ th.pc \notin {"fetch", "hash"} => Whole(disk[name.new])
       /\ th.pc = "in" => name.exe = None

Disks == [Inodes -> Contents]
UpdInv == ProgramTypeOK /\ Alone /\ Filed /\ \A t \in Updaters : Good(thread[t])

Names == [{"exe", "prev", "new"} -> Inodes \union {None}]
UpdaterRecord == [pc : UpdateSteps, rel : Versions \union {0}, ino : Inodes \union {None},
           part : 1..3, ok : BOOLEAN]

\* There are two updaters, each the other of the other.
LEMMA TwoUpdaters ==
  /\ Updaters = {"auto", "hand"}
  /\ OtherUpdater("auto") = "hand" /\ OtherUpdater("hand") = "auto"
  /\ \A t, u \in Updaters : u # t => u = OtherUpdater(t)
<1>1. OtherUpdater("auto") = "hand"
  BY DEF OtherUpdater, Updaters
<1>2. OtherUpdater("hand") = "auto"
  BY DEF OtherUpdater, Updaters
<1> QED
  BY <1>1, <1>2 DEF Updaters

\* A release has two parts.
LEMMA TwoParts == Cardinality(Parts) = 2
<1>1. 1 \in Int /\ 2 \in Int
  OBVIOUS
<1>2. Cardinality(1..2) = IF 1 > 2 THEN 0 ELSE 2 - 1 + 1
  BY <1>1, FS_Interval
<1> QED
  BY <1>2 DEF Parts

\* An updater that is idle, and both of them.
LEMMA IdleTyped == IdleThread \in UpdaterRecord /\ NoThreads \in [Updaters -> UpdaterRecord]
                   /\ IdleThread.pc = "idle" /\ IdleThread.ino = None
                   /\ \A t \in Updaters : NoThreads[t] = IdleThread
<1>1. IdleThread \in UpdaterRecord
  BY DEF IdleThread, UpdaterRecord, UpdateSteps, Inodes, None
<1> QED
  BY <1>1 DEF NoThreads, IdleThread

\* There is an inode free for a new file when no updater holds one: at most three
\* names are in use.
LEMMA SpareIsFree ==
  ASSUME name \in Names, \A t \in Updaters : thread[t].ino = None
  PROVE  Spare \in Inodes /\ Spare \notin {name.exe, name.prev, name.new}
<1>1. Used \subseteq {name.exe, name.prev, name.new, None}
  BY DEF Used, Names, Updaters
<1>2. {name.exe, name.prev, name.new} \subseteq Used
  BY DEF Used, Names
<1>3. \E i \in Inodes : i \notin Used /\ \A j \in Inodes \ Used : i <= j
  <2> DEFINE free(i) == i \notin Used
  <2>1. \E i \in {1, 2, 3, 4} : i \notin Used
    BY <1>1 DEF None
  <2> QED
    BY <2>1 DEF Inodes
<1>4. Spare \in Inodes /\ Spare \notin Used
  BY <1>3 DEF Spare
<1> QED
  BY <1>2, <1>4

-----------------------------------------------------------------------------
(* The types.                                                                *)

LaunchSet == [exit : {"none", "clean", "error"}, crashes : Nat, moved : BOOLEAN]

\* A step of one updater gives it a new record and leaves the other's.
LEMMA OneThreadTyped ==
  ASSUME thread \in [Updaters -> UpdaterRecord], NEW t \in Updaters, NEW r \in UpdaterRecord,
         thread' = [thread EXCEPT ![t] = r]
  PROVE  /\ thread' \in [Updaters -> UpdaterRecord] /\ thread'[t] = r
         /\ \A u \in Updaters \ {t} : thread'[u] = thread[u]
  OBVIOUS

\* Where an updater's record is changed in its step alone, or emptied.
LEMMA GoesTyped ==
  ASSUME thread \in [Updaters -> UpdaterRecord], NEW t \in Updaters, NEW step \in UpdateSteps,
         Goes(t, step)
  PROVE  /\ thread' \in [Updaters -> UpdaterRecord]
         /\ thread'[t] = [thread[t] EXCEPT !.pc = step]
         /\ thread'[t].pc = step /\ thread'[t].rel = thread[t].rel
         /\ thread'[t].ino = thread[t].ino /\ thread'[t].ok = thread[t].ok
         /\ \A u \in Updaters \ {t} : thread'[u] = thread[u]
<1>1. thread'[t] = [thread[t] EXCEPT !.pc = step]
  BY DEF Goes
<1>2. thread[t] \in UpdaterRecord
  OBVIOUS
<1>3. [thread[t] EXCEPT !.pc = step] \in UpdaterRecord
  BY <1>2 DEF UpdaterRecord
<1>4. thread' = [thread EXCEPT ![t] = [thread[t] EXCEPT !.pc = step]]
  BY DEF Goes
<1> DEFINE r == [thread[t] EXCEPT !.pc = step]
<1>5. r.pc = step /\ r.rel = thread[t].rel /\ r.ino = thread[t].ino
  BY <1>2 DEF UpdaterRecord
<1>6. r.ok = thread[t].ok
  BY <1>2 DEF UpdaterRecord
<1> HIDE DEF r
<1>7. r \in UpdaterRecord /\ thread' = [thread EXCEPT ![t] = r] /\ thread'[t] = r
  BY <1>1, <1>3, <1>4 DEF r
<1>8. /\ thread' \in [Updaters -> UpdaterRecord] /\ \A u \in Updaters \ {t} : thread'[u] = thread[u]
  BY <1>7, OneThreadTyped
<1> QED
  BY <1>1, <1>5, <1>6, <1>7, <1>8

\* An updater that ends is idle.
LEMMA EndsTyped ==
  ASSUME thread \in [Updaters -> UpdaterRecord], NEW t \in Updaters, Ends(t)
  PROVE  /\ thread' \in [Updaters -> UpdaterRecord] /\ thread'[t] = IdleThread
         /\ \A u \in Updaters \ {t} : thread'[u] = thread[u]
  BY IdleTyped, OneThreadTyped DEF Ends

\* What is left when the program exits.
LEMMA ExitsTyped ==
  ASSUME ProgramTypeOK, NEW status \in {"clean", "error"}, Exits(status)
  PROVE  /\ program' \in [up : BOOLEAN, runs : Versions \union {BrokenContent}]
         /\ program'.up = FALSE /\ thread' = NoThreads
         /\ launch' \in LaunchSet /\ launch'.moved = launch.moved
<1>1. program \in [up : BOOLEAN, runs : Versions \union {BrokenContent}] /\ launch \in LaunchSet
  BY DEF ProgramTypeOK, LaunchSet
<1>2. program' = [program EXCEPT !.up = FALSE] /\ launch' = [launch EXCEPT !.exit = status]
      /\ thread' = NoThreads
  BY DEF Exits
<1>3. program' \in [up : BOOLEAN, runs : Versions \union {BrokenContent}]
  BY <1>1, <1>2
<1>4. program'.up = FALSE
  BY <1>1, <1>2
<1>5. launch' \in LaunchSet
  BY <1>1, <1>2 DEF LaunchSet
<1>6. launch'.moved = launch.moved
  BY <1>1, <1>2 DEF LaunchSet
<1> QED
  BY <1>2, <1>3, <1>4, <1>5, <1>6

\* The pieces of ProgramTypeOK.
LEMMA Typed ==
  /\ ProgramTypeOK => /\ published \in Versions /\ name \in Names
                      /\ disk \in Disks /\ unsynced \in Inodes \union {None}
                      /\ program \in [up : BOOLEAN, runs : Versions \union {BrokenContent}]
                      /\ thread \in [Updaters -> UpdaterRecord] /\ launch \in LaunchSet
                      /\ box \in [disable : BOOLEAN, pause : BOOLEAN, stock : BOOLEAN]
                      /\ faults \in 0..MaxFaults
  /\ (/\ published \in Versions /\ name \in Names
      /\ disk \in Disks /\ unsynced \in Inodes \union {None}
      /\ program \in [up : BOOLEAN, runs : Versions \union {BrokenContent}]
      /\ thread \in [Updaters -> UpdaterRecord] /\ launch \in LaunchSet
      /\ box \in [disable : BOOLEAN, pause : BOOLEAN, stock : BOOLEAN]
      /\ faults \in 0..MaxFaults)' => ProgramTypeOK'
  BY DEF ProgramTypeOK, Names, UpdaterRecord, LaunchSet, Disks

\* Faults stay counted within their bound.
LEMMA FaultTyped ==
  ASSUME faults \in 0..MaxFaults
  PROVE  Fault => faults' \in 0..MaxFaults
  BY UpdateAssumption DEF Fault

-----------------------------------------------------------------------------
(* The process ends, or nothing that matters happens.                        *)

\* A process that ends, wherever it is, leaves the files as they are.
LEMMA EndKeeps ==
  ASSUME Filed, UNCHANGED <<name, disk, unsynced>>, thread' = NoThreads,
         program'.up = FALSE, ~program.up => launch'.moved = launch.moved,
         launch'.moved \in {launch.moved, FALSE}
  PROVE  Alone' /\ Filed' /\ \A t \in Updaters : Good(thread[t])'
<1>1. \A t \in Updaters : thread'[t].pc = "idle" /\ thread'[t].ino = None
  BY IdleTyped
<1>2. Alone'
  BY <1>1 DEF Alone
<1>3. Filed'
  <2>1. ~program'.up /\ ~Runs'
    BY DEF Runs
  <2>2. launch'.moved => name'.exe = None
    <3>1. CASE launch'.moved = FALSE
      BY <3>1
    <3>2. CASE launch'.moved = launch.moved
      BY <3>2, Zenon DEF Filed
    <3> QED
      BY <3>1, <3>2
  <2>3. \A t \in Updaters : thread'[t].pc \notin Working
    BY <1>1 DEF Working
  <2> QED
    BY <2>1, <2>2, <2>3 DEF Filed, Whole, LostIn
<1>4. \A t \in Updaters : Good(thread[t])'
  BY <1>1 DEF Good, Working
<1> QED
  BY <1>2, <1>3, <1>4

\* A power cut may lose what the disk did not have yet, and nothing else.
LEMMA CutKeeps ==
  ASSUME UpdInv, name' = name, thread' = NoThreads, program'.up = FALSE,
         launch'.moved = FALSE, unsynced' = None,
         IF unsynced = None THEN UNCHANGED disk
         ELSE \E lost \in SUBSET Parts :
                disk' = [disk EXCEPT ![unsynced] =
                           [p \in Parts |-> IF p \in lost THEN Unwritten ELSE disk[unsynced][p]]]
  PROVE  disk' \in Disks /\ Alone' /\ Filed' /\ \A t \in Updaters : Good(thread[t])'
<1>1. \A t \in Updaters : thread'[t].pc = "idle" /\ thread'[t].ino = None
  BY IdleTyped
<1>2. Alone' /\ \A t \in Updaters : Good(thread[t])'
  BY <1>1 DEF Alone, Good, Working
<1>3. Filed /\ disk \in Disks /\ unsynced \in Inodes \union {None} /\ name \in Names
  BY Typed DEF UpdInv
<1>4. /\ disk' \in Disks /\ \A j \in Inodes : j # unsynced => disk'[j] = disk[j]
      /\ \A j \in Inodes : disk'[j] = disk[j] \/ LostIn(disk'[j])
  <2>1. CASE unsynced = None
    BY <1>3, <2>1
  <2>2. CASE unsynced # None
    <3>1. unsynced \in Inodes
      BY <1>3, <2>2
    <3>2. PICK lost \in SUBSET Parts :
            disk' = [disk EXCEPT ![unsynced] =
                       [p \in Parts |-> IF p \in lost THEN Unwritten ELSE disk[unsynced][p]]]
      BY <2>2
    <3>3. disk[unsynced] \in Contents
      BY <1>3, <3>1 DEF Disks
    <3> DEFINE c == [p \in Parts |-> IF p \in lost THEN Unwritten ELSE disk[unsynced][p]]
    <3>4. c \in Contents
      BY <3>3 DEF Contents
    <3>5. c = disk[unsynced] \/ LostIn(c)
      <4>1. CASE lost = {}
        <5>1. c = [p \in Parts |-> disk[unsynced][p]]
          BY <4>1
        <5> QED
          BY <3>3, <5>1 DEF Contents
      <4>2. CASE lost # {}
        <5>1. PICK p \in Parts : p \in lost
          BY <4>2
        <5> QED
          BY <5>1 DEF LostIn
      <4> QED
        BY <4>1, <4>2
    <3>6. disk' = [disk EXCEPT ![unsynced] = c]
      BY <3>2
    <3> HIDE DEF c
    <3> QED
      BY <1>3, <3>1, <3>4, <3>5, <3>6 DEF Disks
  <2> QED
    BY <2>1, <2>2
<1>5. Filed'
  <2>1. ~program'.up /\ ~Runs' /\ ~launch'.moved
    BY DEF Runs
  <2>2. name.exe \in Inodes \union {None} /\ name.prev \in Inodes \union {None}
    BY <1>3 DEF Names
  <2>3. name'.prev # None => Whole(disk'[name'.prev])
    BY <1>3, <1>4, <2>2 DEF Filed
  <2>4. name'.exe # None => Whole(disk'[name'.exe]) \/ LostIn(disk'[name'.exe])
    <3>1. ASSUME name.exe # None PROVE Whole(disk'[name.exe]) \/ LostIn(disk'[name.exe])
      <4>1. Whole(disk[name.exe]) \/ LostIn(disk[name.exe])
        BY <1>3, <3>1 DEF Filed
      <4>2. disk'[name.exe] = disk[name.exe] \/ LostIn(disk'[name.exe])
        BY <1>4, <2>2, <3>1
      <4> QED
        BY <4>1, <4>2
    <3> QED
      BY <3>1
  <2>5. name'.exe # None /\ name'.prev = None => Whole(disk'[name'.exe])
    BY <1>3, <1>4, <2>2 DEF Filed
  <2>6. /\ name'.exe = None => name'.prev # None
        /\ name'.new # None => name'.new # name'.exe /\ name'.new # name'.prev
    BY <1>3 DEF Filed
  <2> QED
    BY <2>1, <2>3, <2>4, <2>5, <2>6 DEF Filed
<1> QED
  BY <1>2, <1>4, <1>5

\* What touches neither files nor updaters keeps them.
LEMMA QuietKeeps ==
  ASSUME Alone, Filed, \A t \in Updaters : Good(thread[t]),
         UNCHANGED <<name, disk, thread, program>>, unsynced' \in {unsynced, None},
         launch'.moved = launch.moved
  PROVE  Alone' /\ Filed' /\ \A t \in Updaters : Good(thread[t])'
<1>1. Alone'
  BY DEF Alone, Runs
<1>2. Filed'
  <2>1. (launch.moved => ~program.up /\ name.exe = None)'
    BY Zenon DEF Filed
  <2>2. Runs' = Runs
    BY DEF Runs
  <2>3. \A c : LostIn(c)' = LostIn(c)
    BY DEF LostIn
  <2>4. unsynced' # None => unsynced' = unsynced
    OBVIOUS
  <2> QED
    BY <2>1, <2>2, <2>4 DEF Filed, Whole, LostIn
<1>3. \A t \in Updaters : Good(thread[t])'
  BY DEF Good, Whole
<1> QED
  BY <1>1, <1>2, <1>3

-----------------------------------------------------------------------------
(* One step of an updater.                                                   *)

\* While one updater moves, the other is idle and stays so.
LEMMA OneMoves ==
  ASSUME NEW t \in Updaters, Runs, UNCHANGED program,
         \A u \in Updaters \ {t} :
           thread[u].pc = "idle" /\ thread'[u] = thread[u] /\ Good(thread[u])
  PROVE  Alone' /\ (\A u \in Updaters \ {t} : Good(thread[u])')
<1>1. \A u \in Updaters \ {t} : thread'[u].pc = "idle"
  OBVIOUS
<1>2. Alone'
  BY <1>1 DEF Alone, Runs
<1>3. \A u \in Updaters \ {t} : Good(thread[u])'
  <2>1. \A u \in Updaters \ {t} : thread'[u].ino = None
    BY DEF Good, Working
  <2> QED
    BY <1>1, <2>1 DEF Good, Working
<1> QED
  BY <1>2, <1>3

\* An updater that is at work: where everything is.
LEMMA AtWork ==
  ASSUME UpdInv, NEW t \in Updaters, NEW step \in Working, At(t, step)
  PROVE  /\ Runs /\ thread[t].pc = step /\ ~launch.moved
         /\ \A u \in Updaters \ {t} : thread[u].pc = "idle"
         /\ thread[t] \in UpdaterRecord /\ Good(thread[t]) /\ Filed
         /\ step # "in" => name.exe # None
         /\ step = "in" => name.exe = None
         /\ unsynced # None => unsynced # name.exe /\ unsynced # name.prev
         /\ name.new \in Inodes /\ name \in Names
<1>1. Runs /\ thread[t].pc = step /\ step # "idle"
  BY DEF At, Working
<1>2. \A u \in Updaters \ {t} : thread[u].pc = "idle"
  BY <1>1 DEF UpdInv, Alone
<1>3. program.up
  BY <1>1 DEF Runs
<1>4. ~launch.moved
  BY <1>3 DEF UpdInv, Filed
<1>5. step # "in" => \A u \in Updaters : thread[u].pc # "in"
  BY <1>1, <1>2
<1>6. Good(thread[t]) /\ Filed /\ name \in Names /\ thread[t] \in UpdaterRecord
  BY Typed DEF UpdInv
<1>7. name.new # None
  BY <1>1, <1>6 DEF Good
<1>8. name.new \in Inodes
  BY <1>6, <1>7 DEF Names
<1>9. step # "in" => name.exe # None
  BY <1>3, <1>5, <1>6 DEF Filed
<1>10. step = "in" => name.exe = None
  BY <1>1, <1>6 DEF Good
<1>11. unsynced # None => unsynced # name.exe /\ unsynced # name.prev
  BY <1>1, <1>6 DEF Filed
<1> QED
  BY <1>1, <1>2, <1>4, <1>5, <1>6, <1>8, <1>9, <1>10, <1>11

\* What a step of an updater must show.
LEMMA UpdaterKeeps ==
  ASSUME UpdInv, NEW t \in Updaters, NEW step \in Working, At(t, step),
         UNCHANGED <<published, unsynced, program, launch, box>>, faults' \in 0..MaxFaults,
         name' \in Names, disk' \in Disks,
         thread' \in [Updaters -> UpdaterRecord], \A u \in Updaters \ {t} : thread'[u] = thread[u],
         Good(thread[t])',
         name'.exe # None => Whole(disk'[name'.exe]),
         name'.prev # None => Whole(disk'[name'.prev]),
         name'.exe = None => thread'[t].pc = "in" /\ name'.prev # None,
         unsynced # None =>
           /\ unsynced # name'.prev
           /\ unsynced = name'.exe => name'.prev # None /\ thread'[t].pc \notin Working,
         name'.new # None => name'.new # name'.exe /\ name'.new # name'.prev
  PROVE  UpdInv'
<1>1. Runs /\ ~launch.moved /\ \A u \in Updaters \ {t} : thread[u].pc = "idle"
  BY AtWork
<1>2. Alone' /\ (\A u \in Updaters \ {t} : Good(thread[u])')
  BY <1>1, OneMoves DEF UpdInv
<1>3. ~launch'.moved
  BY <1>1
<1>4. \A u \in Updaters \ {t} : thread'[u].pc \notin Working
  BY <1>1 DEF Working
<1>5. Filed'
  BY <1>3, <1>4 DEF Filed
<1>6. ProgramTypeOK'
  BY Typed DEF UpdInv
<1> QED
  BY <1>2, <1>5, <1>6 DEF UpdInv

\* A record at another part and step is a record.
LEMMA PartTyped ==
  ASSUME NEW th \in UpdaterRecord, NEW p \in 1..3, NEW step \in UpdateSteps
  PROVE  /\ [th EXCEPT !.part = p, !.pc = step] \in UpdaterRecord
         /\ [th EXCEPT !.part = p, !.ok = FALSE, !.pc = step] \in UpdaterRecord
  BY DEF UpdaterRecord

\* The next part: the file is exe.new's, and no other name's.
LEMMA FetchStep ==
  ASSUME UpdInv, NEW t \in Updaters, Fetch(t)
  PROVE  UpdInv'
<1> DEFINE th == thread[t]
<1>1. At(t, "fetch") /\ Keep /\ UNCHANGED name
  BY DEF Fetch
<1>2. /\ Runs /\ th.pc = "fetch" /\ ~launch.moved
      /\ th \in UpdaterRecord /\ Good(th) /\ Filed /\ name.exe # None
      /\ name.new \in Inodes /\ name \in Names
      /\ (unsynced # None => unsynced # name.exe /\ unsynced # name.prev)
  BY <1>1, AtWork DEF Working
<1>3. th.ino = name.new /\ th.part \in {1, 2} /\ th.rel \in Versions
      /\ (th.ok => \A q \in Parts : q < th.part => disk[name.new][q] = th.rel)
  BY <1>2 DEF Good, Working, Parts
<1>4. name.new # name.exe /\ name.new # name.prev
  BY <1>2 DEF Filed, None, Inodes
<1>5. thread \in [Updaters -> UpdaterRecord] /\ disk \in Disks
      /\ faults \in 0..MaxFaults
  BY Typed DEF UpdInv
<1> DEFINE at == IF th.part = 2 THEN "hash" ELSE "fetch"
<1>6. ASSUME NEW v \in Versions \union {0}, NEW r \in UpdaterRecord,
             disk' = [disk EXCEPT ![th.ino][th.part] = v], faults' \in 0..MaxFaults,
             thread' = [thread EXCEPT ![t] = r],
             r.pc = at, r.part = th.part + 1, r.rel = th.rel, r.ino = th.ino,
             r.ok => th.ok /\ v = th.rel
      PROVE  UpdInv'
  <2>1. thread' \in [Updaters -> UpdaterRecord] /\ thread'[t] = r
        /\ \A u \in Updaters \ {t} : thread'[u] = thread[u]
    BY <1>5, <1>6, OneThreadTyped
  <2>2. disk' \in Disks
    BY <1>2, <1>3, <1>5, <1>6 DEF Disks, Contents, Parts
  <2>3. disk'[name.new][th.part] = v
    BY <1>2, <1>3, <1>5, <1>6 DEF Disks, Contents, Parts
  <2>4. \A q \in Parts \ {th.part} : disk'[name.new][q] = disk[name.new][q]
    BY <1>2, <1>3, <1>5, <1>6 DEF Disks, Contents, Parts
  <2>5. \A i \in Inodes \ {name.new} : disk'[i] = disk[i]
    BY <1>2, <1>3, <1>5, <1>6 DEF Disks, Contents, Parts
  <2>6. r.ok => \A q \in Parts : q <= th.part => disk'[name.new][q] = th.rel
    BY <1>3, <1>6, <2>3, <2>4 DEF Parts
  <2>7. Good(r)'
    <3>1. CASE th.part = 1
      <4>1. r.pc = "fetch" /\ r.part = 2
        BY <1>6, <3>1
      <4>2. r.ok => \A q \in Parts : q < 2 => disk'[name.new][q] = r.rel
        BY <1>6, <2>6, <3>1 DEF Parts
      <4>3. name'.new # None /\ r.rel \in Versions /\ r.ino = name'.new /\ 2 \in Parts
        BY <1>1, <1>2, <1>3, <1>6 DEF None, Inodes, Parts
      <4> QED
        BY <1>1, <4>1, <4>2, <4>3 DEF Good, Working
    <3>2. CASE th.part = 2
      <4>1. r.pc = "hash"
        BY <1>6, <3>2
      <4>2. r.ok => \A q \in Parts : disk'[name.new][q] = r.rel
        BY <1>6, <2>6, <3>2 DEF Parts
      <4>3. name'.new # None /\ r.rel \in Versions /\ r.ino = name'.new
        BY <1>1, <1>2, <1>3, <1>6 DEF None, Inodes
      <4> QED
        BY <1>1, <4>1, <4>2, <4>3 DEF Good, Working
    <3> QED
      BY <1>3, <3>1, <3>2
  <2>8. Good(thread[t])'
    BY <2>1, <2>7 DEF Good
  <2>9. Whole(disk'[name'.exe])
    <3>1. Whole(disk[name.exe]) /\ name.exe \in Inodes
      BY <1>2 DEF Filed, Names
    <3> QED
      BY <1>1, <1>4, <2>5, <3>1
  <2>10. name'.prev # None => Whole(disk'[name'.prev])
    <3>1. name.prev # None => Whole(disk[name.prev]) /\ name.prev \in Inodes
      BY <1>2 DEF Filed, Names
    <3> QED
      BY <1>1, <1>4, <2>5, <3>1
  <2> QED
    BY <1>1, <1>2, <1>4, <1>6, <2>1, <2>2, <2>8, <2>9, <2>10, UpdaterKeeps DEF Keep, Working
<1>7. CASE /\ disk' = [disk EXCEPT ![th.ino][th.part] = th.rel]
           /\ thread' = [thread EXCEPT ![t].part = @ + 1, ![t].pc = at]
           /\ UNCHANGED faults
  <2> DEFINE r == [th EXCEPT !.part = @ + 1, !.pc = at]
  <2>1. r \in UpdaterRecord
    <3>1. th.part + 1 \in 1..3
      BY <1>3
    <3>2. at \in UpdateSteps
      BY DEF UpdateSteps
    <3> HIDE DEF at
    <3> QED
      BY <1>2, <3>1, <3>2, PartTyped
  <2>2. r.pc = at /\ r.part = th.part + 1 /\ r.rel = th.rel /\ r.ino = th.ino
    BY <1>2 DEF UpdaterRecord
  <2>3. r.ok = th.ok
    BY <1>2 DEF UpdaterRecord
  <2>4. thread' = [thread EXCEPT ![t] = r]
    BY <1>7
  <2>5. r.ok => th.ok /\ th.rel = th.rel
    BY <2>3, Zenon
  <2> HIDE DEF r, at, th
  <2> QED
    BY <1>3, <1>5, <1>6, <1>7, <2>1, <2>2, <2>4, <2>5
<1>8. CASE /\ Fault /\ disk' = [disk EXCEPT ![th.ino][th.part] = 0]
           /\ thread' = [thread EXCEPT ![t].part = @ + 1, ![t].ok = FALSE, ![t].pc = at]
  <2> DEFINE r == [th EXCEPT !.part = @ + 1, !.ok = FALSE, !.pc = at]
  <2>1. r \in UpdaterRecord
    <3>1. th.part + 1 \in 1..3
      BY <1>3
    <3>2. at \in UpdateSteps
      BY DEF UpdateSteps
    <3> HIDE DEF at
    <3> QED
      BY <1>2, <3>1, <3>2, PartTyped
  <2>2. r.pc = at /\ r.part = th.part + 1 /\ r.rel = th.rel /\ r.ino = th.ino
    BY <1>2 DEF UpdaterRecord
  <2>3. r.ok = FALSE
    BY <1>2 DEF UpdaterRecord
  <2>4. thread' = [thread EXCEPT ![t] = r]
    BY <1>8
  <2>5. r.ok => th.ok /\ 0 = th.rel
    BY <2>3, Zenon
  <2>6. faults' \in 0..MaxFaults
    BY <1>5, <1>8, FaultTyped
  <2> HIDE DEF r, at, th
  <2> QED
    BY <1>6, <1>8, <2>1, <2>2, <2>4, <2>5, <2>6
<1> QED
  BY <1>7, <1>8, TwoParts DEF Fetch

\* The names after one of them was unlinked or moved.
LEMMA RenameTyped ==
  ASSUME name \in Names
  PROVE  /\ RemoveNew => name' \in Names /\ name'.new = None /\ name'.exe = name.exe
                         /\ name'.prev = name.prev
         /\ name' = [name EXCEPT !.prev = None] =>
              name' \in Names /\ name'.new = name.new /\ name'.exe = name.exe /\ name'.prev = None
         /\ name' = [name EXCEPT !.prev = name.exe, !.exe = None] =>
              name' \in Names /\ name'.new = name.new /\ name'.exe = None
              /\ name'.prev = name.exe
         /\ name' = [name EXCEPT !.exe = name.new, !.new = None] =>
              name' \in Names /\ name'.new = None /\ name'.exe = name.new
              /\ name'.prev = name.prev
         /\ name' = PutBack =>
              name' \in Names /\ name'.new = None /\ name'.prev = None
              /\ name'.exe = IF name.prev # None THEN name.prev ELSE name.exe
<1> USE DEF Names, None, Inodes
<1>1. RemoveNew => name' \in Names /\ name'.new = None /\ name'.exe = name.exe
                  /\ name'.prev = name.prev
  BY DEF RemoveNew
<1>2. name' = [name EXCEPT !.prev = None] =>
        name' \in Names /\ name'.new = name.new /\ name'.exe = name.exe /\ name'.prev = None
  OBVIOUS
<1>3. name' = [name EXCEPT !.prev = name.exe, !.exe = None] =>
        name' \in Names /\ name'.new = name.new /\ name'.exe = None /\ name'.prev = name.exe
  OBVIOUS
<1>4. name' = [name EXCEPT !.exe = name.new, !.new = None] =>
        name' \in Names /\ name'.new = None /\ name'.exe = name.new /\ name'.prev = name.prev
  OBVIOUS
<1>5. name' = PutBack =>
        name' \in Names /\ name'.new = None /\ name'.prev = None
        /\ name'.exe = IF name.prev # None THEN name.prev ELSE name.exe
  BY DEF PutBack
<1> QED
  BY <1>1, <1>2, <1>3, <1>4, <1>5

\* The update is given up: exe.new is unlinked, or was put away.
LEMMA GivesUpStep ==
  ASSUME UpdInv, NEW t \in Updaters, NEW step \in Working, step # "in", At(t, step),
         RemoveNew, Ends(t), Keep, UNCHANGED disk, faults' \in 0..MaxFaults
  PROVE  UpdInv'
<1>1. Filed /\ Runs /\ name.exe # None /\ name \in Names
      /\ (unsynced # None => unsynced # name.exe /\ unsynced # name.prev)
  BY AtWork
<1>2. thread \in [Updaters -> UpdaterRecord] /\ disk \in Disks
  BY Typed DEF UpdInv
<1>3. /\ thread' \in [Updaters -> UpdaterRecord] /\ thread'[t] = IdleThread
      /\ \A u \in Updaters \ {t} : thread'[u] = thread[u]
  BY <1>2, EndsTyped
<1>4. Good(thread[t])'
  BY <1>3, IdleTyped DEF Good, Working
<1>5. name' \in Names /\ name'.new = None /\ name'.exe = name.exe /\ name'.prev = name.prev
  BY <1>1, RenameTyped
<1>6. /\ name'.exe # None => Whole(disk'[name'.exe])
      /\ name'.prev # None => Whole(disk'[name'.prev])
  BY <1>1, <1>5 DEF Filed
<1> QED
  BY <1>1, <1>2, <1>3, <1>4, <1>5, <1>6, UpdaterKeeps DEF Keep

\* An updater goes on to a later step; its file is whole from the hash on.
LEMMA GoesStep ==
  ASSUME UpdInv, NEW t \in Updaters, NEW step \in Working, At(t, step),
         NEW to \in {"chmod", "prev", "out", "in"}, Goes(t, to), Keep, UNCHANGED <<disk, faults>>,
         Whole(disk[name.new]), name' \in Names, name'.new = name.new,
         name'.exe # None => Whole(disk[name'.exe]),
         name'.prev # None => Whole(disk[name'.prev]),
         name'.exe = None => to = "in" /\ name'.prev # None,
         to = "in" => name'.exe = None,
         unsynced # None => unsynced # name'.exe /\ unsynced # name'.prev,
         name.new # name'.exe /\ name.new # name'.prev
  PROVE  UpdInv'
<1>1. Good(thread[t]) /\ thread[t].pc = step /\ name.new \in Inodes
  BY AtWork
<1>2. /\ thread \in [Updaters -> UpdaterRecord] /\ disk \in Disks
      /\ faults \in 0..MaxFaults
  BY Typed DEF UpdInv
<1>3. to \in UpdateSteps
  BY DEF UpdateSteps
<1>4. /\ thread' \in [Updaters -> UpdaterRecord] /\ thread'[t].pc = to
      /\ thread'[t].rel = thread[t].rel
      /\ \A u \in Updaters \ {t} : thread'[u] = thread[u]
  BY <1>2, <1>3, GoesTyped
<1>5. name'.new # None /\ thread'[t].rel \in Versions
  BY <1>1, <1>4 DEF Good, Working, None, Inodes
<1>6. Whole(disk'[name'.new])
  OBVIOUS
<1>7. Good(thread[t])'
  BY <1>4, <1>5, <1>6 DEF Good, Working
<1>8. /\ name'.exe # None => Whole(disk'[name'.exe])
      /\ name'.prev # None => Whole(disk'[name'.prev])
  OBVIOUS
<1> QED
  BY <1>2, <1>4, <1>7, <1>8, UpdaterKeeps DEF Keep

\* The hash of a downloaded part.
LEMMA HashStep ==
  ASSUME UpdInv, NEW t \in Updaters, Hash(t)
  PROVE  UpdInv'
<1>1. At(t, "hash") /\ Keep /\ UNCHANGED <<disk, faults>>
  BY DEF Hash
<1>2. /\ Filed /\ Good(thread[t]) /\ name.exe # None /\ name \in Names
      /\ thread[t].pc = "hash" /\ name.new \in Inodes /\ Runs
      /\ (unsynced # None => unsynced # name.exe /\ unsynced # name.prev)
  BY <1>1, AtWork DEF Working
<1>3. CASE thread[t].ok
  <2>1. Goes(t, "chmod") /\ UNCHANGED name
    BY <1>3 DEF Hash
  <2>2. thread[t].rel \in Versions /\ \A q \in Parts : disk[name.new][q] = thread[t].rel
    BY <1>2, <1>3 DEF Good, Working
  <2>3. Whole(disk[name.new])
    BY <2>2, UpdateAssumption DEF Whole, Parts
  <2>4. name.new # name.exe /\ name.new # name.prev
    BY <1>2 DEF Filed, None, Inodes
  <2> QED
    BY <1>1, <1>2, <2>1, <2>3, <2>4, GoesStep DEF Filed, Working
<1>4. CASE ~thread[t].ok
  <2>1. Ends(t) /\ RemoveNew
    BY <1>4 DEF Hash
  <2>2. faults' \in 0..MaxFaults
    BY <1>1, Typed DEF UpdInv
  <2> QED
    BY <1>1, <2>1, <2>2, GivesUpStep DEF Working
<1> QED
  BY <1>3, <1>4

\* The mode bits.
LEMMA ChmodStep ==
  ASSUME UpdInv, NEW t \in Updaters, Chmod(t)
  PROVE  UpdInv'
<1>1. At(t, "chmod") /\ Keep /\ UNCHANGED <<name, disk, faults>>
  BY DEF Chmod
<1>2. /\ Filed /\ Good(thread[t]) /\ name.exe # None /\ name \in Names
      /\ thread[t].pc = "chmod" /\ name.new \in Inodes /\ Runs
      /\ (unsynced # None => unsynced # name.exe /\ unsynced # name.prev)
  BY <1>1, AtWork DEF Working
<1>3. name.new # None /\ Whole(disk[name.new])
  BY <1>2 DEF Good, Working
<1>4. Goes(t, "prev")
  BY <1>3 DEF Chmod
<1>5. name.new # name.exe /\ name.new # name.prev
  BY <1>2, <1>3 DEF Filed
<1> QED
  BY <1>1, <1>2, <1>3, <1>4, <1>5, GoesStep DEF Filed, Working

\* The previous version is removed.
LEMMA RemovePrevStep ==
  ASSUME UpdInv, NEW t \in Updaters, RemovePrev(t)
  PROVE  UpdInv'
<1>1. At(t, "prev") /\ Keep /\ UNCHANGED <<disk, faults>> /\ Goes(t, "out")
      /\ name' = [name EXCEPT !.prev = None]
  BY DEF RemovePrev
<1>2. /\ Filed /\ Good(thread[t]) /\ name.exe # None /\ name \in Names
      /\ thread[t].pc = "prev" /\ name.new \in Inodes /\ Runs
      /\ (unsynced # None => unsynced # name.exe /\ unsynced # name.prev)
  BY <1>1, AtWork DEF Working
<1>3. name.new # None /\ Whole(disk[name.new])
  BY <1>2 DEF Good, Working
<1>4. name' \in Names /\ name'.new = name.new /\ name'.exe = name.exe /\ name'.prev = None
  BY <1>1, <1>2, RenameTyped
<1>5. name.new # name'.exe /\ name.new # name'.prev
  BY <1>2, <1>3, <1>4 DEF Filed
<1>6. Whole(disk[name'.exe])
  BY <1>2, <1>4 DEF Filed
<1> QED
  BY <1>1, <1>2, <1>3, <1>4, <1>5, <1>6, GoesStep DEF Working

\* The installed version becomes the previous one.
LEMMA MoveOutStep ==
  ASSUME UpdInv, NEW t \in Updaters, MoveOut(t)
  PROVE  UpdInv'
<1>1. At(t, "out") /\ Keep /\ UNCHANGED disk
  BY DEF MoveOut
<1>2. /\ Filed /\ Good(thread[t]) /\ name.exe # None /\ name \in Names
      /\ thread[t].pc = "out" /\ name.new \in Inodes /\ Runs
      /\ (unsynced # None => unsynced # name.exe /\ unsynced # name.prev)
  BY <1>1, AtWork DEF Working
<1>3. name.new # None /\ Whole(disk[name.new])
  BY <1>2 DEF Good, Working
<1>4. CASE /\ name' = [name EXCEPT !.prev = name.exe, !.exe = None]
           /\ Goes(t, "in") /\ UNCHANGED faults
  <2>1. name' \in Names /\ name'.new = name.new /\ name'.exe = None /\ name'.prev = name.exe
    BY <1>2, <1>4, RenameTyped
  <2>2. name.new # name'.exe /\ name.new # name'.prev
    BY <1>2, <1>3, <2>1 DEF Filed
  <2>3. Whole(disk[name'.prev])
    BY <1>2, <2>1 DEF Filed
  <2> QED
    BY <1>1, <1>2, <1>3, <1>4, <2>1, <2>2, <2>3, GoesStep DEF Working
<1>5. CASE Fault /\ RemoveNew /\ Ends(t)
  <2>1. faults' \in 0..MaxFaults
    BY <1>5, Typed, FaultTyped DEF UpdInv
  <2> QED
    BY <1>1, <1>5, <2>1, GivesUpStep DEF Working
<1> QED
  BY <1>2, <1>4, <1>5 DEF MoveOut

\* exe.new becomes exe, or the previous version comes back: exe is there again.
LEMMA MoveInStep ==
  ASSUME UpdInv, NEW t \in Updaters, MoveIn(t)
  PROVE  UpdInv'
<1>1. At(t, "in") /\ Keep /\ UNCHANGED disk
  BY DEF MoveIn
<1>2. /\ Filed /\ Good(thread[t]) /\ name \in Names
      /\ thread[t].pc = "in" /\ name.new \in Inodes /\ name.exe = None
      /\ (unsynced # None => unsynced # name.exe /\ unsynced # name.prev)
  BY <1>1, AtWork DEF Working
<1>3. name.new # None /\ Whole(disk[name.new])
  BY <1>2 DEF Good, Working
<1>4. /\ thread \in [Updaters -> UpdaterRecord] /\ disk' \in Disks
      /\ faults \in 0..MaxFaults
  BY <1>1, Typed DEF UpdInv
<1>7. name.prev # None
  BY <1>2 DEF Filed
<1>5. CASE /\ name' = [name EXCEPT !.exe = name.new, !.new = None]
           /\ thread' = [thread EXCEPT ![t] = [IdleThread EXCEPT !.pc = "resting"]]
           /\ UNCHANGED faults
  <2> DEFINE r == [IdleThread EXCEPT !.pc = "resting"]
  <2>1. r \in UpdaterRecord /\ r.pc = "resting" /\ r.ino = None
    BY IdleTyped DEF UpdaterRecord, UpdateSteps
  <2> HIDE DEF r
  <2>2. thread' \in [Updaters -> UpdaterRecord] /\ thread'[t] = r
        /\ \A u \in Updaters \ {t} : thread'[u] = thread[u]
    BY <1>4, <1>5, <2>1, OneThreadTyped DEF r
  <2>3. Good(thread[t])'
    BY <2>1, <2>2 DEF Good, Working
  <2>4. name' \in Names /\ name'.new = None /\ name'.exe = name.new /\ name'.prev = name.prev
    BY <1>2, <1>5, RenameTyped
  <2>5. Whole(disk'[name'.exe]) /\ (name'.prev # None => Whole(disk'[name'.prev]))
    BY <1>1, <1>2, <1>3, <2>4 DEF Filed
  <2>6. thread'[t].pc \notin Working
    BY <2>1, <2>2 DEF Working
  <2> QED
    BY <1>1, <1>2, <1>3, <1>4, <1>5, <1>7, <2>2, <2>3, <2>4, <2>5, <2>6, UpdaterKeeps
    DEF Keep, Working
<1>6. CASE Fault /\ name' = PutBack /\ Ends(t)
  <2>1. faults' \in 0..MaxFaults
    BY <1>4, <1>6, FaultTyped
  <2>2. /\ thread' \in [Updaters -> UpdaterRecord] /\ thread'[t] = IdleThread
        /\ \A u \in Updaters \ {t} : thread'[u] = thread[u]
    BY <1>4, <1>6, EndsTyped
  <2>3. Good(thread[t])'
    BY <2>2, IdleTyped DEF Good, Working
  <2>4. /\ name' \in Names /\ name'.new = None /\ name'.prev = None
        /\ name'.exe = IF name.prev # None THEN name.prev ELSE name.exe
    BY <1>2, <1>6, RenameTyped
  <2>5. name'.exe # None /\ Whole(disk'[name'.exe])
    BY <1>1, <1>2, <1>7, <2>4 DEF Filed
  <2>6. thread'[t].pc \notin Working
    BY <2>2, IdleTyped DEF Working
  <2> QED
    BY <1>1, <1>2, <1>4, <1>7, <2>1, <2>2, <2>3, <2>4, <2>5, <2>6, UpdaterKeeps
    DEF Keep, Working
<1> QED
  BY <1>3, <1>5, <1>6 DEF MoveIn

\* A check begins: alone, and with a file of its own.
LEMMA BeginStep ==
  ASSUME UpdInv, ~TwoAtOnce, NEW t \in Updaters, Begin(t)
  PROVE  UpdInv'
<1>1. Runs /\ MayBegin(t) /\ UNCHANGED <<published, program, launch, box, faults>>
  BY DEF Begin
<1>2. \A u \in Updaters : thread[u].pc = "idle"
  BY <1>1, TwoUpdaters DEF MayBegin
<1>3. program.up /\ Filed
  BY <1>1 DEF Runs, UpdInv
<1>4. ~launch.moved
  BY <1>3 DEF Filed
<1>6. name.exe # None
  BY <1>2, <1>3 DEF Filed
<1>7. /\ published \in Versions /\ name \in Names /\ thread \in [Updaters -> UpdaterRecord]
      /\ disk \in Disks /\ faults \in 0..MaxFaults
  BY Typed DEF UpdInv
<1> DEFINE i == IF name.new = None THEN Spare ELSE name.new
           r == [pc |-> "fetch", rel |-> published, ino |-> i, part |-> 1, ok |-> TRUE]
<1>8. i \in Inodes /\ i # name.exe /\ i # name.prev
  <2>1. CASE name.new = None
    <3>1. \A u \in Updaters : thread[u].ino = None
      BY <1>2 DEF UpdInv, Good, Working
    <3>2. Spare \in Inodes /\ Spare \notin {name.exe, name.prev, name.new}
      BY <1>7, <3>1, SpareIsFree
    <3> QED
      BY <2>1, <3>2
  <2>2. CASE name.new # None
    BY <1>3, <1>7, <2>2 DEF Filed, Names
  <2> QED
    BY <2>1, <2>2
<1>9. /\ name' = [name EXCEPT !.new = i] /\ disk' = [disk EXCEPT ![i] = [p \in Parts |-> 0]]
      /\ thread' = [thread EXCEPT ![t] = r] /\ unsynced' = i
  BY DEF Begin
<1> HIDE DEF i
<1>10. name' \in Names /\ name'.new = i /\ name'.exe = name.exe /\ name'.prev = name.prev
  BY <1>7, <1>8, <1>9 DEF Names
<1>11. disk' \in Disks
       /\ \A j \in Inodes \ {i} : disk'[j] = disk[j]
  BY <1>7, <1>8, <1>9 DEF Disks, Contents
<1>12. r \in UpdaterRecord /\ r.pc = "fetch" /\ r.rel = published /\ r.ino = i /\ r.part = 1
  BY <1>7, <1>8 DEF UpdaterRecord, UpdateSteps
<1> HIDE DEF r
<1>13. thread' \in [Updaters -> UpdaterRecord] /\ thread'[t] = r
       /\ \A u \in Updaters \ {t} : thread'[u] = thread[u]
  BY <1>7, <1>9, <1>12, OneThreadTyped
<1>14. Good(thread[t])'
  <2>1. name'.new # None
    BY <1>8, <1>10 DEF None, Inodes
  <2>2. \A q \in Parts : ~(q < 1)
    BY DEF Parts
  <2>3. 1 \in Parts
    BY DEF Parts
  <2>4. thread'[t].pc = "fetch" /\ thread'[t].rel \in Versions /\ thread'[t].ino = name'.new
        /\ thread'[t].part = 1
    BY <1>7, <1>10, <1>12, <1>13
  <2> QED
    BY <2>1, <2>2, <2>3, <2>4 DEF Good, Working
<1>15. Alone' /\ (\A u \in Updaters \ {t} : Good(thread[u])')
  BY <1>1, <1>2, <1>13, OneMoves DEF UpdInv
<1>16. Filed'
  <2>1. name.exe \in Inodes /\ Whole(disk[name.exe])
    BY <1>1, <1>3, <1>6, <1>7 DEF Filed, Names
  <2>2. Whole(disk'[name'.exe]) /\ name'.exe # None
    BY <1>6, <1>8, <1>10, <1>11, <2>1
  <2>3. name'.prev # None => Whole(disk'[name'.prev])
    BY <1>3, <1>7, <1>8, <1>10, <1>11 DEF Filed, Names
  <2>4. ~launch'.moved
    BY <1>1, <1>4
  <2>5. unsynced' # name'.exe /\ unsynced' # name'.prev
    BY <1>8, <1>9, <1>10
  <2> QED
    BY <1>8, <1>10, <2>2, <2>3, <2>4, <2>5 DEF Filed
<1>17. ProgramTypeOK'
  <2>1. /\ program \in [up : BOOLEAN, runs : Versions \union {BrokenContent}]
        /\ launch \in LaunchSet /\ box \in [disable : BOOLEAN, pause : BOOLEAN, stock : BOOLEAN]
    BY Typed DEF UpdInv
  <2> QED
    BY <1>1, <1>7, <1>8, <1>9, <1>10, <1>11, <1>13, <2>1, Typed
<1> QED
  BY <1>13, <1>14, <1>15, <1>16, <1>17 DEF UpdInv

-----------------------------------------------------------------------------
(* The end of the process, and the launcher.                                 *)

\* The process or the machine stops.
LEMMA ProcessEnds ==
  ASSUME UpdInv,
         \/ RestartProgram \/ Dies \/ Crash \/ PowerCut
         \/ Disabled /\ program.up
  PROVE  UpdInv'
<1>1. ProgramTypeOK /\ Filed
  BY DEF UpdInv
<1>2. /\ published \in Versions /\ name \in Names /\ launch \in LaunchSet
      /\ disk \in Disks /\ faults \in 0..MaxFaults /\ unsynced \in Inodes \union {None}
      /\ program \in [up : BOOLEAN, runs : Versions \union {BrokenContent}]
      /\ box \in [disable : BOOLEAN, pause : BOOLEAN, stock : BOOLEAN]
  BY <1>1, Typed
<1>3. ASSUME program.up, UNCHANGED <<published, name, disk, unsynced>>, faults' \in 0..MaxFaults,
             thread' = NoThreads, program'.up = FALSE, launch'.moved \in {launch.moved, FALSE},
             program' \in [up : BOOLEAN, runs : Versions \union {BrokenContent}],
             launch' \in LaunchSet, box' \in [disable : BOOLEAN, pause : BOOLEAN, stock : BOOLEAN]
      PROVE  UpdInv'
  <2>1. Alone' /\ Filed' /\ \A t \in Updaters : Good(thread[t])'
    BY <1>1, <1>3, EndKeeps
  <2>2. thread' \in [Updaters -> UpdaterRecord]
    BY <1>3, IdleTyped
  <2>3. ProgramTypeOK'
    BY <1>2, <1>3, <2>2, Typed
  <2> QED
    BY <2>1, <2>3 DEF UpdInv
<1>4. ASSUME NEW status \in {"clean", "error"}, Exits(status), program.up,
             UNCHANGED <<published, name, disk, unsynced>>, faults' \in 0..MaxFaults,
             box' \in [disable : BOOLEAN, pause : BOOLEAN, stock : BOOLEAN]
      PROVE  UpdInv'
  BY <1>1, <1>3, <1>4, ExitsTyped
<1>5. CASE RestartProgram
  BY <1>2, <1>4, <1>5 DEF RestartProgram, Runs
<1>6. CASE Dies
  BY <1>2, <1>4, <1>6 DEF Dies
<1>7. CASE Crash
  <2>1. faults' \in 0..MaxFaults
    BY <1>2, <1>7, FaultTyped DEF Crash
  <2> QED
    BY <1>2, <1>4, <1>7, <2>1 DEF Crash, Runs
<1>8. CASE PowerCut
  <2>1. faults' \in 0..MaxFaults
    BY <1>2, <1>8, FaultTyped DEF PowerCut
  <2>2. program' = [program EXCEPT !.up = FALSE]
    BY <1>8 DEF PowerCut
  <2>3. program' \in [up : BOOLEAN, runs : Versions \union {BrokenContent}]
    BY <1>2, <2>2
  <2>4. program'.up = FALSE
    BY <1>2, <2>2
  <2>5. launch' = [exit |-> "none", crashes |-> 0, moved |-> FALSE]
    BY <1>8 DEF PowerCut
  <2>6. launch' \in LaunchSet
    BY <2>5 DEF LaunchSet
  <2>7. launch'.moved = FALSE
    BY <2>5
  <2>8. box' = [box EXCEPT !.stock = TRUE]
    BY <1>8 DEF PowerCut
  <2>9. box' \in [disable : BOOLEAN, pause : BOOLEAN, stock : BOOLEAN]
    BY <1>2, <2>8
  <2>10. /\ thread' = NoThreads /\ UNCHANGED <<published, name>> /\ unsynced' = None
         /\ IF unsynced = None THEN UNCHANGED disk
            ELSE \E lost \in SUBSET Parts :
                   disk' = [disk EXCEPT ![unsynced] =
                              [p \in Parts |-> IF p \in lost THEN Unwritten ELSE disk[unsynced][p]]]
    BY <1>8 DEF PowerCut
  <2>11. disk' \in Disks /\ Alone' /\ Filed' /\ \A t \in Updaters : Good(thread[t])'
    BY <2>4, <2>7, <2>10, CutKeeps
  <2>12. thread' \in [Updaters -> UpdaterRecord]
    BY <2>10, IdleTyped
  <2>13. ProgramTypeOK'
    BY <1>2, <2>1, <2>3, <2>6, <2>9, <2>10, <2>11, <2>12, Typed
  <2> QED
    BY <2>11, <2>13 DEF UpdInv
<1>9. CASE Disabled /\ program.up
  <2>1. box' = [box EXCEPT !.stock = TRUE]
    BY <1>9 DEF Disabled
  <2>2. box' \in [disable : BOOLEAN, pause : BOOLEAN, stock : BOOLEAN]
    BY <1>2, <2>1
  <2> QED
    BY <1>2, <1>4, <1>9, <2>2 DEF Disabled
<1> QED
  BY <1>5, <1>6, <1>7, <1>8, <1>9

\* Nothing is running: no updater is.
LEMMA NothingRuns ==
  ASSUME UpdInv, ~program.up
  PROVE  \A t \in Updaters : thread[t].pc = "idle" /\ thread[t].ino = None
<1>1. \A t \in Updaters : thread[t].pc = "idle"
  BY DEF UpdInv, Alone, Runs
<1> QED
  BY <1>1 DEF UpdInv, Good, Working

\* With the program down both updaters are idle.
LEMMA StillIdle ==
  ASSUME UpdInv, ~program.up, UNCHANGED thread
  PROVE  /\ Alone' /\ (\A t \in Updaters : Good(thread[t])')
         /\ \A t \in Updaters : thread'[t].pc \notin Working
<1>1. \A t \in Updaters : thread'[t].pc = "idle" /\ thread'[t].ino = None
  BY NothingRuns
<1> QED
  BY <1>1 DEF Alone, Good, Working

\* What a start of the program leaves.
LEMMA StartedTyped ==
  ASSUME ProgramTypeOK, NEW n \in Inodes, Started(n)
  PROVE  /\ program' \in [up : BOOLEAN, runs : Versions \union {BrokenContent}]
         /\ box' \in [disable : BOOLEAN, pause : BOOLEAN, stock : BOOLEAN]
<1>1. VersionOf(disk[n]) \in Versions \union {BrokenContent}
  BY DEF VersionOf, Whole
<1>2. VersionOf(disk[n]) \in Versions \union {BrokenContent}
  BY <1>1
<1>3. program' \in [up : BOOLEAN, runs : Versions \union {BrokenContent}]
  BY <1>2 DEF Started
<1>4. box' = [box EXCEPT !.stock = FALSE] /\ box \in [disable : BOOLEAN, pause : BOOLEAN, stock : BOOLEAN]
  BY DEF Started, ProgramTypeOK
<1>5. box' \in [disable : BOOLEAN, pause : BOOLEAN, stock : BOOLEAN]
  BY <1>4
<1> QED
  BY <1>3, <1>5

\* The count of failed starts is a number.
LEMMA CountedTyped == ProgramTypeOK => Counted \in Nat
<1> SUFFICES ASSUME ProgramTypeOK PROVE Counted \in Nat
  OBVIOUS
<1>1. launch.crashes \in Nat
  BY DEF ProgramTypeOK
<1> QED
  BY <1>1 DEF Counted

\* The launcher puts the previous version back, or starts what there is.
LEMMA LauncherStep ==
  ASSUME UpdInv, RollBack \/ RolledBack \/ StartProgram
  PROVE  UpdInv'
<1>1. ProgramTypeOK /\ Filed
  BY DEF UpdInv
<1>2. /\ published \in Versions /\ name \in Names /\ launch \in LaunchSet
      /\ disk \in Disks /\ faults \in 0..MaxFaults /\ unsynced \in Inodes \union {None}
      /\ program \in [up : BOOLEAN, runs : Versions \union {BrokenContent}]
      /\ thread \in [Updaters -> UpdaterRecord]
      /\ box \in [disable : BOOLEAN, pause : BOOLEAN, stock : BOOLEAN]
  BY <1>1, Typed
<1>3. ~program.up /\ UNCHANGED <<published, disk, unsynced, thread, faults>>
  BY <1>1 DEF RollBack, RolledBack, StartProgram, Wanted, Filed
<1>4. Alone' /\ (\A t \in Updaters : Good(thread[t])') /\ (\A t \in Updaters : thread'[t].pc \notin Working)
  BY <1>3, StillIdle
<1>9. \A c : (LostIn(c)' <=> LostIn(c)) /\ (Whole(c)' <=> Whole(c))
  BY DEF LostIn, Whole
<1>5. Counted \in Nat
  BY <1>1, CountedTyped
<1>6. CASE RollBack
  <2>1. /\ name' = [name EXCEPT !.exe = None] /\ UNCHANGED <<program, box>> /\ name.prev # None
        /\ launch' = [exit |-> "none", crashes |-> Counted, moved |-> TRUE]
    BY <1>6 DEF RollBack, RollsBack
  <2>2. launch' \in LaunchSet
    BY <1>5, <2>1 DEF LaunchSet
  <2>3. launch'.moved
    BY <2>1
  <2>4. name' \in Names /\ name'.new = name.new /\ name'.exe = None /\ name'.prev = name.prev
    BY <1>2, <2>1 DEF Names
  <2>5. Whole(disk'[name'.prev]) /\ name'.prev # None
    BY <1>1, <1>3, <2>1, <2>4 DEF Filed
  <2>6. name'.new # None => name'.new # name'.exe /\ name'.new # name'.prev
    BY <1>1, <2>4 DEF Filed
  <2>7. (~program'.up /\ unsynced' # name'.prev) \/ unsynced' = None
    BY <1>1, <1>3, <2>1, <2>4 DEF Filed
  <2>9. ~program'.up /\ ~Runs'
    BY <1>3, <2>1 DEF Runs
  <2>10. unsynced' # None => unsynced' # name'.prev /\ unsynced' # name'.exe
    BY <2>4, <2>7
  <2>11. Filed'
    BY <2>3, <2>4, <2>5, <2>6, <2>9, <2>10 DEF Filed
  <2>8. ProgramTypeOK'
    BY <1>2, <1>3, <2>1, <2>2, <2>4, Typed
  <2> QED
    BY <1>4, <2>8, <2>11 DEF UpdInv
<1>7. CASE RolledBack
  <2>1. /\ launch.moved /\ name' = [name EXCEPT !.exe = name.prev, !.prev = None]
        /\ launch' = [exit |-> "none", crashes |-> 0, moved |-> FALSE]
        /\ Started(name.prev)
    BY <1>7 DEF RolledBack
  <2>2. launch' \in LaunchSet
    BY <2>1 DEF LaunchSet
  <2>3. ~launch'.moved
    BY <2>1
  <2>4. name' \in Names /\ name'.new = name.new /\ name'.exe = name.prev /\ name'.prev = None
    BY <1>2, <2>1 DEF Names
  <2>5. name.prev # None /\ Whole(disk[name.prev])
    BY <1>1, <2>1 DEF Filed
  <2>6. name'.new # None => name'.new # name'.exe /\ name'.new # name'.prev
    BY <1>1, <2>4 DEF Filed
  <2>10. unsynced' # None => unsynced' # name'.prev /\ unsynced' # name'.exe
    BY <1>1, <1>3, <2>4 DEF Filed
  <2>11. Whole(disk'[name'.exe]) /\ name'.exe # None
    BY <1>3, <2>4, <2>5
  <2>7. Filed'
    BY <2>3, <2>4, <2>6, <2>10, <2>11 DEF Filed
  <2>8. name.prev \in Inodes
    BY <1>2, <2>5 DEF Names
  <2>9. ProgramTypeOK'
    BY <1>1, <1>2, <1>3, <2>1, <2>2, <2>4, <2>8, StartedTyped, Typed
  <2> QED
    BY <1>4, <2>7, <2>9 DEF UpdInv
<1>8. CASE StartProgram
  <2>1. /\ ~launch.moved /\ name.exe # None /\ UNCHANGED name /\ Started(name.exe)
        /\ launch' = [launch EXCEPT !.exit = "none", !.crashes = Counted]
    BY <1>8 DEF StartProgram, Wanted
  <2>2. launch' \in LaunchSet
    BY <1>2, <1>5, <2>1 DEF LaunchSet
  <2>3. launch'.moved = launch.moved
    BY <1>2, <2>1 DEF LaunchSet
  <2>4. ~launch'.moved
    BY <2>1, <2>3, Zenon
  <2>6. name.exe \in Inodes
    BY <1>2, <2>1 DEF Names
  <2>8. Runs' => Whole(disk[name.exe])
    <3>1. program'.runs = VersionOf(disk[name.exe])
      BY <2>1 DEF Started
    <3>2. Runs' => VersionOf(disk[name.exe]) \in Versions
      BY <3>1 DEF Runs
    <3>3. BrokenContent \notin Versions
      BY UpdateAssumption DEF BrokenContent
    <3> QED
      BY <3>2, <3>3 DEF VersionOf
  <2>9. name' = name /\ disk' = disk /\ unsynced' = unsynced
    BY <1>3, <2>1
  <2>5. Filed'
    <3>1. /\ name'.prev # None => Whole(disk'[name'.prev])
          /\ name'.exe # None /\ (name'.prev = None \/ Runs') => Whole(disk'[name'.exe])
          /\ name'.exe # None => Whole(disk'[name'.exe]) \/ LostIn(disk'[name'.exe])
          /\ name'.new # None => name'.new # name'.exe /\ name'.new # name'.prev
      BY <1>1, <2>8, <2>9 DEF Filed
    <3>2. unsynced' # None =>
            /\ unsynced' # name'.prev
            /\ unsynced' = name'.exe => name'.prev # None
      BY <1>1, <2>9 DEF Filed
    <3>3. name'.exe # None
      BY <2>1
    <3> QED
      BY <1>4, <2>4, <3>1, <3>2, <3>3 DEF Filed
  <2>7. ProgramTypeOK'
    BY <1>1, <1>2, <1>3, <2>1, <2>2, <2>6, StartedTyped, Typed
  <2> QED
    BY <1>4, <2>5, <2>7 DEF UpdInv
<1> QED
  BY <1>6, <1>7, <1>8

\* What leaves the files and the program alone.
LEMMA AsideStep ==
  ASSUME UpdInv,
         \/ GiveUp \/ Age \/ Publish \/ Switch \/ Writeback \/ UNCHANGED programVars
         \/ Disabled /\ ~program.up
  PROVE  UpdInv'
<1>1. ProgramTypeOK
  BY DEF UpdInv
<1>2. /\ published \in Versions /\ name \in Names /\ launch \in LaunchSet
      /\ disk \in Disks /\ faults \in 0..MaxFaults /\ unsynced \in Inodes \union {None}
      /\ program \in [up : BOOLEAN, runs : Versions \union {BrokenContent}]
      /\ thread \in [Updaters -> UpdaterRecord]
      /\ box \in [disable : BOOLEAN, pause : BOOLEAN, stock : BOOLEAN]
  BY <1>1, Typed
<1>3. UNCHANGED <<name, disk, program, thread, faults>>
  BY DEF GiveUp, Age, Publish, Switch, Writeback, programVars, Disabled
<1>9. unsynced' \in {unsynced, None} /\ unsynced' \in Inodes \union {None}
  BY <1>2 DEF GiveUp, Age, Publish, Switch, Writeback, programVars, Disabled
<1>4. published' \in Versions
  BY <1>2 DEF GiveUp, Age, Publish, Switch, Writeback, programVars, Disabled
<1>5. box' \in [disable : BOOLEAN, pause : BOOLEAN, stock : BOOLEAN]
  <2>1. CASE UNCHANGED box
    BY <1>2, <2>1
  <2>2. CASE box' = [box EXCEPT !.stock = TRUE]
    BY <1>2, <2>2
  <2>3. CASE box' = [box EXCEPT !.disable = ~@]
    BY <1>2, <2>3
  <2>4. CASE box' = [box EXCEPT !.pause = ~@]
    BY <1>2, <2>4
  <2> QED
    BY <2>1, <2>2, <2>3, <2>4 DEF GiveUp, Age, Publish, Switch, Writeback, programVars, Disabled
<1>6. launch' \in LaunchSet /\ launch'.moved = launch.moved
  <2>1. CASE UNCHANGED launch
    BY <1>2, <2>1
  <2>2. CASE launch' = [launch EXCEPT !.exit = "none", !.crashes = Counted]
    <3>1. Counted \in Nat
      BY <1>1, CountedTyped
    <3>2. launch' \in LaunchSet
      BY <1>2, <2>2, <3>1 DEF LaunchSet
    <3>3. launch'.moved = launch.moved
      BY <1>2, <2>2 DEF LaunchSet
    <3> QED
      BY <3>2, <3>3
  <2>3. CASE launch.crashes > 0 /\ launch' = [launch EXCEPT !.crashes = @ - 1]
    <3>1. launch.crashes \in Nat
      BY <1>2 DEF LaunchSet
    <3>2. launch.crashes - 1 \in Nat
      BY <2>3, <3>1
    <3>3. launch' = [launch EXCEPT !.crashes = launch.crashes - 1]
      BY <2>3
    <3>4. launch' \in LaunchSet
      BY <1>2, <3>2, <3>3 DEF LaunchSet
    <3>5. launch'.moved = launch.moved
      BY <1>2, <3>3 DEF LaunchSet
    <3> QED
      BY <3>4, <3>5
  <2> QED
    BY <2>1, <2>2, <2>3 DEF GiveUp, Age, Publish, Switch, Writeback, programVars, Disabled
<1>7. ProgramTypeOK'
  BY <1>2, <1>3, <1>4, <1>5, <1>6, <1>9, Typed
<1>8. Alone' /\ Filed' /\ \A t \in Updaters : Good(thread[t])'
  BY <1>3, <1>6, <1>9, QuietKeeps DEF UpdInv
<1> QED
  BY <1>7, <1>8 DEF UpdInv

\* Every step keeps a whole version installed.
LEMMA UpdStep ==
  ASSUME UpdInv, ~TwoAtOnce, [ProgramNext]_programVars
  PROVE  UpdInv'
<1>1. ASSUME NEW t \in Updaters, ApplyStep(t)
      PROVE  UpdInv'
  BY <1>1, FetchStep, HashStep, ChmodStep, RemovePrevStep, MoveOutStep, MoveInStep DEF ApplyStep
<1>2. ASSUME NEW t \in Updaters, FetchFails(t)
      PROVE  UpdInv'
  <2>1. faults' \in 0..MaxFaults
    BY <1>2, Typed, FaultTyped DEF UpdInv, FetchFails
  <2> QED
    BY <1>2, <2>1, GivesUpStep DEF FetchFails, Working
<1> QED
  BY <1>1, <1>2, BeginStep, ProcessEnds, LauncherStep, AsideStep DEF ProgramNext, Launcher

\* One is installed at the start.
LEMMA UpdInit == ProgramInit => UpdInv
<1> SUFFICES ASSUME ProgramInit PROVE UpdInv
  OBVIOUS
<1>1. /\ name = [exe |-> 1, prev |-> None, new |-> None] /\ thread = NoThreads
      /\ disk = [i \in Inodes |-> [p \in Parts |-> IF i = 1 THEN 1 ELSE 0]]
      /\ launch = [exit |-> "none", crashes |-> 0, moved |-> FALSE]
      /\ program = [up |-> FALSE, runs |-> 1]
      /\ box = [disable |-> FALSE, pause |-> FALSE, stock |-> TRUE]
  BY DEF ProgramInit
<1>2. \A t \in Updaters : thread[t].pc = "idle" /\ thread[t].ino = None
  BY <1>1, IdleTyped
<1>3. Alone /\ \A t \in Updaters : Good(thread[t])
  BY <1>2 DEF Alone, Good, Working
<1>4. name.exe = 1 /\ name.prev = None /\ name.new = None
  BY <1>1
<1>5. ~launch.moved
  BY <1>1
<1>6. Whole(disk[1])
  <2>1. disk[1] = [p \in Parts |-> 1]
    BY <1>1 DEF Inodes
  <2> QED
    BY <2>1, UpdateAssumption DEF Whole, Parts
<1>7. Filed
  <2>1. unsynced = None /\ ~program.up /\ ~Runs
    BY <1>1 DEF ProgramInit, Runs
  <2> QED
    BY <1>4, <1>5, <1>6, <2>1 DEF Filed, None
<1>8. ProgramTypeOK
  <2>1. name \in Names
    BY <1>1 DEF Names, Inodes, None
  <2>2. disk \in Disks
    <3>1. \A i \in Inodes : [p \in Parts |-> IF i = 1 THEN 1 ELSE 0] \in Contents
      BY UpdateAssumption DEF Contents
    <3> QED
      BY <1>1, <3>1 DEF Disks
  <2>3. program \in [up : BOOLEAN, runs : Versions \union {BrokenContent}]
    BY <1>1, UpdateAssumption
  <2>4. launch \in LaunchSet
    BY <1>1 DEF LaunchSet
  <2>5. box \in [disable : BOOLEAN, pause : BOOLEAN, stock : BOOLEAN]
    BY <1>1
  <2>6. thread \in [Updaters -> UpdaterRecord]
    BY <1>1, IdleTyped
  <2>7. published \in Versions /\ faults \in 0..MaxFaults
    BY UpdateAssumption DEF ProgramInit
  <2> QED
    BY <2>1, <2>2, <2>3, <2>4, <2>5, <2>6, <2>7 DEF ProgramTypeOK, Names, UpdaterRecord, LaunchSet, Disks, ProgramInit
<1> QED
  BY <1>3, <1>7, <1>8 DEF UpdInv

\* Whatever is cut short, at any step of an update or of a rollback, by a crash, a
\* failed rename or a power cut that may lose what was just written, one whole
\* version is left, as exe or as exe.prev; and what is installed is a whole version
\* or one of which a power cut lost a part. For any versions, faults and thresholds,
\* as long as "Update now" and the periodic check are not both at work
\* (update.Apply, startpaper.sh).
THEOREM WholeVersionStays == ~TwoAtOnce => (ProgramSpec => []WholeVersionLeft)
<1>1. UpdInv => WholeVersionLeft
  BY DEF UpdInv, Filed, WholeVersionLeft
<1> SUFFICES ASSUME ~TwoAtOnce
             PROVE  ProgramSpec => []WholeVersionLeft
  OBVIOUS
<1>2. UpdInv /\ [ProgramNext]_programVars => UpdInv'
  BY UpdStep
<1> QED
  BY <1>1, <1>2, UpdInit, PTL DEF ProgramSpec
=============================================================================
