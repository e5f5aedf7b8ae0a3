---------------------------- MODULE DeadManProofs ----------------------------
(***************************************************************************)
(* The dead-man chain for every hold time, crank limit, delay and clock    *)
(* range: the starter is in hand, and is dropped for a reason.             *)
(*                                                                         *)
(* The inductive invariant adds to the types what every button, frame and  *)
(* hold is owed (OwedAhead), that the board's clock measures the silence   *)
(* (BoardClock) and the crank (CrankClock) in spite of the wrap, and that  *)
(* the HELM's clock has not come half round (HelmClock).                   *)
(***************************************************************************)
EXTENDS DeadMan, TLAPS

\* How long the board holds a START after its frame.
Held == HoldTimeout + Slack

\* What every button that is pressed, every frame under way and a hold that is armed may
\* still bring about is owed.
OwedAhead ==
  /\ \A d \in fingers : owed >= Felt(d)
  /\ \A f \in air : owed >= Felt(IF f.to = "helm" THEN "cyd" ELSE "helm") - f.age
  /\ until > hnow => owed >= Felt("helm") + (until - hnow)

\* The HELM is restarted before a hold that has lapsed could look armed again.
HelmClock == hnow < HelmUptime /\ until < HelmUptime + HoldTimeout

\* The board measures the silence as long as the starter may be held, and its loop ends a
\* silence that is too long.  A tick in progress is at most one unit late.
BoardClock ==
  /\ silence <= Held => Minus(bnow, start_last_rx) = silence
  /\ start_held => silence <= Held /\ owed + silence > Held
  /\ start_held /\ looped => silence < Held
  /\ seen # NotYet => Overtaken /\ (seen = bnow \/ (~looped /\ bnow = (seen + 1) % ClockSize))

\* How long the starter has turned is what the crank clock says, but for the unit before
\* the loop starts it and the one in which it cannot be told from a clock at rest.
Cranked == Minus(bnow, crank_start)
CrankClock ==
  /\ crank_start = 0 => \/ cranked = 0
                        \/ cranked = 1 /\ (looped => bnow = 0)
                        \/ cranked = 2 /\ ~looped /\ bnow = 1
  /\ crank_start # 0 => /\ start_held
                        /\ Cranked <= CrankMax + Slack /\ (looped => Cranked < CrankMax + Slack)
                        /\ cranked <= Cranked + 2
                        /\ cranked + 1 >= Cranked
                        /\ looped \/ ~running => cranked >= Cranked

DeadInv == HoldTypeOK /\ HelmClock /\ OwedAhead /\ BoardClock /\ CrankClock

-----------------------------------------------------------------------------
(* Clocks that wrap.                                                         *)

\* No HELM runs for half the range of its clock (24.8 days): one that does takes a hold
\* that lapsed long ago for one that is armed.
Half == HelmUptime <= ClockSize \div 2

\* The constants, in numbers.
LEMMA ConstantsAre ==
  /\ HoldTimeout \in Nat \ {0} /\ CrankMax \in Nat \ {0} /\ Delay \in Nat
  /\ ClockSize \in Nat \ {0} /\ ClockSize > (2 * HoldTimeout) + (2 * CrankMax)
  /\ HelmUptime \in Nat \ {0} /\ BoardBoot \in Clock
  /\ Slack \in {1, 2} /\ (Overtaken => Slack = 2)
  /\ Held \in Nat /\ Held = HoldTimeout + Slack
  /\ Felt("helm") \in Nat /\ Felt("helm") = HoldTimeout + Delay + Slack + 1
  /\ Felt("cyd") \in Nat /\ Felt("cyd") = Felt("helm") + HoldTimeout + Delay
<1>1. /\ HoldTimeout \in Nat \ {0} /\ CrankMax \in Nat \ {0} /\ Delay \in Nat
      /\ ClockSize \in Nat /\ ClockSize > 2 * (HoldTimeout + CrankMax)
      /\ HelmUptime \in 1 .. ClockSize /\ BoardBoot \in 0 .. ClockSize - 1
  BY DeadManAssumption
<1>2. ClockSize \in Nat \ {0} /\ ClockSize > (2 * HoldTimeout) + (2 * CrankMax)
      /\ HelmUptime \in Nat \ {0} /\ BoardBoot \in Clock
  BY <1>1 DEF Clock
<1>3. Slack \in {1, 2} /\ (Overtaken => Slack = 2)
  BY DEF Slack
<1>4. Held \in Nat /\ Held = HoldTimeout + Slack
  BY <1>1, <1>3 DEF Held
<1>5. Echo["helm"] = HoldTimeout + Delay /\ Echo["cyd"] = 2 * (HoldTimeout + Delay)
  BY DEF Echo
<1>6. Felt("helm") \in Nat /\ Felt("helm") = HoldTimeout + Delay + Slack + 1
  BY <1>1, <1>3, <1>5 DEF Felt
<1>7. Felt("cyd") \in Nat /\ Felt("cyd") = Felt("helm") + HoldTimeout + Delay
  BY <1>1, <1>3, <1>5, <1>6 DEF Felt
<1> QED
  BY <1>1, <1>2, <1>3, <1>4, <1>6, <1>7

\* A small number is its own remainder, and so is what lies one round below.
LEMMA OneRound ==
  ASSUME NEW S \in Nat \ {0}, NEW r \in 0..(S - 1)
  PROVE  r % S = r /\ (r - S) % S = r /\ S % S = 0
<1>1. r % S = r
  BY SMTT(60)
<1>2. (r - S) % S = r
  BY SMTT(60)
<1>3. S % S = 0
  BY SMTT(60)
<1> QED
  BY <1>1, <1>2, <1>3

\* The clock one unit later.
LEMMA NextClock ==
  ASSUME NEW a \in Clock
  PROVE  (a + 1) % ClockSize = (IF a + 1 = ClockSize THEN 0 ELSE a + 1) /\ (a + 1) % ClockSize \in Clock
<1> DEFINE S == ClockSize
<1>1. S \in Nat \ {0} /\ a \in 0..(S - 1)
  BY ConstantsAre DEF Clock
<1> HIDE DEF S
<1>2. CASE a + 1 = S
  <2>1. 0 \in 0..(S - 1)
    BY <1>1
  <2> QED
    BY <1>1, <1>2, <2>1, OneRound DEF S, Clock
<1>3. CASE a + 1 # S
  <2>1. a + 1 \in 0..(S - 1)
    BY <1>1, <1>3
  <2>2. (a + 1) % S = a + 1
    BY <1>1, <2>1, OneRound
  <2> QED
    BY <1>1, <1>3, <2>1, <2>2 DEF S, Clock
<1> QED
  BY <1>2, <1>3

\* Unsigned subtraction.
LEMMA MinusIs ==
  ASSUME NEW a \in Clock, NEW b \in Clock
  PROVE  Minus(a, b) = (IF a >= b THEN a - b ELSE (a - b) + ClockSize) /\ Minus(a, b) \in Clock
<1> DEFINE S == ClockSize
<1>1. S \in Nat \ {0} /\ a \in 0..(S - 1) /\ b \in 0..(S - 1)
  BY ConstantsAre DEF Clock
<1>2. Minus(a, b) = (a - b) % S
  BY DEF Minus
<1> HIDE DEF S
<1>3. CASE a >= b
  <2>1. a - b \in 0..(S - 1)
    BY <1>1, <1>3
  <2>2. (a - b) % S = a - b
    BY <1>1, <2>1, OneRound
  <2> QED
    BY <1>2, <1>3, <2>1, <2>2 DEF S, Clock
<1>4. CASE ~(a >= b)
  <2> DEFINE r == (a - b) + S
  <2>1. r \in 0..(S - 1) /\ a - b = r - S
    BY <1>1, <1>4
  <2> HIDE DEF r
  <2>2. (a - b) % S = r
    BY <1>1, <2>1, OneRound
  <2> QED
    BY <1>1, <1>2, <1>4, <2>1, <2>2 DEF S, Clock, r
<1> QED
  BY <1>3, <1>4

\* A difference of times, one unit later and one unit before.
LEMMA MinusNext ==
  ASSUME NEW a \in Clock, NEW b \in Clock, Minus(a, b) + 1 < ClockSize
  PROVE  Minus((a + 1) % ClockSize, b) = Minus(a, b) + 1
<1> DEFINE n == (a + 1) % ClockSize
           S == ClockSize
<1>1. n = (IF a + 1 = S THEN 0 ELSE a + 1) /\ n \in Clock
  BY NextClock
<1> HIDE DEF n
<1>2. Minus(a, b) = IF a >= b THEN a - b ELSE (a - b) + S
  BY MinusIs
<1>3. Minus(n, b) = IF n >= b THEN n - b ELSE (n - b) + S
  BY <1>1, MinusIs
<1>4. S \in Nat \ {0} /\ a \in 0..(S - 1) /\ b \in 0..(S - 1)
  BY ConstantsAre DEF Clock
<1>5. Minus(n, b) = Minus(a, b) + 1
  BY <1>1, <1>2, <1>3, <1>4
<1> QED
  BY <1>5 DEF n

LEMMA MinusBefore ==
  ASSUME NEW a \in Clock, NEW b \in Clock
  PROVE  LET n == (a + 1) % ClockSize IN
         Minus(a, b) = IF Minus(n, b) = 0 THEN ClockSize - 1 ELSE Minus(n, b) - 1
<1> DEFINE n == (a + 1) % ClockSize
           S == ClockSize
<1>1. n = (IF a + 1 = S THEN 0 ELSE a + 1) /\ n \in Clock
  BY NextClock
<1> HIDE DEF n
<1>2. Minus(a, b) = IF a >= b THEN a - b ELSE (a - b) + S
  BY MinusIs
<1>3. Minus(n, b) = IF n >= b THEN n - b ELSE (n - b) + S
  BY <1>1, MinusIs
<1>4. S \in Nat \ {0} /\ a \in 0..(S - 1) /\ b \in 0..(S - 1)
  BY ConstantsAre DEF Clock
<1>5. Minus(a, b) = IF Minus(n, b) = 0 THEN S - 1 ELSE Minus(n, b) - 1
  BY <1>1, <1>2, <1>3, <1>4
<1> QED
  BY <1>5 DEF n

\* Below half a clock range a hold is read as it is meant.
LEMMA HoldIsRead ==
  ASSUME Half, HelmClock, hnow \in Clock, until \in Clock, CydHolds
  PROVE  until > hnow
<1> DEFINE S == ClockSize
           h == S \div 2
           m == Minus(until, hnow)
<1>1. S \in Nat \ {0} /\ hnow \in 0..(S - 1) /\ until \in 0..(S - 1) /\ HelmUptime \in Nat /\ S > 4
  BY ConstantsAre DEF Clock
<1>2. h \in Nat /\ 2 * h <= S /\ S <= (2 * h) + 1
  BY <1>1, SMTT(60)
<1>3. m = (IF until >= hnow THEN until - hnow ELSE (until - hnow) + S)
  BY MinusIs
<1>4. (IF m < h THEN m ELSE m - S) > 0
  BY DEF CydHolds, Signed
<1>5. hnow < h
  BY <1>1, <1>2 DEF Half, HelmClock
<1> HIDE DEF m, h
<1> QED
  BY <1>1, <1>2, <1>3, <1>4, <1>5

-----------------------------------------------------------------------------
(* What the buttons, the frames under way and the hold are owed.             *)

\* The greatest of a set that has one.
LEMMA MaxIs ==
  ASSUME NEW S, NEW m \in S, \A y \in S : m >= y
  PROVE  Max(S) \in S /\ \A y \in S : Max(S) >= y
  BY DEF Max

\* A press.
LEMMA OwedOnPress ==
  ASSUME owed \in 0..Felt("cyd"), NEW d \in Displays, owed' = Max({owed, Felt(d)})
  PROVE  owed' \in 0..Felt("cyd") /\ owed' >= owed /\ owed' >= Felt(d)
<1> DEFINE S == {owed, Felt(d)}
<1>1. Felt(d) \in Nat /\ Felt(d) <= Felt("cyd") /\ Felt("cyd") \in Nat
  BY ConstantsAre DEF Displays
<1>2. \E m \in S : \A y \in S : m >= y
  BY <1>1
<1>3. Max(S) \in S /\ \A y \in S : Max(S) >= y
  BY <1>2, MaxIs
<1> QED
  BY <1>1, <1>3

\* A unit of time.
LEMMA OwedOnPass ==
  ASSUME owed \in 0..Felt("cyd"), fingers \subseteq Displays,
         owed' = Max({0, owed - 1} \cup {Felt(d) : d \in fingers})
  PROVE  owed' \in 0..Felt("cyd") /\ owed' >= owed - 1 /\ \A d \in fingers : owed' >= Felt(d)
<1> DEFINE S == {0, owed - 1} \cup {Felt(d) : d \in fingers}
<1>1. Felt("helm") \in Nat /\ Felt("helm") <= Felt("cyd") /\ Felt("cyd") \in Nat
  BY ConstantsAre
<1>2. \A d \in fingers : d \in {"helm", "cyd"}
  BY DEF Displays
<1>3. \A y \in S : y = 0 \/ y = owed - 1 \/ (y = Felt("helm") /\ "helm" \in fingers)
                   \/ (y = Felt("cyd") /\ "cyd" \in fingers)
  BY <1>2
<1>4. 0 \in S /\ owed - 1 \in S /\ \A d \in fingers : Felt(d) \in S
  OBVIOUS
<1> HIDE DEF S
<1>5. \E m \in S : \A y \in S : m >= y
  <2>1. CASE "cyd" \in fingers
    BY <1>1, <1>3, <1>4, <2>1
  <2>2. CASE "cyd" \notin fingers /\ "helm" \in fingers
    <3>1. CASE Felt("helm") >= owed - 1
      BY <1>1, <1>3, <1>4, <2>2, <3>1
    <3>2. CASE ~(Felt("helm") >= owed - 1)
      BY <1>1, <1>3, <1>4, <2>2, <3>2
    <3> QED
      BY <3>1, <3>2
  <2>3. CASE "cyd" \notin fingers /\ "helm" \notin fingers
    <3>1. CASE owed = 0
      BY <1>3, <1>4, <2>3, <3>1
    <3>2. CASE owed # 0
      BY <1>3, <1>4, <2>3, <3>2
    <3> QED
      BY <3>1, <3>2
  <2> QED
    BY <2>1, <2>2, <2>3
<1>6. Max(S) \in S /\ \A y \in S : Max(S) >= y
  BY <1>5, MaxIs
<1>7. owed' = Max(S)
  BY DEF S
<1>8. owed' >= 0 /\ owed' >= owed - 1 /\ \A d \in fingers : owed' >= Felt(d)
  BY <1>4, <1>6, <1>7
<1>9. owed' \in Nat /\ owed' <= Felt("cyd")
  BY <1>1, <1>3, <1>6, <1>7, <1>8
<1> QED
  BY <1>1, <1>8, <1>9

\* What the types say of frames and clocks.
Due(f) == Felt(IF f.to = "helm" THEN "cyd" ELSE "helm") - f.age
LEMMA FrameIs ==
  ASSUME HoldTypeOK, NEW f \in air
  PROVE  f \in [to : {"helm", "board"}, age : 0 .. Delay]
         /\ f.to \in {"helm", "board"} /\ f.age \in Nat /\ f.age <= Delay
  BY ConstantsAre DEF HoldTypeOK

\* The buttons, frames and holds of a step that sends nothing: a frame may be lost, a
\* button be released, more be owed.
LEMMA OwedStays ==
  ASSUME HoldTypeOK, OwedAhead, fingers' \subseteq fingers, air' \subseteq air, owed' \in Nat, owed' >= owed,
         until' > hnow' => until' = until /\ hnow' = hnow
  PROVE  OwedAhead'
<1> USE DEF Due
<1>1. /\ \A d \in fingers : owed >= Felt(d)
      /\ \A f \in air : owed >= Due(f)
      /\ until > hnow => owed >= Felt("helm") + (until - hnow)
  BY DEF OwedAhead
<1>2. owed \in Nat /\ fingers \subseteq Displays
  BY ConstantsAre DEF HoldTypeOK
<1>3. \A d \in fingers' : owed' >= Felt(d)
  <2> SUFFICES ASSUME NEW d \in fingers' PROVE owed' >= Felt(d)
    OBVIOUS
  <2>1. Felt(d) \in Nat /\ owed >= Felt(d)
    BY <1>1, <1>2, ConstantsAre DEF Displays
  <2> QED
    BY <1>2, <2>1
<1>4. \A f \in air' : owed' >= Due(f)
  <2> SUFFICES ASSUME NEW f \in air' PROVE owed' >= Due(f)
    OBVIOUS
  <2>1. f \in air
    OBVIOUS
  <2>2. f.to \in {"helm", "board"} /\ f.age \in Nat /\ owed >= Due(f)
    BY <1>1, <2>1, FrameIs
  <2>3. Due(f) \in Int
    BY <2>2, ConstantsAre
  <2> HIDE DEF Due
  <2> QED
    BY <1>2, <2>2, <2>3
<1>5. until' > hnow' => owed' >= Felt("helm") + (until' - hnow')
  <2>1. until \in Int /\ hnow \in Int /\ Felt("helm") \in Nat
    BY ConstantsAre DEF HoldTypeOK, Clock
  <2> QED
    BY <1>1, <1>2, <2>1
<1> QED
  BY <1>3, <1>4, <1>5 DEF OwedAhead

\* A frame that is sent.
LEMMA OwedOnSend ==
  ASSUME HoldTypeOK, OwedAhead, NEW n \in {"helm", "board"}, Sent(n),
         owed >= Felt(IF n = "helm" THEN "cyd" ELSE "helm"), UNCHANGED <<fingers, owed, until, hnow>>
  PROVE  OwedAhead'
<1> DEFINE g == [to |-> n, age |-> 0]
<1>1. air' = air \cup {g} /\ g.to = n /\ g.age = 0
  BY DEF Sent
<1> HIDE DEF g
<1>2. \A f \in air' : owed' >= Due(f)
  <2> SUFFICES ASSUME NEW f \in air' PROVE owed' >= Due(f)
    OBVIOUS
  <2>1. CASE f \in air
    BY <2>1 DEF OwedAhead, Due
  <2>2. CASE f = g
    <3>1. Due(f) = Felt(IF n = "helm" THEN "cyd" ELSE "helm")
      BY <1>1, <2>2, ConstantsAre DEF Due
    <3> QED
      BY <3>1
  <2> QED
    BY <1>1, <2>1, <2>2
<1> QED
  BY <1>2 DEF OwedAhead, Due

\* A frame that arms the hold.
LEMMA OwedOnArm ==
  ASSUME HoldTypeOK, OwedAhead, HelmClock, Half, CydCommandFrame
  PROVE  OwedAhead' /\ HelmClock' /\ until' \in Clock
<1> DEFINE S == ClockSize
           h == S \div 2
<1>1. S \in Nat \ {0} /\ HoldTimeout \in Nat \ {0} /\ S > (2 * HoldTimeout) + 2 /\ HelmUptime \in Nat \ {0}
      /\ Delay \in Nat
  BY ConstantsAre
<1>2. h \in Nat /\ 2 * h <= S
  BY <1>1, SMTT(60)
<1>3. HelmUptime <= h /\ hnow < HelmUptime /\ hnow \in Nat
  BY DEF Half, HelmClock, HoldTypeOK, Clock
<1> HIDE DEF h
<1>4. hnow + HoldTimeout \in 0..(S - 1)
  BY <1>1, <1>2, <1>3
<1>5. until' = hnow + HoldTimeout
  <2>1. until' = (hnow + HoldTimeout) % S
    BY DEF CydCommandFrame
  <2> HIDE DEF S
  <2> QED
    BY <1>1, <1>4, <2>1, OneRound
<1>6. PICK f \in air : f.to = "helm" /\ air' = air \ {f}
  BY DEF CydCommandFrame
<1>7. UNCHANGED <<fingers, hnow, owed>>
  BY DEF CydCommandFrame
<1>8. owed >= Felt("helm") + HoldTimeout
  <2>1. owed >= Felt("cyd") - f.age
    BY <1>6 DEF OwedAhead
  <2>2. f.age \in Nat /\ f.age <= Delay /\ owed \in Nat
    BY <1>6, FrameIs, ConstantsAre DEF HoldTypeOK
  <2> QED
    BY <1>1, <2>1, <2>2, ConstantsAre
<1>9. OwedAhead'
  <2>1. until' - hnow' = HoldTimeout
    BY <1>1, <1>3, <1>5, <1>7
  <2>2. until' > hnow' => owed' >= Felt("helm") + (until' - hnow')
    BY <1>7, <1>8, <2>1
  <2>3. (\A d \in fingers' : owed' >= Felt(d)) /\ (\A e \in air' : owed' >= Felt(IF e.to = "helm" THEN "cyd" ELSE "helm") - e.age)
    BY <1>6, <1>7 DEF OwedAhead
  <2> QED
    BY <2>2, <2>3 DEF OwedAhead
<1>10. HelmClock'
  BY <1>1, <1>3, <1>5, <1>7 DEF HelmClock
<1>11. until' \in Clock
  BY <1>4, <1>5 DEF Clock
<1> QED
  BY <1>9, <1>10, <1>11

\* A unit of time: what is owed grows less by one, and all is one nearer its end.
LEMMA OwedPasses ==
  ASSUME HoldTypeOK, OwedAhead, HelmClock, Half, Pass
  PROVE  OwedAhead' /\ HelmClock' /\ owed' \in 0..Felt("cyd")
<1>1. owed \in 0..Felt("cyd") /\ owed \in Nat /\ fingers \subseteq Displays /\ hnow \in Nat /\ until \in Nat
  BY ConstantsAre DEF HoldTypeOK, Clock
<1>2. owed' \in 0..Felt("cyd") /\ owed' >= owed - 1 /\ \A d \in fingers : owed' >= Felt(d)
  BY <1>1, OwedOnPass DEF Pass
<1>3. owed' \in Nat
  BY <1>2, ConstantsAre
<1>4. hnow' = hnow + 1 /\ hnow' < HelmUptime
  <2> DEFINE S == ClockSize
             h == S \div 2
  <2>1. S \in Nat \ {0} /\ HelmUptime \in Nat \ {0}
    BY ConstantsAre
  <2>2. h \in Nat /\ 2 * h <= S
    BY <2>1, SMTT(60)
  <2>3. HelmUptime <= h
    BY DEF Half
  <2> HIDE DEF h
  <2>4. HelmUptime # S /\ HelmUptime < S
    BY <2>1, <2>2, <2>3
  <2>5. hnow + 1 < HelmUptime
    BY <2>4 DEF Pass
  <2>6. hnow + 1 \in 0..(S - 1)
    BY <1>1, <2>1, <2>4, <2>5
  <2>7. hnow' = (hnow + 1) % S
    BY DEF Pass
  <2> HIDE DEF S
  <2>8. hnow' = hnow + 1
    BY <2>1, <2>6, <2>7, OneRound
  <2> QED
    BY <2>5, <2>8
<1>5. UNCHANGED <<fingers, until>> /\ air' = {[f EXCEPT !.age = @ + 1] : f \in air}
  BY DEF Pass
<1>6. \A g \in air' : owed' >= Due(g)
  <2> SUFFICES ASSUME NEW f \in air, NEW g, g = [f EXCEPT !.age = @ + 1] PROVE owed' >= Due(g)
    BY <1>5
  <2>1. f \in [to : {"helm", "board"}, age : 0 .. Delay] /\ f.to \in {"helm", "board"} /\ f.age \in Nat
    BY FrameIs
  <2>2. g.to = f.to /\ g.age = f.age + 1
    BY <2>1
  <2>3. Due(f) \in Int /\ Due(g) = Due(f) - 1
    <3>1. CASE f.to = "helm"
      BY <2>1, <2>2, <3>1, ConstantsAre DEF Due
    <3>2. CASE f.to = "board"
      BY <2>1, <2>2, <3>2, ConstantsAre DEF Due
    <3> QED
      BY <2>1, <3>1, <3>2
  <2>4. owed >= Due(f)
    BY DEF OwedAhead, Due
  <2> QED
    BY <1>1, <1>2, <1>3, <2>3, <2>4
<1>7. until' > hnow' => owed' >= Felt("helm") + (until' - hnow')
  <2>1. until > hnow => owed >= Felt("helm") + (until - hnow)
    BY DEF OwedAhead
  <2>2. Felt("helm") \in Nat
    BY ConstantsAre
  <2> QED
    BY <1>1, <1>2, <1>3, <1>4, <1>5, <2>1, <2>2
<1>8. \A d \in fingers' : owed' >= Felt(d)
  BY <1>2, <1>5
<1>9. HelmClock'
  BY <1>4, <1>5 DEF HelmClock
<1> QED
  BY <1>2, <1>6, <1>7, <1>8, <1>9 DEF OwedAhead, Due

-----------------------------------------------------------------------------
(* The board's clocks.                                                       *)

\* What is owed beyond the silence, when no more is taken off than the silence has grown.
LEMMA StillOwed ==
  ASSUME NEW o \in Nat, NEW s \in Nat, NEW p \in Nat, NEW n \in {0, 1}, NEW h \in Nat,
         o + s > h, p >= o - n
  PROVE  p + (s + n) > h
  OBVIOUS

\* A step that leaves the board alone: a frame to it may be sent, lost, or be on its way.
LEMMA BoardStays ==
  ASSUME HoldTypeOK, BoardClock, CrankClock, owed' \in Nat, owed' >= owed,
         UNCHANGED <<bnow, seen, looped, start_held, start_last_rx, crank_start, running, silence, cranked>>
  PROVE  BoardClock' /\ CrankClock'
<1>1. CrankClock'
  BY DEF CrankClock, Cranked
<1>2. start_held => owed + silence > Held
  BY DEF BoardClock
<1>3. owed \in Nat /\ silence \in Nat /\ Held \in Nat
  BY ConstantsAre DEF HoldTypeOK
<1>4. start_held' => owed' + silence' > Held
  <2> SUFFICES ASSUME start_held PROVE owed' + silence' > Held
    OBVIOUS
  <2>1. owed + silence > Held
    BY <1>2
  <2>2. silence' = silence + 0 /\ owed' >= owed - 0
    BY <1>3
  <2>3. owed' + (silence + 0) > Held
    BY <1>3, <2>1, <2>2, StillOwed
  <2> QED
    BY <2>2, <2>3, Zenon
<1>5. BoardClock'
  BY <1>4 DEF BoardClock
<1> QED
  BY <1>1, <1>5

\* A START frame: the silence begins anew, and is owed its time.
LEMMA BoardHears ==
  ASSUME HoldTypeOK, OwedAhead, BoardClock, CrankClock, StartHeld
  PROVE  BoardClock' /\ CrankClock'
<1>1. /\ start_held' = TRUE /\ start_last_rx' = bnow /\ silence' = 0
      /\ UNCHANGED <<bnow, seen, looped, crank_start, running, owed, cranked>>
  BY DEF StartHeld
<1>2. PICK f \in air : f.to = "board"
  BY DEF StartHeld
<1>3. owed > Held
  <2>1. f.age \in Nat /\ f.age <= Delay /\ owed \in Nat
    BY FrameIs, ConstantsAre DEF HoldTypeOK
  <2>2. owed >= Felt("helm") - f.age
    BY <1>2 DEF OwedAhead
  <2> QED
    BY <2>1, <2>2, ConstantsAre
<1>4. Minus(bnow, bnow) = 0
  BY MinusIs, ConstantsAre DEF HoldTypeOK, Clock
<1>5. owed \in Nat /\ Held \in Nat /\ Held > 0
  BY ConstantsAre DEF HoldTypeOK
<1>6. owed' + silence' > Held /\ silence' <= Held /\ silence' < Held
  BY <1>1, <1>3, <1>5
<1>7. BoardClock'
  BY <1>1, <1>4, <1>6 DEF BoardClock
<1>8. CrankClock'
  BY <1>1 DEF CrankClock, Cranked
<1> QED
  BY <1>7, <1>8

\* The time a tick read is the board's, or one unit behind it.
LateTick(now) ==
  /\ now \in Clock
  /\ now = bnow \/ (Overtaken /\ ~looped /\ bnow = (now + 1) % ClockSize)

\* What is measured from such a time is at most one unit short, or taken for a whole round.
LEMMA LateByOne ==
  ASSUME HoldTypeOK, NEW now, LateTick(now), NEW b \in Clock, NEW n \in Nat, n + 1 < ClockSize, Minus(now, b) <= n
  PROVE  Minus(bnow, b) + 1 <= n + Slack
<1>1. bnow \in Clock /\ ClockSize \in Nat /\ now \in Clock
  BY ConstantsAre DEF HoldTypeOK, LateTick
<1>2. Minus(bnow, b) \in Nat /\ Minus(now, b) \in Nat
  <2>1. Minus(bnow, b) \in Clock /\ Minus(now, b) \in Clock
    BY <1>1, MinusIs
  <2> QED
    BY <1>1, <2>1 DEF Clock
<1>3. CASE now = bnow
  BY <1>2, <1>3, ConstantsAre
<1>4. CASE now # bnow
  <2>1. Slack = 2 /\ bnow = (now + 1) % ClockSize
    BY <1>4, ConstantsAre DEF LateTick
  <2>2. Minus(now, b) = IF Minus(bnow, b) = 0 THEN ClockSize - 1 ELSE Minus(bnow, b) - 1
    BY <1>1, <2>1, MinusBefore
  <2> QED
    BY <1>1, <1>2, <2>1, <2>2
<1> QED
  BY <1>3, <1>4

\* The tick that lets the starter turn on.
LEMMA KeepsHolding ==
  ASSUME HoldTypeOK, BoardClock, NEW now, LateTick(now), start_held, ~Silent(now)
  PROVE  silence < Held
<1>1. silence <= Held /\ Minus(bnow, start_last_rx) = silence /\ silence \in Nat
  BY ConstantsAre DEF BoardClock, HoldTypeOK
<1>2. Minus(now, start_last_rx) \in Nat /\ start_last_rx \in Clock
  BY MinusIs DEF Clock, HoldTypeOK, LateTick
<1>3. Minus(now, start_last_rx) <= HoldTimeout
  BY <1>2, ConstantsAre DEF Silent
<1>4. HoldTimeout + 1 < ClockSize
  BY ConstantsAre
<1>5. silence + 1 <= HoldTimeout + Slack
  BY <1>1, <1>2, <1>3, <1>4, LateByOne, ConstantsAre
<1> QED
  BY <1>1, <1>5, ConstantsAre

LEMMA TickKeepsTime ==
  ASSUME HoldTypeOK, BoardClock, NEW now, LateTick(now), Deadman(now), seen' = NotYet
  PROVE  BoardClock'
<1>1. /\ start_held' = (start_held /\ ~Silent(now) /\ ~CrankedOut(now))
      /\ UNCHANGED <<bnow, start_last_rx, owed, silence>>
  BY DEF Deadman
<1>2. start_held' => start_held /\ silence < Held
  BY <1>1, KeepsHolding
<1> QED
  BY <1>1, <1>2 DEF BoardClock

LEMMA TickKeepsCranking ==
  ASSUME HoldTypeOK, CrankClock, NEW now, LateTick(now), Deadman(now)
  PROVE  CrankClock'
<1>1. /\ start_held' = (start_held /\ ~Silent(now) /\ ~CrankedOut(now))
      /\ looped' = TRUE /\ bnow' = bnow
      /\ cranked' = IF start_held' /\ ~running THEN cranked ELSE 0
      /\ crank_start' = IF ~(start_held' /\ ~running) THEN 0
                        ELSE IF crank_start = 0 THEN bnow ELSE crank_start
  BY DEF Deadman, Physics
<1>2. bnow \in Nat /\ bnow \in Clock /\ cranked \in Nat /\ crank_start \in Clock /\ 0 \in Clock
  BY ConstantsAre DEF HoldTypeOK, Clock
<1>3. CASE ~(start_held' /\ ~running)
  BY <1>1, <1>3 DEF CrankClock
<1>4. CASE start_held' /\ ~running /\ crank_start = 0
  <2>1. crank_start' = bnow /\ cranked' = cranked
    BY <1>1, <1>4
  <2>2. cranked = 0 \/ (cranked = 1 /\ (looped => bnow = 0)) \/ (cranked = 2 /\ ~looped /\ bnow = 1)
    BY <1>4 DEF CrankClock
  <2>3. CASE bnow = 0
    BY <1>1, <2>1, <2>2, <2>3 DEF CrankClock
  <2>4. CASE bnow # 0
    <3>1. Cranked' = 0
      <4>1. Minus(bnow, bnow) = 0
        BY <1>2, MinusIs
      <4> QED
        BY <1>1, <2>1, <4>1 DEF Cranked
    <3>2. CrankMax + Slack > 0
      BY ConstantsAre
    <3>3. cranked' <= 2 /\ cranked' >= 0
      BY <1>2, <2>1, <2>2
    <3> QED
      BY <1>1, <1>4, <2>1, <2>4, <3>1, <3>2, <3>3, ConstantsAre DEF CrankClock
  <2> QED
    BY <2>3, <2>4
<1>5. CASE start_held' /\ ~running /\ crank_start # 0
  <2>1. crank_start' = crank_start /\ cranked' = cranked /\ Cranked' = Cranked
    BY <1>1, <1>5 DEF Cranked
  <2>2. Cranked \in Nat /\ Minus(now, crank_start) \in Nat
    BY <1>2, MinusIs DEF Clock, LateTick, Cranked
  <2>3. cranked <= Cranked + 2 /\ cranked >= Cranked /\ cranked + 1 >= Cranked
    BY <1>5, <1>2, <2>2 DEF CrankClock
  <2>4. Minus(now, crank_start) <= CrankMax
    <3>1. ~CrankedOut(now)
      BY <1>1, <1>5, Zenon
    <3>2. ~(Minus(now, crank_start) > CrankMax)
      BY <1>5, <3>1, Zenon DEF CrankedOut
    <3> QED
      BY <2>2, <3>2, ConstantsAre
  <2>5. Cranked + 1 <= CrankMax + Slack
    <3>1. CrankMax + 1 < ClockSize
      BY ConstantsAre
    <3> QED
      BY <1>2, <2>4, <3>1, LateByOne, ConstantsAre DEF Cranked
  <2>6. Cranked < CrankMax + Slack
    BY <2>2, <2>5, ConstantsAre
  <2> QED
    BY <1>1, <1>5, <2>1, <2>2, <2>3, <2>6, ConstantsAre DEF CrankClock
<1> QED
  BY <1>3, <1>4, <1>5

\* A unit of time.
LEMMA BoardPasses ==
  ASSUME HoldTypeOK, BoardClock, Pass, owed' \in Nat, owed' >= owed - 1
  PROVE  BoardClock'
<1>1. /\ looped /\ ~looped' /\ bnow' = (bnow + 1) % ClockSize
      /\ silence' = UpTo(silence, HoldTimeout + Slack)
      /\ UNCHANGED <<seen, start_held, start_last_rx, crank_start, running>>
  BY DEF Pass, control
<1>2. owed \in Nat /\ silence \in Nat /\ Held \in Nat /\ bnow \in Clock /\ start_last_rx \in Clock /\ bnow' \in Clock
  BY <1>1, NextClock, ConstantsAre DEF HoldTypeOK
<1>3. silence' = IF silence > Held THEN silence ELSE silence + 1
  BY <1>1, ConstantsAre DEF UpTo
<1>4. silence' <= Held => Minus(bnow', start_last_rx') = silence'
  <2> SUFFICES ASSUME silence' <= Held PROVE Minus(bnow', start_last_rx) = silence'
    BY <1>1
  <2>1. silence <= Held /\ silence' = silence + 1
    BY <1>2, <1>3
  <2>2. Minus(bnow, start_last_rx) = silence
    BY <2>1 DEF BoardClock
  <2>3. silence + 1 < ClockSize
    BY <1>2, <2>1, ConstantsAre
  <2> QED
    BY <1>1, <1>2, <2>1, <2>2, <2>3, MinusNext
<1>5. start_held' => silence' <= Held /\ owed' + silence' > Held
  <2> SUFFICES ASSUME start_held PROVE silence' <= Held /\ owed' + silence' > Held
    BY <1>1
  <2>1. silence < Held /\ owed + silence > Held
    BY <1>1 DEF BoardClock
  <2>2. silence' = silence + 1
    BY <1>2, <1>3, <2>1
  <2>3. silence' <= Held /\ silence' \in Int
    BY <1>2, <2>1, <2>2
  <2>4. owed' + (silence + 1) > Held
    BY <1>2, <2>1, StillOwed
  <2> QED
    BY <2>2, <2>3, <2>4, Zenon
<1>6. seen # NotYet => seen = bnow
  BY <1>1 DEF BoardClock
<1>7. seen' # NotYet => Overtaken /\ (seen' = bnow' \/ (~looped' /\ bnow' = (seen' + 1) % ClockSize))
  BY <1>1, <1>6 DEF BoardClock
<1> QED
  BY <1>1, <1>4, <1>5, <1>7 DEF BoardClock

LEMMA CrankPasses ==
  ASSUME HoldTypeOK, CrankClock, Pass
  PROVE  CrankClock'
<1>1. /\ looped /\ ~looped' /\ bnow' = (bnow + 1) % ClockSize
      /\ cranked' = IF start_held /\ ~running THEN UpTo(cranked, CrankMax + 2 + Slack) ELSE cranked
      /\ UNCHANGED <<start_held, crank_start, running>>
  BY DEF Pass, control
<1>2. bnow \in Clock /\ cranked \in Nat /\ crank_start \in Clock /\ bnow' \in Clock
  BY <1>1, NextClock DEF HoldTypeOK
<1>3. cranked' = cranked \/ cranked' = cranked + 1
  BY <1>1 DEF UpTo
<1>4. CASE crank_start = 0
  <2>1. cranked = 0 \/ (cranked = 1 /\ bnow = 0)
    BY <1>1, <1>4 DEF CrankClock
  <2>2. bnow = 0 => bnow' = 1
    <3>1. ClockSize \in Nat /\ ClockSize > 1
      BY ConstantsAre
    <3>2. bnow' = IF bnow + 1 = ClockSize THEN 0 ELSE bnow + 1
      BY <1>1, <1>2, NextClock
    <3> QED
      BY <3>1, <3>2
  <2>3. cranked' \in {0, 1} \/ (cranked' = 2 /\ bnow' = 1)
    BY <1>2, <1>3, <2>1, <2>2
  <2> QED
    BY <1>1, <1>4, <2>3 DEF CrankClock
<1>5. CASE crank_start # 0
  <2>1. /\ start_held /\ Cranked < CrankMax + Slack /\ cranked <= Cranked + 2
        /\ cranked + 1 >= Cranked /\ cranked >= Cranked
    BY <1>1, <1>5 DEF CrankClock
  <2>2. Cranked \in Nat
    BY <1>2, MinusIs DEF Cranked, Clock
  <2>3. Cranked' = Cranked + 1
    <3>1. Minus(bnow, crank_start) + 1 < ClockSize
      BY <2>1, <2>2, ConstantsAre DEF Cranked
    <3> QED
      BY <1>1, <1>2, <3>1, MinusNext DEF Cranked
  <2>4. ~running => cranked' = cranked + 1
    <3>1. ~(cranked > CrankMax + 2 + Slack)
      BY <1>2, <2>1, <2>2, ConstantsAre
    <3> QED
      BY <1>1, <2>1, <3>1 DEF UpTo
  <2>5. /\ Cranked' <= CrankMax + Slack /\ cranked' <= Cranked' + 2
        /\ cranked' + 1 >= Cranked' /\ (~running => cranked' >= Cranked')
    BY <1>2, <1>3, <2>1, <2>2, <2>3, <2>4, ConstantsAre
  <2> QED
    BY <1>1, <1>5, <2>1, <2>5 DEF CrankClock
<1> QED
  BY <1>4, <1>5

-----------------------------------------------------------------------------
(* Types.                                                                    *)

DisplaysTyped ==
  /\ fingers \subseteq Displays
  /\ air \subseteq [to : {"helm", "board"}, age : 0 .. Delay]
  /\ hnow \in Clock /\ until \in Clock
BoardTyped ==
  /\ bnow \in Clock /\ seen \in Clock \cup {NotYet}
  /\ looped \in BOOLEAN
  /\ start_held \in BOOLEAN /\ running \in BOOLEAN
  /\ start_last_rx \in Clock /\ crank_start \in Clock
HistoryTyped ==
  /\ owed \in 0 .. Felt("cyd")
  /\ silence \in 0 .. HoldTimeout + Slack + 1
  /\ cranked \in 0 .. CrankMax + 3 + Slack

LEMMA TypeParts == HoldTypeOK <=> DisplaysTyped /\ BoardTyped /\ HistoryTyped
  BY DEF HoldTypeOK, DisplaysTyped, BoardTyped, HistoryTyped

LEMMA TypePartsNext == HoldTypeOK' <=> DisplaysTyped' /\ BoardTyped' /\ HistoryTyped'
  BY DEF HoldTypeOK, DisplaysTyped, BoardTyped, HistoryTyped

\* A counter that stops at its bound.
LEMMA UpToIs ==
  ASSUME NEW b \in Nat, NEW n \in 0..(b + 1)
  PROVE  UpTo(n, b) \in 0..(b + 1)
  BY DEF UpTo

\* A frame that is sent is a frame.
LEMMA SentIsTyped ==
  ASSUME DisplaysTyped, NEW n \in {"helm", "board"}, Sent(n)
  PROVE  air' \subseteq [to : {"helm", "board"}, age : 0 .. Delay]
<1>1. [to |-> n, age |-> 0] \in [to : {"helm", "board"}, age : 0 .. Delay]
  BY ConstantsAre
<1> QED
  BY <1>1 DEF Sent, DisplaysTyped

\* A tick of the board.
LEMMA TickIsTyped ==
  ASSUME HoldTypeOK, NEW now, Deadman(now), seen' \in {seen, NotYet}
  PROVE  HoldTypeOK'
<1>1. BoardTyped /\ DisplaysTyped /\ HistoryTyped
  BY TypeParts
<1>2. DisplaysTyped'
  BY <1>1 DEF Deadman, DisplaysTyped, helmClock
<1>3. bnow' \in Clock /\ seen' \in Clock \cup {NotYet} /\ start_last_rx' \in Clock /\ looped' \in BOOLEAN
  BY <1>1 DEF Deadman, BoardTyped
<1>4. start_held' \in BOOLEAN
  BY DEF Deadman
<1>5. running' \in BOOLEAN
  BY DEF Deadman, Physics
<1>6. crank_start' \in Clock
  <2>1. crank_start' = 0 \/ crank_start' = bnow \/ crank_start' = crank_start
    BY DEF Deadman, Physics
  <2>2. 0 \in Clock
    BY ConstantsAre DEF Clock
  <2> QED
    BY <1>1, <2>1, <2>2 DEF BoardTyped
<1>7. HistoryTyped'
  <2>1. owed' = owed /\ silence' = silence /\ (cranked' = cranked \/ cranked' = 0)
    BY DEF Deadman
  <2>2. 0 \in 0 .. CrankMax + 3 + Slack
    BY ConstantsAre
  <2> QED
    BY <1>1, <2>1, <2>2 DEF HistoryTyped
<1> QED
  BY <1>2, <1>3, <1>4, <1>5, <1>6, <1>7, TypePartsNext DEF BoardTyped

-----------------------------------------------------------------------------
(* The invariant.                                                            *)

LEMMA DeadInit == HoldInit => DeadInv
<1> SUFFICES ASSUME HoldInit PROVE DeadInv
  OBVIOUS
<1>1. 0 \in Clock /\ BoardBoot \in Clock
  BY ConstantsAre DEF Clock
<1>2. DisplaysTyped
  BY <1>1 DEF HoldInit, DisplaysTyped
<1>3. BoardTyped
  BY <1>1 DEF HoldInit, BoardTyped
<1>4. HistoryTyped
  <2>1. 0 \in 0 .. Felt("cyd") /\ 0 \in 0 .. CrankMax + 3 + Slack
        /\ HoldTimeout + Slack + 1 \in 0 .. HoldTimeout + Slack + 1
    BY ConstantsAre
  <2> QED
    BY <2>1 DEF HoldInit, HistoryTyped
<1>5. HelmClock
  BY ConstantsAre DEF HoldInit, HelmClock
<1>6. OwedAhead
  BY DEF HoldInit, OwedAhead
<1>7. BoardClock
  <2>1. ~(silence <= Held)
    BY ConstantsAre DEF HoldInit
  <2> QED
    BY <2>1 DEF HoldInit, BoardClock
<1>8. CrankClock
  BY DEF HoldInit, CrankClock
<1> QED
  BY <1>2, <1>3, <1>4, <1>5, <1>6, <1>7, <1>8, TypeParts DEF DeadInv

LEMMA PressKeeps ==
  ASSUME DeadInv, NEW d \in Displays, Press(d)
  PROVE  DeadInv'
<1> USE DEF DeadInv
<1>1. DisplaysTyped /\ BoardTyped /\ HistoryTyped /\ owed \in 0..Felt("cyd")
  BY TypeParts DEF HistoryTyped
<1>2. /\ fingers' = fingers \cup {d} /\ owed' = Max({owed, Felt(d)})
      /\ UNCHANGED <<air, hnow, until, silence, cranked>>
      /\ UNCHANGED <<bnow, seen, looped, start_held, start_last_rx, crank_start, running>>
  BY DEF Press, helmClock, control
<1>3. owed' \in 0..Felt("cyd") /\ owed' >= owed /\ owed' >= Felt(d)
  BY <1>1, <1>2, OwedOnPress
<1>4. owed' \in Nat /\ owed \in Nat
  BY <1>1, <1>3, ConstantsAre
<1>5. HoldTypeOK'
  <2>1. DisplaysTyped' /\ BoardTyped' /\ HistoryTyped'
    BY <1>1, <1>2, <1>3 DEF DisplaysTyped, BoardTyped, HistoryTyped
  <2> QED
    BY <2>1, TypePartsNext
<1>6. HelmClock'
  BY <1>2 DEF HelmClock
<1>7. OwedAhead'
  <2>1. \A f \in air' : owed' >= Due(f)
    <3> SUFFICES ASSUME NEW f \in air PROVE owed' >= Due(f)
      BY <1>2
    <3>1. owed >= Due(f) /\ f.to \in {"helm", "board"} /\ f.age \in Nat
      BY FrameIs DEF OwedAhead, Due
    <3>2. Due(f) \in Int
      BY <3>1, ConstantsAre DEF Due
    <3> QED
      BY <1>3, <1>4, <3>1, <3>2
  <2>2. until' > hnow' => owed' >= Felt("helm") + (until' - hnow')
    <3>1. until \in Int /\ hnow \in Int /\ Felt("helm") \in Nat
      BY <1>1, ConstantsAre DEF DisplaysTyped, Clock
    <3>2. until > hnow => owed >= Felt("helm") + (until - hnow)
      BY DEF OwedAhead
    <3> QED
      BY <1>2, <1>3, <1>4, <3>1, <3>2
  <2>3. \A e \in fingers' : owed' >= Felt(e)
    <3> SUFFICES ASSUME NEW e \in fingers, e \in Displays PROVE owed' >= Felt(e)
      BY <1>1, <1>2, <1>3 DEF DisplaysTyped
    <3>1. owed >= Felt(e) /\ Felt(e) \in Nat
      BY ConstantsAre DEF OwedAhead, Displays
    <3> QED
      BY <1>3, <1>4, <3>1
  <2> QED
    BY <2>1, <2>2, <2>3 DEF OwedAhead, Due
<1>8. BoardClock' /\ CrankClock'
  BY <1>2, <1>3, <1>4, BoardStays
<1> QED
  BY <1>5, <1>6, <1>7, <1>8

\* What a display does to its buttons and frames leaves the board alone.
LEMMA DisplaysStep ==
  ASSUME DeadInv, DisplaysTyped', HelmClock', OwedAhead',
         UNCHANGED <<owed, silence, cranked>>,
         UNCHANGED <<bnow, seen, looped, start_held, start_last_rx, crank_start, running>>
  PROVE  DeadInv'
<1> USE DEF DeadInv
<1>1. BoardTyped /\ HistoryTyped /\ owed \in 0..Felt("cyd")
  BY TypeParts DEF HistoryTyped
<1>2. BoardTyped' /\ HistoryTyped'
  BY <1>1 DEF BoardTyped, HistoryTyped
<1>3. HoldTypeOK'
  BY <1>2, TypePartsNext
<1>4. owed' \in Nat /\ owed' >= owed
  BY <1>1, ConstantsAre
<1>5. BoardClock' /\ CrankClock'
  BY <1>4, BoardStays
<1> QED
  BY <1>3, <1>5

LEMMA ReleaseKeeps ==
  ASSUME DeadInv, NEW d \in Displays, LetGo(d)
  PROVE  DeadInv'
<1>1. /\ fingers' = fingers \ {d} /\ air' = air /\ hnow' = hnow /\ until' = until
      /\ UNCHANGED <<owed, silence, cranked>>
      /\ UNCHANGED <<bnow, seen, looped, start_held, start_last_rx, crank_start, running>>
  BY DEF LetGo, helmClock, control
<1>2. HoldTypeOK /\ OwedAhead /\ HelmClock
  BY DEF DeadInv
<1>3. DisplaysTyped'
  BY <1>1, <1>2 DEF HoldTypeOK, DisplaysTyped
<1>4. owed' \in Nat /\ owed' >= owed
  BY <1>1, <1>2, ConstantsAre DEF HoldTypeOK
<1>5. OwedAhead'
  BY <1>1, <1>2, <1>4, OwedStays
<1> QED
  BY <1>1, <1>2, <1>3, <1>5, DisplaysStep DEF HelmClock

LEMMA LoseKeeps ==
  ASSUME DeadInv, Lose
  PROVE  DeadInv'
<1>1. /\ fingers' = fingers /\ air' \subseteq air /\ hnow' = hnow /\ until' = until
      /\ UNCHANGED <<owed, silence, cranked>>
      /\ UNCHANGED <<bnow, seen, looped, start_held, start_last_rx, crank_start, running>>
  BY DEF Lose, helmClock, control
<1>2. HoldTypeOK /\ OwedAhead /\ HelmClock
  BY DEF DeadInv
<1>3. DisplaysTyped'
  BY <1>1, <1>2 DEF HoldTypeOK, DisplaysTyped
<1>4. owed' \in Nat /\ owed' >= owed
  BY <1>1, <1>2, ConstantsAre DEF HoldTypeOK
<1>5. OwedAhead'
  BY <1>1, <1>2, <1>4, OwedStays
<1> QED
  BY <1>1, <1>2, <1>3, <1>5, DisplaysStep DEF HelmClock

LEMMA RebootKeeps ==
  ASSUME DeadInv, HelmReboot
  PROVE  DeadInv'
<1>1. /\ fingers' \subseteq fingers /\ air' = air /\ hnow' = 0 /\ until' = 0
      /\ UNCHANGED <<owed, silence, cranked>>
      /\ UNCHANGED <<bnow, seen, looped, start_held, start_last_rx, crank_start, running>>
  BY DEF HelmReboot, control
<1>2. HoldTypeOK /\ OwedAhead /\ 0 \in Clock
  BY ConstantsAre DEF DeadInv, Clock
<1>3. DisplaysTyped'
  BY <1>1, <1>2 DEF HoldTypeOK, DisplaysTyped
<1>4. owed' \in Nat /\ owed' >= owed /\ ~(until' > hnow')
  BY <1>1, <1>2, ConstantsAre DEF HoldTypeOK
<1>5. OwedAhead'
  BY <1>1, <1>2, <1>4, OwedStays
<1>6. HelmClock'
  BY <1>1, ConstantsAre DEF HelmClock
<1> QED
  BY <1>1, <1>3, <1>5, <1>6, DisplaysStep

LEMMA SendKeeps ==
  ASSUME DeadInv, NEW n \in {"helm", "board"}, Sent(n),
         owed >= Felt(IF n = "helm" THEN "cyd" ELSE "helm"),
         UNCHANGED <<fingers, hnow, until, owed, silence, cranked>>,
         UNCHANGED <<bnow, seen, looped, start_held, start_last_rx, crank_start, running>>
  PROVE  DeadInv'
<1>1. HoldTypeOK /\ OwedAhead /\ HelmClock /\ DisplaysTyped
  BY TypeParts DEF DeadInv
<1>2. OwedAhead'
  BY <1>1, OwedOnSend
<1>3. DisplaysTyped'
  BY <1>1, SentIsTyped DEF DisplaysTyped
<1> QED
  BY <1>1, <1>2, <1>3, DisplaysStep DEF HelmClock

LEMMA CydSendKeeps ==
  ASSUME DeadInv, CydSend
  PROVE  DeadInv'
<1>1. owed >= Felt("cyd")
  BY DEF CydSend, DeadInv, OwedAhead
<1> QED
  BY <1>1, SendKeeps DEF CydSend, helmClock, control

LEMMA HelmSendKeeps ==
  ASSUME Half, DeadInv, HelmSend
  PROVE  DeadInv'
<1>1. owed >= Felt("helm")
  <2>1. CASE "helm" \in fingers
    BY <2>1 DEF DeadInv, OwedAhead
  <2>2. CASE CydHolds
    <3>1. hnow \in Clock /\ until \in Clock /\ owed \in Nat
      BY ConstantsAre DEF DeadInv, HoldTypeOK
    <3>2. until > hnow
      BY <2>2, <3>1, HoldIsRead DEF DeadInv
    <3>3. owed >= Felt("helm") + (until - hnow)
      BY <3>2 DEF DeadInv, OwedAhead
    <3> QED
      BY <3>1, <3>2, <3>3, ConstantsAre DEF Clock
  <2> QED
    BY <2>1, <2>2 DEF HelmSend
<1> QED
  BY <1>1, SendKeeps DEF HelmSend, helmClock, control

LEMMA ArmKeeps ==
  ASSUME Half, DeadInv, CydCommandFrame
  PROVE  DeadInv'
<1>1. /\ fingers' = fingers /\ air' \subseteq air /\ hnow' = hnow
      /\ UNCHANGED <<owed, silence, cranked>>
      /\ UNCHANGED <<bnow, seen, looped, start_held, start_last_rx, crank_start, running>>
  BY DEF CydCommandFrame, control
<1>2. OwedAhead' /\ HelmClock' /\ until' \in Clock
  BY OwedOnArm DEF DeadInv
<1>3. DisplaysTyped'
  BY <1>1, <1>2 DEF DeadInv, HoldTypeOK, DisplaysTyped
<1> QED
  BY <1>1, <1>2, <1>3, DisplaysStep

LEMMA StartKeeps ==
  ASSUME DeadInv, StartHeld
  PROVE  DeadInv'
<1>1. /\ fingers' = fingers /\ air' \subseteq air /\ hnow' = hnow /\ until' = until
      /\ start_held' = TRUE /\ start_last_rx' = bnow /\ silence' = 0
      /\ UNCHANGED <<bnow, seen, looped, crank_start, running, owed, cranked>>
  BY DEF StartHeld, helmClock
<1>2. HoldTypeOK /\ OwedAhead /\ HelmClock /\ BoardClock /\ CrankClock
  BY DEF DeadInv
<1>3. DisplaysTyped' /\ BoardTyped'
  BY <1>1, <1>2 DEF HoldTypeOK, DisplaysTyped, BoardTyped
<1>4. HistoryTyped'
  <2>1. 0 \in 0 .. HoldTimeout + Slack + 1
    BY ConstantsAre
  <2> QED
    BY <1>1, <1>2, <2>1 DEF HoldTypeOK, HistoryTyped
<1>5. owed' \in Nat /\ owed' >= owed
  BY <1>1, <1>2, ConstantsAre DEF HoldTypeOK
<1>6. OwedAhead'
  BY <1>1, <1>2, <1>5, OwedStays
<1>7. BoardClock' /\ CrankClock'
  BY <1>2, BoardHears
<1> QED
  BY <1>1, <1>2, <1>3, <1>4, <1>6, <1>7, TypePartsNext DEF DeadInv, HelmClock

\* A tick leaves the displays alone.
LEMMA TickKeeps ==
  ASSUME DeadInv, NEW now, LateTick(now), Deadman(now), seen' \in {seen, NotYet}, seen' = NotYet
  PROVE  DeadInv'
<1>1. UNCHANGED <<fingers, air, hnow, until, owed>>
  BY DEF Deadman, helmClock
<1>2. HoldTypeOK /\ OwedAhead /\ HelmClock /\ BoardClock /\ CrankClock
  BY DEF DeadInv
<1>3. HoldTypeOK'
  BY <1>2, TickIsTyped
<1>4. OwedAhead' /\ HelmClock'
  BY <1>1, <1>2 DEF OwedAhead, HelmClock
<1>5. BoardClock'
  BY <1>2, TickKeepsTime
<1>6. CrankClock'
  BY <1>2, TickKeepsCranking
<1> QED
  BY <1>3, <1>4, <1>5, <1>6 DEF DeadInv

LEMMA BoardTickKeeps ==
  ASSUME DeadInv, BoardTick
  PROVE  DeadInv'
<1>1. seen' = NotYet /\ seen' = seen /\ Deadman(bnow)
  BY DEF BoardTick
<1>2. LateTick(bnow)
  BY DEF DeadInv, HoldTypeOK, LateTick
<1> QED
  BY <1>1, <1>2, TickKeeps

LEMMA BoardComparesKeeps ==
  ASSUME DeadInv, BoardCompares
  PROVE  DeadInv'
<1>1. seen # NotYet /\ seen' = NotYet /\ Deadman(seen)
  BY DEF BoardCompares
<1>2. LateTick(seen)
  <2>1. seen \in Clock
    BY <1>1 DEF DeadInv, HoldTypeOK
  <2>2. Overtaken /\ (seen = bnow \/ (~looped /\ bnow = (seen + 1) % ClockSize))
    BY <1>1 DEF DeadInv, BoardClock
  <2> QED
    BY <2>1, <2>2 DEF LateTick
<1> QED
  BY <1>1, <1>2, TickKeeps

LEMMA BoardReadsKeeps ==
  ASSUME DeadInv, BoardReadsClock
  PROVE  DeadInv'
<1>1. /\ Overtaken /\ seen' = bnow
      /\ UNCHANGED <<fingers, air, hnow, until, bnow, looped, owed, silence, cranked>>
      /\ UNCHANGED <<start_held, start_last_rx, crank_start, running>>
  BY DEF BoardReadsClock, helmClock, control
<1>2. HoldTypeOK /\ OwedAhead /\ HelmClock /\ BoardClock /\ CrankClock
  BY DEF DeadInv
<1>3. HoldTypeOK'
  BY <1>1, <1>2 DEF HoldTypeOK
<1>4. OwedAhead' /\ HelmClock' /\ CrankClock'
  BY <1>1, <1>2 DEF OwedAhead, HelmClock, CrankClock, Cranked
<1>5. BoardClock'
  BY <1>1, <1>2 DEF BoardClock
<1> QED
  BY <1>3, <1>4, <1>5 DEF DeadInv

LEMMA PassKeeps ==
  ASSUME Half, DeadInv, Pass
  PROVE  DeadInv'
<1>1. HoldTypeOK /\ OwedAhead /\ HelmClock /\ BoardClock /\ CrankClock
  BY DEF DeadInv
<1>2. OwedAhead' /\ HelmClock' /\ owed' \in 0..Felt("cyd")
  BY <1>1, OwedPasses
<1>3. owed' \in Nat /\ owed' >= owed - 1
  <2>1. owed \in 0..Felt("cyd") /\ fingers \subseteq Displays
    BY <1>1 DEF HoldTypeOK
  <2>2. owed' >= owed - 1
    BY <2>1, OwedOnPass DEF Pass
  <2> QED
    BY <1>2, <2>2, ConstantsAre
<1>4. BoardClock'
  BY <1>1, <1>3, BoardPasses
<1>5. CrankClock'
  BY <1>1, CrankPasses
<1>6. DisplaysTyped'
  <2>1. fingers' = fingers /\ until' = until
    BY DEF Pass
  <2>2. hnow' \in Clock
    BY <1>1, NextClock DEF Pass, HoldTypeOK
  <2>3. \A f \in air : [f EXCEPT !.age = @ + 1] \in [to : {"helm", "board"}, age : 0 .. Delay]
    <3> SUFFICES ASSUME NEW f \in air
                 PROVE  [f EXCEPT !.age = @ + 1] \in [to : {"helm", "board"}, age : 0 .. Delay]
      OBVIOUS
    <3>1. f \in [to : {"helm", "board"}, age : 0 .. Delay] /\ f.age \in Nat
      BY <1>1, FrameIs
    <3>2. f.age + 1 \in 0 .. Delay
      BY <3>1, ConstantsAre DEF Pass
    <3> QED
      BY <3>1, <3>2
  <2>4. air' = {[f EXCEPT !.age = @ + 1] : f \in air}
    BY DEF Pass
  <2>5. air' \subseteq [to : {"helm", "board"}, age : 0 .. Delay]
    BY <2>3, <2>4
  <2> QED
    BY <1>1, <2>1, <2>2, <2>5 DEF HoldTypeOK, DisplaysTyped
<1>7. BoardTyped'
  <2>1. bnow' \in Clock /\ looped' = FALSE
    BY <1>1, NextClock DEF Pass, HoldTypeOK
  <2>2. UNCHANGED <<seen, start_held, start_last_rx, crank_start, running>>
    BY DEF Pass, control
  <2> QED
    BY <1>1, <2>1, <2>2 DEF HoldTypeOK, BoardTyped
<1>8. HistoryTyped'
  <2>1. silence' \in 0 .. (HoldTimeout + Slack) + 1
    <3>1. HoldTimeout + Slack \in Nat /\ silence \in 0 .. (HoldTimeout + Slack) + 1
      BY <1>1, ConstantsAre DEF HoldTypeOK
    <3> QED
      BY <3>1, UpToIs DEF Pass
  <2>2. cranked' \in 0 .. (CrankMax + 2 + Slack) + 1
    <3>1. CrankMax + 2 + Slack \in Nat /\ cranked \in 0 .. (CrankMax + 2 + Slack) + 1
      BY <1>1, ConstantsAre DEF HoldTypeOK
    <3>2. UpTo(cranked, CrankMax + 2 + Slack) \in 0 .. (CrankMax + 2 + Slack) + 1
      BY <3>1, UpToIs
    <3> QED
      BY <3>1, <3>2 DEF Pass
  <2> QED
    BY <1>2, <2>1, <2>2, ConstantsAre DEF HistoryTyped
<1> QED
  BY <1>2, <1>4, <1>5, <1>6, <1>7, <1>8, TypePartsNext DEF DeadInv

LEMMA DeadStep ==
  ASSUME Half
  PROVE  DeadInv /\ [HoldNext]_holdVars => DeadInv'
<1> SUFFICES ASSUME DeadInv, [HoldNext]_holdVars PROVE DeadInv'
  OBVIOUS
<1>1. ASSUME NEW d \in Displays, Press(d) PROVE DeadInv'
  BY <1>1, PressKeeps
<1>2. ASSUME NEW d \in Displays, LetGo(d) PROVE DeadInv'
  BY <1>2, ReleaseKeeps
<1>3. CASE CydSend
  BY <1>3, CydSendKeeps
<1>4. CASE CydCommandFrame
  BY <1>4, ArmKeeps
<1>5. CASE HelmSend
  BY <1>5, HelmSendKeeps
<1>6. CASE Lose
  BY <1>6, LoseKeeps
<1>7. CASE StartHeld
  BY <1>7, StartKeeps
<1>8. CASE BoardTick
  BY <1>8, BoardTickKeeps
<1>9. CASE BoardReadsClock
  BY <1>9, BoardReadsKeeps
<1>10. CASE BoardCompares
  BY <1>10, BoardComparesKeeps
<1>11. CASE HelmReboot
  BY <1>11, RebootKeeps
<1>12. CASE Pass
  BY <1>12, PassKeeps
<1>13. CASE UNCHANGED holdVars
  <2>1. UNCHANGED <<fingers, air, hnow, until, owed, silence, cranked>>
        /\ UNCHANGED <<bnow, seen, looped, start_held, start_last_rx, crank_start, running>>
    BY <1>13 DEF holdVars, helmClock, control
  <2>2. DisplaysTyped' /\ HelmClock' /\ OwedAhead'
    BY <2>1, TypeParts DEF DeadInv, DisplaysTyped, HelmClock, OwedAhead
  <2> QED
    BY <2>1, <2>2, DisplaysStep
<1> QED
  BY <1>1, <1>2, <1>3, <1>4, <1>5, <1>6, <1>7, <1>8, <1>9, <1>10, <1>11, <1>12, <1>13 DEF HoldNext

LEMMA DeadAlways == ASSUME Half PROVE HoldSpec => []DeadInv
<1>1. DeadInv /\ [HoldNext]_holdVars => DeadInv'
  BY DeadStep
<1> QED
  BY <1>1, DeadInit, PTL DEF HoldSpec

\* While the starter is held somebody is owed it, and it does not turn for too long.
LEMMA InHand == DeadInv => StarterInHand
<1> SUFFICES ASSUME DeadInv PROVE StarterInHand
  OBVIOUS
<1>1. HoldTypeOK /\ owed \in Nat /\ silence \in Nat /\ cranked \in Nat
  BY ConstantsAre DEF DeadInv, HoldTypeOK
<1>2. HeldByAFinger
  <2> SUFFICES ASSUME start_held PROVE owed > 0
    BY DEF HeldByAFinger
  <2>1. silence <= Held /\ owed + silence > Held
    BY DEF DeadInv, BoardClock
  <2> QED
    BY <1>1, <2>1, ConstantsAre
<1>3. CrankIsBounded
  <2>1. CASE crank_start = 0
    <3>1. cranked <= 2
      BY <2>1 DEF DeadInv, CrankClock
    <3> QED
      BY <1>1, <3>1, ConstantsAre DEF CrankIsBounded
  <2>2. CASE crank_start # 0
    <3>1. Cranked \in Nat
      BY <1>1, MinusIs DEF Cranked, HoldTypeOK, Clock
    <3>2. Cranked <= CrankMax + Slack /\ cranked <= Cranked + 2
      BY <2>2 DEF DeadInv, CrankClock
    <3> QED
      BY <1>1, <3>1, <3>2, ConstantsAre DEF CrankIsBounded
  <2> QED
    BY <2>1, <2>2
<1> QED
  BY <1>1, <1>2, <1>3 DEF StarterInHand

\* What a tick says when it drops a START at the time it is.
LEMMA TickHasReason ==
  ASSUME DeadInv, start_held, Silent(bnow) \/ CrankedOut(bnow)
  PROVE  silence > HoldTimeout \/ cranked >= CrankMax
<1>1. silence \in Nat /\ cranked \in Nat /\ bnow \in Clock /\ start_last_rx \in Clock /\ crank_start \in Clock
  BY ConstantsAre DEF DeadInv, HoldTypeOK
<1>2. CASE Silent(bnow)
  <2>1. silence <= Held
    BY DEF DeadInv, BoardClock
  <2>2. Minus(bnow, start_last_rx) = silence
    BY <2>1 DEF DeadInv, BoardClock
  <2> QED
    BY <1>2, <2>2 DEF Silent
<1>3. CASE CrankedOut(bnow)
  <2>1. crank_start # 0 /\ Cranked > CrankMax
    BY <1>3 DEF CrankedOut, Cranked
  <2>2. Cranked \in Nat
    BY <1>1, MinusIs DEF Cranked, Clock
  <2>3. cranked + 1 >= Cranked
    BY <2>1 DEF DeadInv, CrankClock
  <2> QED
    BY <1>1, <2>1, <2>2, <2>3, ConstantsAre
<1> QED
  BY <1>2, <1>3

DropHasReason ==
  start_held /\ ~start_held'
    => \/ silence > HoldTimeout \/ cranked >= CrankMax
       \/ seen \notin {NotYet, bnow}

LEMMA DropStep == DeadInv /\ [HoldNext]_holdVars => [DropHasReason]_holdVars
<1> SUFFICES ASSUME DeadInv, HoldNext, start_held, ~start_held', seen \in {NotYet, bnow}
             PROVE  silence > HoldTimeout \/ cranked >= CrankMax
  BY DEF DropHasReason
<1>1. BoardTick \/ BoardCompares
  BY DEF HoldNext, Press, LetGo, CydSend, CydCommandFrame, HelmSend, Lose, StartHeld,
         BoardReadsClock, HelmReboot, Pass, control
<1>2. Deadman(bnow)
  BY <1>1 DEF BoardTick, BoardCompares
<1>3. Silent(bnow) \/ CrankedOut(bnow)
  BY <1>2 DEF Deadman
<1> QED
  BY <1>3, TickHasReason

-----------------------------------------------------------------------------
(* Theorems.                                                                 *)

\* Whatever the hold time, the crank limit, the delay of the air and the range of the
\* clocks, and wherever the board's clock stands when the HELM is switched on, a starter
\* that turns is held by somebody (or was, within the time frames are under way and held)
\* and stops by itself, as long as no HELM runs for half the range of its clock.
THEOREM StarterIsInHand == ASSUME Half PROVE HoldSpec => []StarterInHand
  BY DeadAlways, InHand, PTL

\* Under the same assumption the board lets go of a held START for a reason: the frames
\* have stopped for HOLD_TIMEOUT_MS, or the crank time is over.
THEOREM DropsForAReason == ASSUME Half PROVE HoldSpec => DroppedForAReason
<1>1. DeadInv /\ [HoldNext]_holdVars => [DropHasReason]_holdVars
  BY DropStep
<1>2. HoldSpec => [][DropHasReason]_holdVars
  BY <1>1, DeadAlways, PTL DEF HoldSpec
<1> QED
  BY <1>2 DEF DroppedForAReason, DropHasReason
=============================================================================
