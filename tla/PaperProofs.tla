---------------------------- MODULE PaperProofs ----------------------------
(***************************************************************************)
(* The paper display, for every server, setting and level of its light:    *)
(* the settings are saved and followed whatever is changed where, and the  *)
(* two sleep modes are in force on the client and on the light.            *)
(***************************************************************************)
EXTENDS PaperSettings, PaperSleep, SequenceTheorems, TLAPS

-----------------------------------------------------------------------------
(* PaperSettings: the types.                                                 *)

AppSet == [server : Pair, box : Pair, idle : FeedIdle, demo : BOOLEAN, noPower : BOOLEAN]
StateSet == [watch : Pair, switch : Switches, demo : BOOLEAN, held : SUBSET {"demo", "server"}]
FeedSet == [at : {"none", "idle", "checked"}, stop : BOOLEAN, lock : Changers \union {"free"}]
StepNames == {"boxes", "watch", "save", "server", "choice", "switch", "reread", "demo",
              "reconnect", "read", "rest", "leave", "set"}
DemoSteps == {"reread", "read", "demo", "rest", "leave"}

\* What a thread may have before it. Whoever notes a setting is then to hand it on; one
\* change asks for the demo's feed once at most; and a request ends its waking with "set".
Plans == {p \in Seq(StepNames) : \A i \in 1..Len(p) :
            /\ p[i] = "boxes" => i < Len(p) /\ p[i + 1] = "watch"
            /\ p[i] = "choice" => i < Len(p) /\ p[i + 1] = "switch"
            /\ p[i] = "reread" => i < Len(p) /\ p[i + 1] = "demo"
            /\ p[i] = "read" => i < Len(p) /\ p[i + 1] \in {"demo", "rest"}
            /\ p[i] \in DemoSteps => \A j \in i + 1 .. Len(p) : p[j] \in DemoSteps =>
                                      j = i + 1 /\ p[i] \in {"reread", "read"}
            /\ p[i] = "set" => i = Len(p)}

ChangeSet == [todo : Plans, field : Fields, want : AppSet, copy : Saved, on : BOOLEAN]

SettingsTyped ==
  /\ app \in AppSet /\ file \in Saved /\ url \in Pair
  /\ state \in StateSet /\ feed \in FeedSet
  /\ msg \in {"none", "passed"} /\ mixed \in BOOLEAN
  /\ change \in [Changers -> ChangeSet]
  /\ lastSave \in [copy : Saved, failed : BOOLEAN]
  /\ file = lastSave.copy \/ lastSave.failed

\* The invariant of the types gives the ones the run checks.
LEMMA TypedIsTypeOK == SettingsTyped => SettingsTypeOK
  BY DEF SettingsTyped, SettingsTypeOK, AppSet, StateSet, FeedSet

\* The settings of a first start, and a thread with nothing before it.
LEMMA FreshTyped == Fresh \in AppSet /\ Part(Fresh) \in Saved /\ Nothing \in ChangeSet
                    /\ Nothing.todo = <<>>
<1>1. Fresh \in AppSet
  BY DEF Fresh, AppSet, FeedIdle, Pair
<1>2. Part(Fresh) \in Saved
  BY DEF Fresh, Part, Saved, FeedIdle, Pair
<1>3. <<>> \in Plans
  BY DEF Plans
<1>4. Nothing \in ChangeSet
  BY <1>1, <1>2, <1>3 DEF Nothing, ChangeSet, Fields
<1> QED
  BY <1>1, <1>2, <1>4 DEF Nothing

\* What is saved of the settings is what a file may hold.
LEMMA SavedPartTyped == \A a \in AppSet : Part(a) \in Saved
  BY DEF Part, AppSet, Saved

\* Every choice of an idle feed names a switch.
LEMMA SwitchTyped == \A i \in FeedIdle : SwitchOf(i) \in Switches
  BY DEF SwitchOf, FeedIdle, Switches

\* What a change of a setting may set it to.
ValueOf(field) == CASE field = "idle" -> FeedIdle [] field = "demo" -> BOOLEAN [] OTHER -> Pair

\* A setting changed to a value of its own leaves settings.
LEMMA ChangedTyped ==
  ASSUME app \in AppSet, NEW field \in Fields, NEW v \in ValueOf(field)
  PROVE  Changed(field, v) \in AppSet
<1>1. CASE field = "idle"
  <2>1. v \in FeedIdle
    BY <1>1 DEF ValueOf
  <2> QED
    BY <1>1, <2>1 DEF Changed, AppSet
<1>2. CASE field = "demo"
  <2>1. v \in BOOLEAN
    BY <1>2 DEF ValueOf
  <2> QED
    BY <1>2, <2>1 DEF Changed, AppSet
<1>3. CASE field = "server"
  <2>1. v \in Pair
    BY <1>3 DEF ValueOf
  <2> QED
    BY <1>3, <2>1 DEF Changed, AppSet
<1>4. CASE field = "box"
  <2>1. v \in Pair
    BY <1>4 DEF ValueOf
  <2> QED
    BY <1>4, <2>1 DEF Changed, AppSet
<1> QED
  BY <1>1, <1>2, <1>3, <1>4 DEF Fields

\* So does a first start but for one setting.
LEMMA WantTyped ==
  ASSUME NEW field \in Fields, NEW v \in ValueOf(field)
  PROVE  [Fresh EXCEPT ![field] = v] \in AppSet /\ [Fresh EXCEPT ![field] = v][field] = v
<1>1. CASE field = "idle"
  <2>1. v \in FeedIdle
    BY <1>1 DEF ValueOf
  <2> QED
    BY <1>1, <2>1, FreshTyped DEF AppSet
<1>2. CASE field = "demo"
  <2>1. v \in BOOLEAN
    BY <1>2 DEF ValueOf
  <2> QED
    BY <1>2, <2>1, FreshTyped DEF AppSet
<1>3. CASE field = "server"
  <2>1. v \in Pair
    BY <1>3 DEF ValueOf
  <2> QED
    BY <1>3, <2>1, FreshTyped DEF AppSet
<1>4. CASE field = "box"
  <2>1. v \in Pair
    BY <1>4 DEF ValueOf
  <2> QED
    BY <1>4, <2>1, FreshTyped DEF AppSet
<1> QED
  BY <1>1, <1>2, <1>3, <1>4 DEF Fields

\* What follows a change by hand is one of the plans, and not empty.
LEMMA PlansTyped ==
  ASSUME NEW t \in {"touch", "web"}, NEW field \in Fields
  PROVE  After(t, field) \in Plans /\ After(t, field) # <<>>
<1> USE DEF StepNames, Plans, DemoSteps
<1>1. CASE t = "touch" /\ field = "box"    BY <1>1 DEF After
<1>2. CASE t = "touch" /\ field = "server" BY <1>2 DEF After
<1>3. CASE t = "touch" /\ field = "idle"   BY <1>3 DEF After
<1>4. CASE t = "touch" /\ field = "demo"   BY <1>4 DEF After
<1>5. CASE t = "web" /\ field = "box"      BY <1>5 DEF After
<1>6. CASE t = "web" /\ field = "server"   BY <1>6 DEF After
<1>7. CASE t = "web" /\ field = "idle"     BY <1>7 DEF After
<1>8. CASE t = "web" /\ field = "demo"     BY <1>8 DEF After
<1> QED
  BY <1>1, <1>2, <1>3, <1>4, <1>5, <1>6, <1>7, <1>8 DEF Fields

\* The steps of a tap that wakes and then sets, one by one.
LEMMA WakeAndSet ==
  LET w == WakeSteps \o <<"set">> IN
  w \in Seq(StepNames) /\ Len(w) = 3 /\ w[1] = "read" /\ w[2] = "demo" /\ w[3] = "set"
<1>1. WakeSteps \in Seq(StepNames) /\ Len(WakeSteps) = 2
      /\ WakeSteps[1] = "read" /\ WakeSteps[2] = "demo"
  BY DEF WakeSteps, StepNames
<1>2. <<"set">> \in Seq(StepNames)
  BY DEF StepNames
<1> QED
  BY <1>1, <1>2, ConcatProperties DEF StepNames

\* The short plans are plans.
LEMMA WakeTyped == WakeSteps \in Plans /\ WakeSteps \o <<"set">> \in Plans
                   /\ <<>> \o <<"set">> \in Plans /\ <<"read", "rest">> \in Plans
                   /\ <<"save">> \in Plans /\ <<>> \in Plans
<1> USE DEF StepNames, Plans, DemoSteps
<1>1. WakeSteps \in Plans
  BY DEF WakeSteps
<1>2. <<"set">> \in Seq(StepNames) /\ <<"set">> \in Plans
  OBVIOUS
<1>3. <<>> \o <<"set">> \in Plans
  <2>1. <<>> \o <<"set">> = <<"set">>
    BY ConcatProperties
  <2> QED
    BY <1>2, <2>1
<1>4. <<"read", "rest">> \in Plans
  OBVIOUS
<1>5. WakeSteps \o <<"set">> \in Plans
  <2> DEFINE w == WakeSteps \o <<"set">>
  <2>2. w \in Seq(StepNames) /\ Len(w) = 3 /\ w[1] = "read" /\ w[2] = "demo" /\ w[3] = "set"
    BY WakeAndSet
  <2> HIDE DEF w
  <2>3. \A i \in 1..Len(w) : i = 1 \/ i = 2 \/ i = 3
    BY <2>2
  <2>4. \A i \in 1..Len(w) : w[i] \in DemoSteps => i = 1 \/ i = 2
    BY <2>2, <2>3
  <2>5. \A i \in 1..Len(w) :
            /\ w[i] = "boxes" => i < Len(w) /\ w[i + 1] = "watch"
            /\ w[i] = "choice" => i < Len(w) /\ w[i + 1] = "switch"
            /\ w[i] = "reread" => i < Len(w) /\ w[i + 1] = "demo"
            /\ w[i] = "read" => i < Len(w) /\ w[i + 1] \in {"demo", "rest"}
            /\ w[i] = "set" => i = Len(w)
    BY <2>2, <2>3
  <2>6. ASSUME NEW i \in 1..Len(w), w[i] \in DemoSteps, NEW j \in i + 1 .. Len(w), w[j] \in DemoSteps
        PROVE  j = i + 1 /\ w[i] \in {"reread", "read"}
    <3>1. j \in 1..Len(w) /\ j > i
      BY <2>2, <2>6
    <3>2. i = 1 /\ j = 2
      BY <2>4, <2>6, <3>1
    <3> QED
      BY <2>2, <3>2
  <2>7. w \in Plans
    BY <2>2, <2>5, <2>6
  <2> QED
    BY <2>7 DEF w
<1>6. <<"save">> \in Plans /\ <<>> \in Plans
  OBVIOUS
<1> QED
  BY <1>1, <1>3, <1>4, <1>5, <1>6

\* What is before a thread once it has done the first of it.
LEMMA TailIsPlan ==
  ASSUME NEW p \in Plans, p # <<>>
  PROVE  /\ Tail(p) \in Plans /\ Head(p) = p[1] /\ Head(p) \in StepNames
         /\ Len(Tail(p)) = Len(p) - 1 /\ \A i \in 1..Len(Tail(p)) : Tail(p)[i] = p[i + 1]
<1>1. p \in Seq(StepNames) /\ Len(p) \in Nat /\ Len(p) > 0
  BY DEF Plans
<1> DEFINE q == Tail(p)
<1>2. q \in Seq(StepNames) /\ Len(q) = Len(p) - 1 /\ \A i \in 1..Len(q) : q[i] = p[i + 1]
  BY <1>1, HeadTailProperties
<1>3. ASSUME NEW i \in 1..Len(q)
      PROVE  /\ q[i] = "boxes" => i < Len(q) /\ q[i + 1] = "watch"
             /\ q[i] = "choice" => i < Len(q) /\ q[i + 1] = "switch"
             /\ q[i] = "reread" => i < Len(q) /\ q[i + 1] = "demo"
             /\ q[i] = "read" => i < Len(q) /\ q[i + 1] \in {"demo", "rest"}
             /\ q[i] \in DemoSteps => \A j \in i + 1 .. Len(q) : q[j] \in DemoSteps =>
                                       j = i + 1 /\ q[i] \in {"reread", "read"}
             /\ q[i] = "set" => i = Len(q)
  <2>0. Len(q) \in Nat /\ i \in Nat /\ i + 1 \in 1..Len(p) /\ q[i] = p[i + 1]
    BY <1>1, <1>2
  <2> HIDE DEF q
  <2>1. ASSUME i < Len(q) PROVE q[i + 1] = p[i + 2]
    BY <1>2, <2>0, <2>1
  <2>2. ASSUME NEW j \in i + 1 .. Len(q)
        PROVE  j + 1 \in (i + 1) + 1 .. Len(p) /\ q[j] = p[j + 1]
    BY <1>1, <1>2, <2>0
  <2>3. p[i + 1] \in DemoSteps => \A j \in (i + 1) + 1 .. Len(p) : p[j] \in DemoSteps =>
                                       j = (i + 1) + 1 /\ p[i + 1] \in {"reread", "read"}
    BY <2>0 DEF Plans
  <2>4. q[i] \in DemoSteps => \A j \in i + 1 .. Len(q) : q[j] \in DemoSteps =>
                                       j = i + 1 /\ q[i] \in {"reread", "read"}
    <3>1. ASSUME q[i] \in DemoSteps, NEW j \in i + 1 .. Len(q), q[j] \in DemoSteps
          PROVE  j = i + 1 /\ q[i] \in {"reread", "read"}
      <4>1. j + 1 \in (i + 1) + 1 .. Len(p) /\ p[j + 1] \in DemoSteps /\ p[i + 1] \in DemoSteps
        BY <2>0, <2>2, <3>1
      <4>2. j + 1 = (i + 1) + 1 /\ p[i + 1] \in {"reread", "read"}
        BY <2>3, <4>1
      <4> QED
        BY <2>0, <4>2
    <3> QED
      BY <3>1
  <2>5. /\ p[i + 1] = "boxes" => i + 1 < Len(p) /\ p[i + 2] = "watch"
        /\ p[i + 1] = "choice" => i + 1 < Len(p) /\ p[i + 2] = "switch"
        /\ p[i + 1] = "reread" => i + 1 < Len(p) /\ p[i + 2] = "demo"
        /\ p[i + 1] = "read" => i + 1 < Len(p) /\ p[i + 2] \in {"demo", "rest"}
        /\ p[i + 1] = "set" => i + 1 = Len(p)
    BY <2>0 DEF Plans
  <2> QED
    BY <1>1, <1>2, <2>0, <2>1, <2>4, <2>5
<1>4. q \in Plans
  BY <1>2, <1>3 DEF Plans
<1> QED
  BY <1>1, <1>2, <1>4, HeadTailProperties

\* Turning the demo off, a thread has its mode still to leave.
LEMMA LeaveIsPlan ==
  ASSUME NEW p \in Plans, p # <<>>, Head(p) \in {"demo", "rest"}
  PROVE  <<"leave">> \o Tail(p) \in Plans
<1> DEFINE r == <<"leave">> \o Tail(p)
<1>1. p \in Seq(StepNames) /\ Len(p) \in Nat /\ Len(p) > 0 /\ p[1] \in {"demo", "rest"}
  BY TailIsPlan DEF Plans
<1>2. Tail(p) \in Seq(StepNames) /\ Len(Tail(p)) = Len(p) - 1
      /\ \A i \in 1..Len(Tail(p)) : Tail(p)[i] = p[i + 1]
  BY TailIsPlan DEF Plans
<1>3. <<"leave">> \in Seq(StepNames) /\ Len(<<"leave">>) = 1 /\ <<"leave">>[1] = "leave"
  BY DEF StepNames
<1>4. r \in Seq(StepNames) /\ Len(r) = Len(p) /\ r[1] = "leave"
      /\ \A i \in 2..Len(p) : r[i] = p[i]
  <2>1. r \in Seq(StepNames) /\ Len(r) = Len(p)
    BY <1>1, <1>2, <1>3, ConcatProperties
  <2>2. r[1] = "leave"
    BY <1>1, <1>2, <1>3, ConcatProperties
  <2>3. ASSUME NEW i \in 2..Len(p) PROVE r[i] = p[i]
    <3>1. i - 1 \in 1..Len(Tail(p)) /\ (i - 1) + 1 = i
      BY <1>1, <1>2
    <3>2. r[i] = Tail(p)[i - 1]
      BY <1>1, <1>2, <1>3, <2>3, <3>1, ConcatProperties
    <3> QED
      BY <1>2, <3>1, <3>2
  <2> QED
    BY <2>1, <2>2, <2>3
<1> HIDE DEF r
<1>5. \A i \in 1..Len(p) : i = 1 \/ (i \in 2..Len(p) /\ r[i] = p[i])
  BY <1>1, <1>4
<1>6. p[1] \in DemoSteps /\ \A j \in 2..Len(p) : p[j] \notin DemoSteps
  BY <1>1 DEF Plans, DemoSteps
<1>7. \A i \in 1..Len(r) :
        /\ r[i] = "boxes" => i < Len(r) /\ r[i + 1] = "watch"
        /\ r[i] = "choice" => i < Len(r) /\ r[i + 1] = "switch"
        /\ r[i] = "reread" => i < Len(r) /\ r[i + 1] = "demo"
        /\ r[i] = "read" => i < Len(r) /\ r[i + 1] \in {"demo", "rest"}
        /\ r[i] = "set" => i = Len(r)
  <2>1. ASSUME NEW i \in 2..Len(p)
        PROVE  /\ p[i] = "boxes" => i < Len(p) /\ p[i + 1] = "watch"
               /\ p[i] = "choice" => i < Len(p) /\ p[i + 1] = "switch"
               /\ p[i] # "reread" /\ p[i] # "read"
               /\ p[i] = "set" => i = Len(p)
               /\ i < Len(p) => r[i + 1] = p[i + 1]
    BY <1>1, <1>4, <1>6, <2>1 DEF Plans, DemoSteps
  <2> QED
    BY <1>1, <1>4, <1>5, <2>1
<1>8. ASSUME NEW i \in 1..Len(r), r[i] \in DemoSteps, NEW j \in i + 1 .. Len(r), r[j] \in DemoSteps
      PROVE  FALSE
  <2>1. j \in 2..Len(p)
    BY <1>1, <1>4, <1>8
  <2> QED
    BY <1>4, <1>6, <1>8, <2>1
<1>9. r \in Plans
  BY <1>4, <1>7, <1>8 DEF Plans
<1> QED
  BY <1>9 DEF r

-----------------------------------------------------------------------------
(* A thread goes on with its change.                                         *)

\* A step of one thread gives it a new record and leaves the others'.
LEMMA OneChange ==
  ASSUME change \in [Changers -> ChangeSet], NEW t \in Changers, NEW r \in ChangeSet,
         change' = [change EXCEPT ![t] = r]
  PROVE  /\ change' \in [Changers -> ChangeSet] /\ change'[t] = r
         /\ \A u \in Changers \ {t} : change'[u] = change[u]
  OBVIOUS

\* A record with another plan is a record.
LEMMA TodoTyped ==
  ASSUME NEW c \in ChangeSet, NEW s \in Plans
  PROVE  [c EXCEPT !.todo = s] \in ChangeSet
  BY DEF ChangeSet

\* What Left writes.
LEMMA LeftTyped ==
  ASSUME change \in [Changers -> ChangeSet], NEW t \in Changers, NEW rest \in Plans,
         Left(t, rest)
  PROVE  /\ change' \in [Changers -> ChangeSet]
         /\ change'[t] = IF rest = <<>> THEN Nothing ELSE [change[t] EXCEPT !.todo = rest]
         /\ \A u \in Changers \ {t} : change'[u] = change[u]
<1> DEFINE r == IF rest = <<>> THEN Nothing ELSE [change[t] EXCEPT !.todo = rest]
<1>1. r \in ChangeSet
  BY TodoTyped, FreshTyped
<1>2. change' = [change EXCEPT ![t] = r]
  BY DEF Left
<1> HIDE DEF r
<1>3. change' \in [Changers -> ChangeSet] /\ change'[t] = r
      /\ \A u \in Changers \ {t} : change'[u] = change[u]
  BY <1>1, <1>2, OneChange
<1> QED
  BY <1>3 DEF r

\* What a thread that has a step before it may count on.
LEMMA DueTyped ==
  ASSUME change \in [Changers -> ChangeSet], NEW t \in Changers, change[t].todo # <<>>
  PROVE  /\ change[t] \in ChangeSet /\ change[t].todo \in Plans
         /\ Tail(change[t].todo) \in Plans
<1>1. change[t] \in ChangeSet /\ change[t].todo \in Plans
  BY DEF ChangeSet
<1> QED
  BY <1>1, TailIsPlan

\* A step that is done leaves a plan.
LEMMA StepDoneTyped ==
  ASSUME change \in [Changers -> ChangeSet], NEW t \in Changers, change[t].todo # <<>>,
         StepDone(t)
  PROVE  change' \in [Changers -> ChangeSet]
  BY DueTyped, LeftTyped DEF StepDone

-----------------------------------------------------------------------------
(* The types, action by action.                                              *)

\* What begins a change.
LEMMA BeginTyped ==
  ASSUME SettingsTyped, NEW t \in Changers, NEW r \in ChangeSet, Begins(t, r),
         app' \in AppSet, Others
  PROVE  SettingsTyped'
<1>1. change' \in [Changers -> ChangeSet]
  BY OneChange DEF SettingsTyped, Begins
<1>2. mixed' \in BOOLEAN
  BY Zenon DEF Begins, NoChange
<1>3. UNCHANGED <<file, url, state, feed, msg, lastSave>>
  BY DEF Others
<1> QED
  BY <1>1, <1>2, <1>3 DEF SettingsTyped

\* No-power mode is set or cleared under the lock.
LEMMA AwakeTyped ==
  ASSUME app \in AppSet, NEW b \in BOOLEAN
  PROVE  [app EXCEPT !.noPower = b] \in AppSet
  BY DEF AppSet

\* What a thread may change is a setting.
LEMMA MayTyped ==
  ASSUME NEW t \in Changers
  PROVE  MayChange(t) \subseteq Fields
  BY OverlapAssumption DEF MayChange

\* A tap on the settings page.
LEMMA TapStep ==
  ASSUME SettingsTyped, HandleSettingsTap
  PROVE  SettingsTyped'
<1>1. PICK field \in MayChange("touch") :
        \E v \in CASE field = "idle" -> {[app.idle EXCEPT !.on = ~@]}
                   [] field = "demo" -> {~app.demo}
                   [] OTHER -> Pair :
          /\ app' = Changed(field, v)
          /\ Begins("touch", [Nothing EXCEPT !.todo = After("touch", field), !.field = field,
                                              !.copy = Part(app')])
  BY DEF HandleSettingsTap
<1>2. "touch" \in Changers /\ field \in Fields
  BY <1>1, MayTyped DEF Changers
<1>3. PICK v \in CASE field = "idle" -> {[app.idle EXCEPT !.on = ~@]}
                   [] field = "demo" -> {~app.demo}
                   [] OTHER -> Pair :
          /\ app' = Changed(field, v)
          /\ Begins("touch", [Nothing EXCEPT !.todo = After("touch", field), !.field = field,
                                              !.copy = Part(app')])
  BY <1>1
<1>4. v \in ValueOf(field)
  <2>1. app.idle \in FeedIdle /\ app.demo \in BOOLEAN
    BY DEF SettingsTyped, AppSet
  <2>2. [app.idle EXCEPT !.on = ~@] \in FeedIdle
    BY <2>1 DEF FeedIdle
  <2>3. (~app.demo) \in BOOLEAN
    OBVIOUS
  <2> QED
    BY <1>2, <1>3, <2>2, <2>3 DEF ValueOf, Fields
<1>5. app' \in AppSet
  BY <1>2, <1>3, <1>4, ChangedTyped DEF SettingsTyped
<1>6. Part(app') \in Saved
  BY <1>5, SavedPartTyped
<1>7. [Nothing EXCEPT !.todo = After("touch", field), !.field = field, !.copy = Part(app')] \in ChangeSet
  BY <1>2, <1>6, PlansTyped, FreshTyped DEF ChangeSet
<1>8. Others
  BY DEF HandleSettingsTap
<1> QED
  BY <1>2, <1>3, <1>5, <1>7, <1>8, BeginTyped

\* A change from the web page.
LEMMA ControlStep ==
  ASSUME SettingsTyped, Control
  PROVE  SettingsTyped'
<1>1. PICK field \in MayChange("web") :
        \E v \in CASE field = "idle" -> {i \in FeedIdle : i.on = app.idle.on \/ i.path = app.idle.path}
                   [] field = "demo" -> BOOLEAN
                   [] OTHER -> Pair :
          Begins("web", [Nothing EXCEPT !.todo = (IF Wakes THEN WakeSteps ELSE <<>>) \o <<"set">>,
                                        !.field = field, !.want = [Fresh EXCEPT ![field] = v]])
  BY DEF Control
<1>2. "web" \in Changers /\ field \in Fields
  BY <1>1, MayTyped DEF Changers
<1>3. PICK v \in CASE field = "idle" -> {i \in FeedIdle : i.on = app.idle.on \/ i.path = app.idle.path}
                   [] field = "demo" -> BOOLEAN
                   [] OTHER -> Pair :
          Begins("web", [Nothing EXCEPT !.todo = (IF Wakes THEN WakeSteps ELSE <<>>) \o <<"set">>,
                                        !.field = field, !.want = [Fresh EXCEPT ![field] = v]])
  BY <1>1
<1>4. v \in ValueOf(field)
  BY <1>2, <1>3 DEF ValueOf, Fields
<1>5. app' \in AppSet
  BY AwakeTyped DEF SettingsTyped, Control
<1>6. [Fresh EXCEPT ![field] = v] \in AppSet
  BY <1>2, <1>4, WantTyped
<1>7. (IF Wakes THEN WakeSteps ELSE <<>>) \o <<"set">> \in Plans
  BY WakeTyped
<1>8. [Nothing EXCEPT !.todo = (IF Wakes THEN WakeSteps ELSE <<>>) \o <<"set">>,
                      !.field = field, !.want = [Fresh EXCEPT ![field] = v]] \in ChangeSet
  BY <1>2, <1>6, <1>7, FreshTyped DEF ChangeSet
<1>9. Others
  BY DEF Control
<1> QED
  BY <1>2, <1>3, <1>5, <1>8, <1>9, BeginTyped

\* A tap that wakes, and no-power mode.
LEMMA WakeStep ==
  ASSUME SettingsTyped, WakingTap \/ EnterNoPower \/ ExitNoPower
  PROVE  SettingsTyped'
<1>1. [Nothing EXCEPT !.todo = WakeSteps] \in ChangeSet
      /\ [Nothing EXCEPT !.todo = <<"read", "rest">>] \in ChangeSet
  BY WakeTyped, FreshTyped, TodoTyped
<1>2. "touch" \in Changers /\ "loop" \in Changers
  BY DEF Changers
<1>3. app' \in AppSet /\ Others
  BY AwakeTyped DEF SettingsTyped, WakingTap, EnterNoPower, ExitNoPower
<1> QED
  BY <1>1, <1>2, <1>3, BeginTyped DEF WakingTap, EnterNoPower, ExitNoPower

\* What goes on with one.
LEMMA SetFieldStep ==
  ASSUME SettingsTyped, SetField
  PROVE  SettingsTyped'
<1> DEFINE c == change["web"]
           v == c.want[c.field]
           plan == CASE c.field = "server" /\ app.server = v -> <<"save">>
                     [] c.field = "demo" /\ app.demo = v -> <<>>
                     [] OTHER -> After("web", c.field)
<1>1. "web" \in Changers /\ c \in ChangeSet /\ c.field \in Fields /\ c.want \in AppSet
  BY DEF SettingsTyped, ChangeSet, Changers
<1>2. v \in ValueOf(c.field)
  BY <1>1 DEF ValueOf, Fields, AppSet
<1>3. app' = Changed(c.field, v)
  BY DEF SetField
<1>4. app' \in AppSet
  BY <1>1, <1>2, <1>3, ChangedTyped DEF SettingsTyped
<1>5. Part(app') \in Saved /\ app'.demo \in BOOLEAN
  BY <1>4, SavedPartTyped DEF AppSet
<1>6. plan \in Plans
  BY <1>1, PlansTyped, WakeTyped
<1>7. change' = [change EXCEPT !["web"].copy = Part(app'), !["web"].on = app'.demo,
                               !["web"].todo = plan]
  BY DEF SetField
<1> HIDE DEF plan
<1>8. change' \in [Changers -> ChangeSet]
  <2>1. [c EXCEPT !.copy = Part(app'), !.on = app'.demo, !.todo = plan] \in ChangeSet
    BY <1>1, <1>5, <1>6 DEF ChangeSet
  <2> QED
    BY <1>1, <1>7, <2>1 DEF SettingsTyped
<1>9. UNCHANGED <<file, url, state, feed, msg, mixed, lastSave>>
  BY DEF SetField
<1> QED
  BY <1>4, <1>8, <1>9 DEF SettingsTyped

\* What the steps write to the State.
LEMMA StateTyped ==
  ASSUME state \in StateSet
  PROVE  /\ \A p \in Pair : [state EXCEPT !.watch = p] \in StateSet
         /\ \A w \in Switches : [state EXCEPT !.switch = w] \in StateSet
         /\ [state EXCEPT !.held = {}] \in StateSet
         /\ [state EXCEPT !.held = @ \union {"demo"}] \in StateSet
         /\ [state EXCEPT !.held = @ \union {"server"}] \in StateSet
         /\ \A b \in BOOLEAN : [state EXCEPT !.demo = b, !.held = {}] \in StateSet
  BY DEF StateSet

\* What the steps write to the demo's feed.
LEMMA FeedTyped ==
  ASSUME feed \in FeedSet
  PROVE  /\ \A a \in {"none", "idle", "checked"} : [feed EXCEPT !.at = a] \in FeedSet
         /\ \A t \in Changers : [feed EXCEPT !.stop = TRUE, !.lock = t] \in FeedSet
         /\ [feed EXCEPT !.stop = FALSE, !.lock = "free"] \in FeedSet
  BY DEF FeedSet

\* The file and the client.
LEMMA SavingStep ==
  ASSUME SettingsTyped, NEW t \in Changers, change[t].todo # <<>>,
         Save(t) \/ SetServer(t) \/ Reconnect(t)
  PROVE  SettingsTyped'
<1>1. change' \in [Changers -> ChangeSet]
  BY StepDoneTyped DEF SettingsTyped, Save, SetServer, Reconnect
<1>2. change[t].copy \in Saved /\ change[t].copy.server \in Pair
  BY DEF SettingsTyped, ChangeSet, Saved
<1>3. state \in StateSet
  BY DEF SettingsTyped
<1>4. [state EXCEPT !.held = {}] \in StateSet
  BY <1>3, StateTyped
<1>5. CASE Save(t)
  BY <1>1, <1>2, <1>5 DEF Save, SettingsTyped
<1>6. CASE SetServer(t)
  BY <1>1, <1>2, <1>4, <1>6 DEF SetServer, SettingsTyped
<1>7. CASE Reconnect(t)
  <2>1. state' \in StateSet
    BY <1>3, <1>4, <1>7 DEF Reconnect
  <2> QED
    BY <1>1, <1>7, <2>1 DEF Reconnect, SettingsTyped
<1> QED
  BY <1>5, <1>6, <1>7

\* What a thread notes of the settings while it goes on.
LEMMA NotesTyped ==
  ASSUME SettingsTyped, NEW t \in Changers, change[t].todo # <<>>,
         NEW rest \in Plans
  PROVE  /\ [change EXCEPT ![t].todo = rest, ![t].want.box = app.box] \in [Changers -> ChangeSet]
         /\ [change EXCEPT ![t].todo = rest, ![t].want.idle = app.idle] \in [Changers -> ChangeSet]
         /\ [change EXCEPT ![t].todo = rest, ![t].on = app.demo] \in [Changers -> ChangeSet]
         /\ [change EXCEPT ![t].todo = rest] \in [Changers -> ChangeSet]
         /\ \A b \in BOOLEAN :
              [change EXCEPT ![t].todo = rest, ![t].on = b] \in [Changers -> ChangeSet]
<1> DEFINE c == change[t]
<1>1. c \in ChangeSet /\ c.want \in AppSet /\ app \in AppSet
      /\ app.box \in Pair /\ app.idle \in FeedIdle /\ app.demo \in BOOLEAN
      /\ change \in [Changers -> ChangeSet]
  BY DEF SettingsTyped, ChangeSet, AppSet
<1>2. [c.want EXCEPT !.box = app.box] \in AppSet /\ [c.want EXCEPT !.idle = app.idle] \in AppSet
  BY <1>1 DEF AppSet
<1>3. /\ [c EXCEPT !.todo = rest, !.want.box = app.box] \in ChangeSet
      /\ [c EXCEPT !.todo = rest, !.want.idle = app.idle] \in ChangeSet
      /\ \A b \in BOOLEAN : [c EXCEPT !.todo = rest, !.on = b] \in ChangeSet
      /\ [c EXCEPT !.todo = rest] \in ChangeSet
  BY <1>1, <1>2 DEF ChangeSet
<1>4. [change EXCEPT ![t].todo = rest, ![t].want.box = app.box] \in [Changers -> ChangeSet]
  BY <1>1, <1>3
<1>5. [change EXCEPT ![t].todo = rest, ![t].want.idle = app.idle] \in [Changers -> ChangeSet]
  BY <1>1, <1>3
<1>6. \A b \in BOOLEAN : [change EXCEPT ![t].todo = rest, ![t].on = b] \in [Changers -> ChangeSet]
  BY <1>1, <1>3
<1>7. [change EXCEPT ![t].todo = rest] \in [Changers -> ChangeSet]
  BY <1>1, <1>3
<1> QED
  BY <1>1, <1>4, <1>5, <1>6, <1>7

\* Every step keeps what is noted in a watch true to it.
LEMMA WatchStep ==
  ASSUME SettingsTyped, NEW t \in Changers, change[t].todo # <<>>,
         SyncWatch(t) \/ ApplyIdle(t)
  PROVE  SettingsTyped'
<1> DEFINE rest == Tail(change[t].todo)
<1>1. rest \in Plans
  BY DueTyped DEF SettingsTyped
<1>2. change[t] \in ChangeSet /\ change[t].want \in AppSet
      /\ change[t].want.box \in Pair /\ change[t].want.idle \in FeedIdle
      /\ state \in StateSet
  BY DEF SettingsTyped, ChangeSet, AppSet
<1>3. CASE change' = [change EXCEPT ![t].todo = rest, ![t].want.box = app.box]
           /\ UNCHANGED <<app, file, url, state, feed, msg, mixed, lastSave>>
  BY <1>1, <1>3, NotesTyped DEF SettingsTyped
<1>4. CASE change' = [change EXCEPT ![t].todo = rest, ![t].want.idle = app.idle]
           /\ UNCHANGED <<app, file, url, state, feed, msg, mixed, lastSave>>
  BY <1>1, <1>4, NotesTyped DEF SettingsTyped
<1>5. CASE state' = [state EXCEPT !.watch = change[t].want.box] /\ StepDone(t)
           /\ UNCHANGED <<app, file, url, feed, msg, mixed, lastSave>>
  <2>1. change' \in [Changers -> ChangeSet]
    BY <1>5, StepDoneTyped DEF SettingsTyped
  <2>2. state' \in StateSet
    BY <1>2, <1>5, StateTyped
  <2> QED
    BY <1>5, <2>1, <2>2 DEF SettingsTyped
<1>6. CASE state' = [state EXCEPT !.switch = SwitchOf(change[t].want.idle)] /\ StepDone(t)
           /\ UNCHANGED <<app, file, url, feed, msg, mixed, lastSave>>
  <2>1. change' \in [Changers -> ChangeSet]
    BY <1>6, StepDoneTyped DEF SettingsTyped
  <2>2. state' \in StateSet
    BY <1>2, <1>6, StateTyped, SwitchTyped
  <2> QED
    BY <1>6, <2>1, <2>2 DEF SettingsTyped
<1>7. (/\ change' = [change EXCEPT ![t].todo = rest, ![t].want.box = app.box]
       /\ UNCHANGED <<app, file, url, state, feed, msg, mixed, lastSave>>)
      \/ (/\ change' = [change EXCEPT ![t].todo = rest, ![t].want.idle = app.idle]
          /\ UNCHANGED <<app, file, url, state, feed, msg, mixed, lastSave>>)
      \/ (/\ state' = [state EXCEPT !.watch = change[t].want.box] /\ StepDone(t)
          /\ UNCHANGED <<app, file, url, feed, msg, mixed, lastSave>>)
      \/ (/\ state' = [state EXCEPT !.switch = SwitchOf(change[t].want.idle)] /\ StepDone(t)
          /\ UNCHANGED <<app, file, url, feed, msg, mixed, lastSave>>)
  BY Zenon DEF SyncWatch, ApplyIdle
<1> QED
  BY <1>3, <1>4, <1>5, <1>6, <1>7

\* The look at the demo setting.
LEMMA DemoTyped ==
  ASSUME SettingsTyped, NEW t \in Changers, change[t].todo # <<>>, ReadDemo(t)
  PROVE  SettingsTyped'
<1> DEFINE rest == Tail(change[t].todo)
<1>1. rest \in Plans /\ change[t].todo \in Plans
  BY DueTyped DEF SettingsTyped
<1>2. CASE Due(t, "reread")
  <2>2. ~Due(t, "read")
    BY <1>2 DEF Due
  <2>4. change' = [change EXCEPT ![t].todo = rest, ![t].on = app.demo]
    BY <2>2 DEF ReadDemo
  <2>1. change' \in [Changers -> ChangeSet]
    BY <1>1, <2>4, NotesTyped
  <2>3. UNCHANGED <<app, file, url, state, feed, msg, mixed, lastSave>>
    BY DEF ReadDemo
  <2> QED
    BY <2>1, <2>2, <2>3 DEF SettingsTyped
<1>3. CASE Due(t, "read") /\ app.demo
  <2>1. ~Due(t, "reread")
    BY <1>3 DEF Due
  <2>2. (change[t].todo[2] = "demo") \in BOOLEAN
    BY Zenon
  <2>3. change' = [change EXCEPT ![t].todo = rest, ![t].on = change[t].todo[2] = "demo"]
    BY <1>3, <2>1 DEF ReadDemo
  <2>4. change' \in [Changers -> ChangeSet]
    BY <1>1, <2>2, <2>3, NotesTyped
  <2>5. UNCHANGED <<app, file, url, state, feed, msg, mixed, lastSave>>
    BY DEF ReadDemo
  <2> QED
    BY <2>4, <2>5 DEF SettingsTyped
<1>4. CASE Due(t, "read") /\ ~app.demo
  <2>1. ~Due(t, "reread")
    BY <1>4 DEF Due
  <2>2. Left(t, Tail(rest))
    BY <1>4, <2>1 DEF ReadDemo
  <2>3. Tail(rest) \in Plans
    <3>1. Len(change[t].todo) > 1
      BY <1>1, <1>4, TailIsPlan DEF Due, Plans
    <3>3. Len(rest) = Len(change[t].todo) - 1
      BY <1>1, <1>4, TailIsPlan DEF Due
    <3>4. Len(change[t].todo) \in Nat
      BY <1>1 DEF Plans
    <3>2. rest # <<>>
      <4> HIDE DEF rest
      <4> QED
        BY <3>1, <3>3, <3>4
    <3> QED
      BY <1>1, <3>2, TailIsPlan
  <2>4. change' \in [Changers -> ChangeSet]
    BY <2>2, <2>3, LeftTyped DEF SettingsTyped
  <2>5. UNCHANGED <<app, file, url, state, feed, msg, mixed, lastSave>>
    BY DEF ReadDemo
  <2> QED
    BY <2>4, <2>5 DEF SettingsTyped
<1> QED
  BY <1>2, <1>3, <1>4 DEF ReadDemo

\* The demo itself.
LEMMA SetDemoTyped ==
  ASSUME SettingsTyped, NEW t \in Changers, change[t].todo # <<>>,
         SetDemoOn(t) \/ SetDemoOff(t) \/ LeaveDemo(t)
  PROVE  SettingsTyped'
<1> DEFINE q == Tail(change[t].todo)
<1>1. change \in [Changers -> ChangeSet] /\ q \in Plans /\ change[t].todo \in Plans
      /\ state \in StateSet /\ feed \in FeedSet
  BY DueTyped DEF SettingsTyped
<1>2. CASE SetDemoOn(t)
  <2>1. change' \in [Changers -> ChangeSet]
    BY <1>1, <1>2, StepDoneTyped DEF SetDemoOn
  <2>2. state' \in StateSet
    BY <1>1, <1>2, StateTyped DEF SetDemoOn
  <2>3. feed' \in FeedSet
    BY <1>1, <1>2, FeedTyped DEF SetDemoOn
  <2> QED
    BY <1>2, <2>1, <2>2, <2>3 DEF SetDemoOn, SettingsTyped
<1>3. CASE SetDemoOff(t)
  <2>1. UNCHANGED <<app, file, url, state, msg, mixed, lastSave>>
    BY <1>3 DEF SetDemoOff
  <2>2. feed' \in FeedSet
    BY <1>1, <1>3, FeedTyped DEF SetDemoOff
  <2>3. CASE feed.at = "none"
    <3>1. StepDone(t)
      BY <1>3, <2>3 DEF SetDemoOff
    <3>2. change' \in [Changers -> ChangeSet]
      BY <1>1, <3>1, StepDoneTyped
    <3> QED
      BY <2>1, <2>2, <3>2 DEF SettingsTyped
  <2>4. CASE feed.at # "none"
    <3>1. change' = [change EXCEPT ![t].todo = <<"leave">> \o q]
      BY <1>3, <2>4 DEF SetDemoOff
    <3>2. <<"leave">> \o q \in Plans
      BY <1>1, <1>3, LeaveIsPlan DEF SetDemoOff, Due2, Due
    <3>3. change' \in [Changers -> ChangeSet]
      BY <3>1, <3>2, NotesTyped
    <3> QED
      BY <2>1, <2>2, <3>3 DEF SettingsTyped
  <2> QED
    BY <2>3, <2>4
<1>4. CASE LeaveDemo(t)
  <2>1. change' \in [Changers -> ChangeSet]
    BY <1>1, <1>4, StepDoneTyped DEF LeaveDemo
  <2>2. state' \in StateSet
    BY <1>1, <1>4, StateTyped DEF LeaveDemo
  <2>3. feed' \in FeedSet
    BY <1>1, <1>4, FeedTyped DEF LeaveDemo
  <2> QED
    BY <1>4, <2>1, <2>2, <2>3 DEF LeaveDemo, SettingsTyped
<1> QED
  BY <1>2, <1>3, <1>4

\* A restart.
LEMMA BootTyped ==
  ASSUME SettingsTyped, RestartApp
  PROVE  SettingsTyped'
<1>1. file \in Saved /\ file.server \in Pair /\ file.box \in Pair /\ file.idle \in FeedIdle
  BY DEF SettingsTyped, Saved
<1>2. app' \in AppSet
  BY <1>1 DEF RestartApp, Boots, AppSet
<1>3. state' \in StateSet
  BY <1>1, SwitchTyped DEF RestartApp, Boots, StateSet
<1>4. feed' \in FeedSet
  BY DEF RestartApp, Boots, FeedSet
<1>5. change' \in [Changers -> ChangeSet]
  BY FreshTyped DEF RestartApp, Boots
<1> QED
  BY <1>1, <1>2, <1>3, <1>4, <1>5 DEF RestartApp, Boots, SettingsTyped

\* The feed and the server.
LEMMA OutsideTyped ==
  ASSUME SettingsTyped,
         \/ (FeedDemo \/ FeedEnds) /\ UNCHANGED <<app, file, url, msg, change, mixed, lastSave>>
         \/ Handle /\ UNCHANGED <<app, file, url, feed, change, mixed, lastSave>>
  PROVE  SettingsTyped'
<1>1. state \in StateSet /\ feed \in FeedSet
  BY DEF SettingsTyped
<1>2. state' \in StateSet
  BY <1>1, StateTyped DEF FeedDemo, FeedEnds, Handle
<1>3. feed' \in FeedSet
  BY <1>1, FeedTyped DEF FeedDemo, FeedEnds, Handle
<1>4. msg' \in {"none", "passed"}
  BY DEF Handle, SettingsTyped
<1> QED
  BY <1>2, <1>3, <1>4 DEF SettingsTyped

\* Every step keeps the types.
LEMMA SettingsTypeStep ==
  ASSUME SettingsTyped, [SettingsNext]_settingsVars
  PROVE  SettingsTyped'
<1>1. CASE HandleSettingsTap
  BY <1>1, TapStep
<1>2. CASE WakingTap \/ EnterNoPower \/ ExitNoPower
  BY <1>2, WakeStep
<1>3. CASE Control
  BY <1>3, ControlStep
<1>4. CASE SetField
  BY <1>4, SetFieldStep
<1>5. ASSUME NEW t \in Changers, change[t].todo # <<>>, ChangeSteps(t)
      PROVE  SettingsTyped'
  BY <1>5, SavingStep, WatchStep, DemoTyped, SetDemoTyped DEF ChangeSteps
<1>6. CASE \/ (FeedDemo \/ FeedEnds) /\ UNCHANGED <<app, file, url, msg, change, mixed, lastSave>>
           \/ Handle /\ UNCHANGED <<app, file, url, feed, change, mixed, lastSave>>
  BY <1>6, OutsideTyped
<1>7. CASE RestartApp
  BY <1>7, BootTyped
<1>8. CASE UNCHANGED settingsVars
  BY <1>8 DEF SettingsTyped, settingsVars
<1> QED
  BY <1>1, <1>2, <1>3, <1>4, <1>5, <1>6, <1>7, <1>8 DEF SettingsNext

\* They hold at the start.
LEMMA SettingsStartTyped == SettingsInit => SettingsTyped
<1> SUFFICES ASSUME SettingsInit PROVE SettingsTyped
  OBVIOUS
<1>1. state \in StateSet
  BY DEF SettingsInit, StateSet, Pair, Switches
<1>2. feed \in FeedSet
  BY DEF SettingsInit, FeedSet
<1>3. change \in [Changers -> ChangeSet]
  BY FreshTyped DEF SettingsInit
<1> QED
  BY <1>1, <1>2, <1>3, FreshTyped DEF SettingsInit, SettingsTyped, Pair

\* So they hold for ever.
LEMMA SettingsStayTyped == SettingsSpec => []SettingsTyped
<1>1. SettingsTyped /\ [SettingsNext]_settingsVars => SettingsTyped'
  BY SettingsTypeStep
<1> QED
  BY <1>1, SettingsStartTyped, PTL DEF SettingsSpec

\* The settings, the client, the State and the demo keep their types, and every thread's
\* plan is one of the code's, whatever overlaps.
THEOREM SettingsTypeCorrect == SettingsSpec => []SettingsTypeOK
BY SettingsStayTyped, TypedIsTypeOK, PTL

-----------------------------------------------------------------------------
(* DemoNeverLeaks: whenever the feed's goroutine runs the State is in demo   *)
(* mode, so what it made up is gone once the mode is.                        *)

LeakInv == (feed.at # "none" => state.demo) /\ DemoNeverLeaks

\* Every step keeps demo values out of a State that is not in demo mode.
LEMMA LeakStep ==
  ASSUME SettingsTyped, LeakInv, [SettingsNext]_settingsVars
  PROVE  LeakInv'
<1>1. state \in StateSet /\ feed \in FeedSet
  BY DEF SettingsTyped
<1>2. CASE UNCHANGED <<state, feed>>
  BY <1>2 DEF LeakInv, DemoNeverLeaks
<1>3. CASE feed' = feed /\ \/ state' = [state EXCEPT !.held = {}]
                           \/ state' = [state EXCEPT !.held = @ \union {"server"}]
                           \/ \E w : state' = [state EXCEPT !.watch = w]
                           \/ \E w : state' = [state EXCEPT !.switch = w]
  BY <1>1, <1>3 DEF LeakInv, DemoNeverLeaks, StateSet
<1>4. ASSUME NEW t \in Changers, SetDemoOn(t) \/ SetDemoOff(t)
      PROVE  LeakInv'
  BY <1>1, <1>4 DEF SetDemoOn, SetDemoOff, LeakInv, DemoNeverLeaks, StateSet, FeedSet
<1>5. ASSUME NEW t \in Changers, LeaveDemo(t)
      PROVE  LeakInv'
  BY <1>1, <1>5 DEF LeaveDemo, LeakInv, DemoNeverLeaks, StateSet, FeedSet
<1>6. CASE FeedDemo \/ FeedEnds
  BY <1>1, <1>6 DEF FeedDemo, FeedEnds, LeakInv, DemoNeverLeaks, StateSet, FeedSet
<1>7. CASE RestartApp
  BY <1>7 DEF RestartApp, Boots, LeakInv, DemoNeverLeaks
<1>8. ASSUME NEW t \in Changers, SetServer(t) \/ SyncWatch(t) \/ ApplyIdle(t) \/ Reconnect(t)
                                 \/ ReadDemo(t) \/ Save(t)
      PROVE  LeakInv'
  BY <1>2, <1>3, <1>8 DEF SetServer, SyncWatch, ApplyIdle, Reconnect, ReadDemo, Save
<1>9. CASE Handle /\ feed' = feed
  BY <1>2, <1>3, <1>9 DEF Handle
<1>10. CASE HandleSettingsTap \/ WakingTap \/ Control \/ EnterNoPower \/ ExitNoPower \/ SetField
  BY <1>2, <1>10 DEF HandleSettingsTap, WakingTap, Control, EnterNoPower, ExitNoPower, SetField, Others
<1> QED
  BY <1>2, <1>4, <1>5, <1>6, <1>7, <1>8, <1>9, <1>10
  DEF SettingsNext, ChangeSteps, settingsVars

\* However changes, ticks and messages overlap, out of demo mode the State holds nothing the
\* demo made up (signalk/demo.go, Controller.Set and FeedDemo).
THEOREM DemoLeaksNothing == SettingsSpec => []DemoNeverLeaks
<1>1. SettingsInit => LeakInv
  BY DEF SettingsInit, LeakInv, DemoNeverLeaks
<1>2. SettingsTyped /\ LeakInv /\ [SettingsNext]_settingsVars => LeakInv'
  BY LeakStep
<1>3. LeakInv => DemoNeverLeaks
  BY DEF LeakInv
<1> QED
  BY <1>1, <1>2, <1>3, SettingsStayTyped, PTL DEF SettingsSpec

-----------------------------------------------------------------------------
(* SavedIsCurrent: what a change still owes. Until two changes were under    *)
(* way at once, every part that does not follow the settings yet follows    *)
(* from what the one thread at work has before it and with it.               *)

Ahead(p, step) == \E i \in 1..Len(p) : p[i] = step
AheadDemo(p) == \E step \in DemoSteps : Ahead(p, step)
DemoMode(a) == a.demo /\ ~a.noPower

\* c: the thread's change; a: the App's fields; f, u, st, fd: the file, url, state and feed.
OwesFile(c, a, f) == IF Ahead(c.todo, "save") THEN c.copy = Part(a) ELSE f = Part(a)
OwesUrl(c, a, u) == IF Ahead(c.todo, "server") THEN c.copy.server = a.server ELSE u = a.server
OwesWatch(c, a, st) ==
  \/ Ahead(c.todo, "boxes")
  \/ IF Ahead(c.todo, "watch") THEN c.want.box = a.box ELSE st.watch = a.box
OwesSwitch(c, a, st) ==
  \/ Ahead(c.todo, "choice")
  \/ IF Ahead(c.todo, "switch") THEN c.want.idle = a.idle ELSE st.switch = SwitchOf(a.idle)
OwesDemo(c, a, st, fd) ==
  /\ Ahead(c.todo, "reread") \/ Ahead(c.todo, "set") => ~a.noPower
  /\ Ahead(c.todo, "read") => (a.noPower <=> Ahead(c.todo, "rest")) /\ (st.demo => a.demo)
  /\ (Ahead(c.todo, "demo") \/ Ahead(c.todo, "rest"))
     /\ ~Ahead(c.todo, "read") /\ ~Ahead(c.todo, "reread") => (c.on <=> DemoMode(a))
  /\ Ahead(c.todo, "leave") => ~DemoMode(a)
  /\ ~AheadDemo(c.todo) => (st.demo <=> DemoMode(a))
  /\ ~Ahead(c.todo, "leave") => ~fd.stop /\ (st.demo <=> fd.at # "none")

Owed(c, a, f, u, st, fd) ==
  OwesFile(c, a, f) /\ OwesUrl(c, a, u) /\ OwesWatch(c, a, st) /\ OwesSwitch(c, a, st)
  /\ OwesDemo(c, a, st, fd)

Resting(t) == change[t].todo = <<>>

OwedInv ==
  ~mixed =>
    /\ \A t, v \in Changers : ~Resting(t) /\ ~Resting(v) => t = v
    /\ \A t \in Changers : (\A v \in Changers \ {t} : Resting(v)) =>
                             Owed(change[t], app, lastSave.copy, url, state, feed)

\* An empty plan has no step ahead.
LEMMA NoneAhead == \A step : ~Ahead(<<>>, step)
  BY DEF Ahead

\* A plan has its first step ahead, and those of the rest.
LEMMA AheadOnce ==
  ASSUME NEW p \in Plans, p # <<>>
  PROVE  \A step : Ahead(p, step) <=> step = Head(p) \/ Ahead(Tail(p), step)
<1> DEFINE q == Tail(p)
<1>1. Len(q) = Len(p) - 1 /\ Head(p) = p[1] /\ (\A i \in 1..Len(q) : q[i] = p[i + 1])
      /\ Len(p) \in Nat /\ Len(p) > 0
  <2>1. p \in Seq(StepNames)
    BY DEF Plans
  <2> QED
    BY <2>1, TailIsPlan, HeadTailProperties
<1> HIDE DEF q
<1>2. ASSUME NEW step, Ahead(p, step)
      PROVE  step = Head(p) \/ Ahead(q, step)
  <2>1. PICK i \in 1..Len(p) : p[i] = step
    BY <1>2 DEF Ahead
  <2>2. CASE i # 1
    <3>1. i - 1 \in 1..Len(q) /\ (i - 1) + 1 = i
      BY <1>1, <2>1, <2>2
    <3>2. q[i - 1] = step
      BY <1>1, <2>1, <3>1
    <3> QED
      BY <3>1, <3>2 DEF Ahead
  <2> QED
    BY <1>1, <2>1, <2>2
<1>3. ASSUME NEW step, Ahead(q, step)
      PROVE  Ahead(p, step)
  <2>1. PICK i \in 1..Len(q) : q[i] = step
    BY <1>3 DEF Ahead
  <2>2. i + 1 \in 1..Len(p) /\ p[i + 1] = step
    BY <1>1, <2>1
  <2> QED
    BY <2>2 DEF Ahead
<1>4. Ahead(p, Head(p))
  <2>1. 1 \in 1..Len(p)
    BY <1>1
  <2> QED
    BY <1>1, <2>1 DEF Ahead
<1> QED
  BY <1>2, <1>3, <1>4 DEF q

\* What a plan says of what comes after its first step.
LEMMA AheadAfter ==
  ASSUME NEW p \in Plans, p # <<>>
  PROVE  /\ Head(p) = "boxes" => Ahead(Tail(p), "watch")
         /\ Head(p) = "choice" => Ahead(Tail(p), "switch")
         /\ Head(p) = "set" => Tail(p) = <<>>
         /\ Head(p) = "reread" => Ahead(Tail(p), "demo")
                                  /\ \A step \in DemoSteps : Ahead(Tail(p), step) => step = "demo"
         /\ Head(p) = "read" => /\ Tail(p) # <<>> /\ Head(Tail(p)) = p[2]
                                /\ Head(Tail(p)) \in {"demo", "rest"}
                                /\ \A step \in DemoSteps : Ahead(Tail(p), step) => step = p[2]
         /\ Head(p) \in {"demo", "rest", "leave"} => ~AheadDemo(Tail(p))
<1> DEFINE q == Tail(p)
<1>1. Len(q) = Len(p) - 1 /\ Head(p) = p[1] /\ (\A i \in 1..Len(q) : q[i] = p[i + 1])
      /\ Len(p) \in Nat /\ Len(p) > 0 /\ q \in Plans /\ q \in Seq(StepNames)
  <2>1. p \in Seq(StepNames)
    BY DEF Plans
  <2> QED
    BY <2>1, TailIsPlan, HeadTailProperties
<1>2. /\ p[1] = "boxes" => 1 < Len(p) /\ p[2] = "watch"
      /\ p[1] = "choice" => 1 < Len(p) /\ p[2] = "switch"
      /\ p[1] = "reread" => 1 < Len(p) /\ p[2] = "demo"
      /\ p[1] = "read" => 1 < Len(p) /\ p[2] \in {"demo", "rest"}
      /\ p[1] = "set" => 1 = Len(p)
  <2>1. 1 \in 1..Len(p) /\ 1 + 1 = 2
    BY <1>1
  <2>2. /\ p[1] = "boxes" => 1 < Len(p) /\ p[1 + 1] = "watch"
        /\ p[1] = "choice" => 1 < Len(p) /\ p[1 + 1] = "switch"
        /\ p[1] = "reread" => 1 < Len(p) /\ p[1 + 1] = "demo"
        /\ p[1] = "read" => 1 < Len(p) /\ p[1 + 1] \in {"demo", "rest"}
        /\ p[1] = "set" => 1 = Len(p)
    BY <2>1 DEF Plans
  <2> QED
    BY <2>1, <2>2
<1>3. p[1] \in DemoSteps => \A j \in 2..Len(p) : p[j] \in DemoSteps =>
                                j = 2 /\ p[1] \in {"reread", "read"}
  <2>1. 1 \in 1..Len(p) /\ 1 + 1 = 2
    BY <1>1
  <2>2. p[1] \in DemoSteps => \A j \in 1 + 1 .. Len(p) : p[j] \in DemoSteps =>
                                j = 1 + 1 /\ p[1] \in {"reread", "read"}
    BY <2>1 DEF Plans
  <2> QED
    BY <2>1, <2>2
<1>4. 1 < Len(p) => q # <<>> /\ Head(q) = p[2] /\ Ahead(q, p[2])
  <2>1. SUFFICES ASSUME 1 < Len(p) PROVE q # <<>> /\ Head(q) = p[2] /\ Ahead(q, p[2])
    OBVIOUS
  <2>2. 1 \in 1..Len(q) /\ q[1] = p[2] /\ Len(q) # 0
    BY <1>1, <2>1
  <2>3. q # <<>>
    <3> HIDE DEF q
    <3> QED
      BY <2>2
  <2>4. Head(q) = q[1]
    BY <1>1, <2>3, TailIsPlan
  <2>5. Ahead(q, q[1])
    BY <2>2 DEF Ahead
  <2> QED
    BY <2>2, <2>3, <2>4, <2>5
<1> HIDE DEF q
<1>5. p[1] \in DemoSteps => \A step \in DemoSteps : Ahead(q, step) =>
                              step = p[2] /\ p[1] \in {"reread", "read"}
  <2>1. SUFFICES ASSUME p[1] \in DemoSteps, NEW step \in DemoSteps, Ahead(q, step)
                 PROVE  step = p[2] /\ p[1] \in {"reread", "read"}
    OBVIOUS
  <2>2. PICK i \in 1..Len(q) : q[i] = step
    BY <2>1 DEF Ahead
  <2>3. i + 1 \in 2..Len(p) /\ p[i + 1] = step
    BY <1>1, <2>2
  <2>4. i + 1 = 2 /\ p[1] \in {"reread", "read"}
    BY <1>3, <2>1, <2>3
  <2> QED
    BY <2>3, <2>4
<1>6. p[1] = "set" => q = <<>>
  <2>1. Len(q) = 0 => q = <<>>
    BY <1>1
  <2> QED
    BY <1>1, <1>2, <2>1
<1>7. p[1] \in {"demo", "rest", "leave"} => ~AheadDemo(q)
  BY <1>5 DEF AheadDemo, DemoSteps
<1>8. /\ p[1] = "boxes" => Ahead(q, "watch")
      /\ p[1] = "choice" => Ahead(q, "switch")
      /\ p[1] = "reread" => Ahead(q, "demo")
      /\ p[1] = "read" => q # <<>> /\ Head(q) = p[2] /\ p[2] \in {"demo", "rest"}
  BY <1>2, <1>4
<1>9. p[1] = "reread" => \A step \in DemoSteps : Ahead(q, step) => step = "demo"
  BY <1>2, <1>5 DEF DemoSteps
<1>10. p[1] = "read" => \A step \in DemoSteps : Ahead(q, step) => step = p[2]
  BY <1>5 DEF DemoSteps
<1> QED
  BY <1>1, <1>6, <1>7, <1>8, <1>9, <1>10 DEF q

\* Leaving the demo is put before what a plan holds.
LEMMA AheadLeave ==
  ASSUME NEW q \in Plans
  PROVE  \A step : Ahead(<<"leave">> \o q, step) <=> step = "leave" \/ Ahead(q, step)
<1> DEFINE r == <<"leave">> \o q
<1>1. q \in Seq(StepNames) /\ Len(q) \in Nat /\ <<"leave">> \in Seq(StepNames) /\ Len(<<"leave">>) = 1
      /\ <<"leave">>[1] = "leave"
  BY DEF Plans, StepNames
<1>2. Len(r) = Len(q) + 1 /\ r[1] = "leave"
  BY <1>1, ConcatProperties
<1>3. ASSUME NEW i \in 1..Len(q) PROVE i + 1 \in 1..Len(r) /\ r[i + 1] = q[i]
  <2>1. i + 1 \in 1..Len(r) /\ i + 1 > 1 /\ (i + 1) - 1 = i
    BY <1>1, <1>2
  <2> QED
    BY <1>1, <1>2, <2>1, ConcatProperties
<1> HIDE DEF r
<1>4. ASSUME NEW step, Ahead(r, step)
      PROVE  step = "leave" \/ Ahead(q, step)
  <2>1. PICK i \in 1..Len(r) : r[i] = step
    BY <1>4 DEF Ahead
  <2>2. CASE i # 1
    <3>1. i - 1 \in 1..Len(q) /\ (i - 1) + 1 = i
      BY <1>1, <1>2, <2>1, <2>2
    <3>2. q[i - 1] = step
      BY <1>3, <2>1, <3>1
    <3> QED
      BY <3>1, <3>2 DEF Ahead
  <2> QED
    BY <1>2, <2>1, <2>2
<1>5. ASSUME NEW step, Ahead(q, step) PROVE Ahead(r, step)
  BY <1>3, <1>5 DEF Ahead
<1>6. Ahead(r, "leave")
  <2>1. 1 \in 1..Len(r)
    BY <1>1, <1>2
  <2> QED
    BY <1>2, <2>1 DEF Ahead
<1> QED
  BY <1>4, <1>5, <1>6 DEF r

-----------------------------------------------------------------------------
(* What is owed, step by step.                                               *)

Others6 == {"save", "server", "boxes", "watch", "choice", "switch"}

\* With nothing before it a thread owes nothing.
Caught(a, f, u, st, fd) ==
  /\ f = Part(a) /\ u = a.server /\ st.watch = a.box /\ st.switch = SwitchOf(a.idle)
  /\ st.demo <=> DemoMode(a)
  /\ ~fd.stop /\ (st.demo <=> fd.at # "none")

\* A thread with nothing before it owes nothing: all has been caught up with.
LEMMA OwedNothing ==
  ASSUME NEW c, c.todo = <<>>, NEW a, NEW f, NEW u, NEW st, NEW fd
  PROVE  Owed(c, a, f, u, st, fd) <=> Caught(a, f, u, st, fd)
<1>1. \A step : ~Ahead(c.todo, step)
  BY NoneAhead
<1>2. ~AheadDemo(c.todo)
  BY <1>1 DEF AheadDemo
<1>3. OwesFile(c, a, f) <=> f = Part(a)
  BY <1>1 DEF OwesFile
<1>4. OwesUrl(c, a, u) <=> u = a.server
  BY <1>1 DEF OwesUrl
<1>5. OwesWatch(c, a, st) <=> st.watch = a.box
  BY <1>1 DEF OwesWatch
<1>6. OwesSwitch(c, a, st) <=> st.switch = SwitchOf(a.idle)
  BY <1>1 DEF OwesSwitch
<1>7. OwesDemo(c, a, st, fd) <=> (st.demo <=> DemoMode(a)) /\ ~fd.stop /\ (st.demo <=> fd.at # "none")
  BY <1>1, <1>2 DEF OwesDemo
<1> QED
  BY <1>3, <1>4, <1>5, <1>6, <1>7 DEF Owed, Caught

\* A change of which nothing is left is forgotten.
LEMMA OwedLeft ==
  ASSUME NEW c \in ChangeSet, NEW q \in Plans, NEW a, NEW f, NEW u, NEW st, NEW fd,
         Owed([c EXCEPT !.todo = q], a, f, u, st, fd)
  PROVE  Owed(IF q = <<>> THEN Nothing ELSE [c EXCEPT !.todo = q], a, f, u, st, fd)
<1>1. CASE q = <<>>
  <2>1. [c EXCEPT !.todo = q].todo = <<>> /\ Nothing.todo = <<>>
    BY <1>1, FreshTyped DEF ChangeSet
  <2>2. Caught(a, f, u, st, fd)
    BY <2>1, OwedNothing
  <2> QED
    BY <1>1, <2>1, <2>2, OwedNothing
<1> QED
  BY <1>1

\* A step that leaves the copy and the saving ahead leaves what is owed to the file.
LEMMA FileSame ==
  ASSUME NEW c, NEW d, NEW a, NEW f, OwesFile(c, a, f), d.copy = c.copy,
         Ahead(d.todo, "save") <=> Ahead(c.todo, "save")
  PROVE  OwesFile(d, a, f)
  BY DEF OwesFile

\* The same of the client.
LEMMA UrlSame ==
  ASSUME NEW c, NEW d, NEW a, NEW u, OwesUrl(c, a, u), d.copy = c.copy,
         Ahead(d.todo, "server") <=> Ahead(c.todo, "server")
  PROVE  OwesUrl(d, a, u)
  BY DEF OwesUrl

\* The same of the watched paths.
LEMMA WatchSame ==
  ASSUME NEW c, NEW d, NEW a, NEW st, NEW st2, OwesWatch(c, a, st),
         d.want.box = c.want.box, st2.watch = st.watch,
         Ahead(d.todo, "boxes") <=> Ahead(c.todo, "boxes"),
         Ahead(d.todo, "watch") <=> Ahead(c.todo, "watch")
  PROVE  OwesWatch(d, a, st2)
  BY DEF OwesWatch

\* The same of the switch.
LEMMA SwitchSame ==
  ASSUME NEW c, NEW d, NEW a, NEW st, NEW st2, OwesSwitch(c, a, st),
         d.want.idle = c.want.idle, st2.switch = st.switch,
         Ahead(d.todo, "choice") <=> Ahead(c.todo, "choice"),
         Ahead(d.todo, "switch") <=> Ahead(c.todo, "switch")
  PROVE  OwesSwitch(d, a, st2)
  BY DEF OwesSwitch

\* The same of the demo.
LEMMA DemoSame ==
  ASSUME NEW c, NEW d, NEW a, NEW st, NEW st2, NEW fd, OwesDemo(c, a, st, fd),
         d.on = c.on, st2.demo = st.demo,
         \A step \in DemoSteps \union {"set"} : Ahead(d.todo, step) <=> Ahead(c.todo, step)
  PROVE  OwesDemo(d, a, st2, fd)
<1>1. AheadDemo(d.todo) <=> AheadDemo(c.todo)
  BY DEF AheadDemo
<1>2. \A step \in {"reread", "read", "demo", "rest", "leave", "set"} :
        Ahead(d.todo, step) <=> Ahead(c.todo, step)
  BY DEF DemoSteps
<1> QED
  BY <1>1, <1>2 DEF OwesDemo

\* A step that is none of the demo's.
LEMMA OutOfDemo ==
  ASSUME NEW c \in ChangeSet, c.todo # <<>>, Head(c.todo) \in Others6 \union {"reconnect"},
         NEW d, d.todo = Tail(c.todo)
  PROVE  /\ \A step \in DemoSteps \union {"set"} : Ahead(d.todo, step) <=> Ahead(c.todo, step)
         /\ \A step \in Others6 : step # Head(c.todo) => (Ahead(d.todo, step) <=> Ahead(c.todo, step))
         /\ Ahead(c.todo, Head(c.todo))
<1>1. c.todo \in Plans
  BY DEF ChangeSet
<1>2. \A step : Ahead(c.todo, step) <=> step = Head(c.todo) \/ Ahead(d.todo, step)
  BY <1>1, AheadOnce
<1>3. \A step \in DemoSteps \union {"set"} : step # Head(c.todo)
  BY DEF DemoSteps, Others6
<1> QED
  BY <1>2, <1>3

\* A record once its first step is done.
LEMMA RestTyped ==
  ASSUME NEW c \in ChangeSet, c.todo # <<>>
  PROVE  LET d == [c EXCEPT !.todo = Tail(c.todo)] IN
         /\ c.todo \in Plans /\ Tail(c.todo) \in Plans /\ d \in ChangeSet
         /\ d.todo = Tail(c.todo) /\ d.copy = c.copy /\ d.want = c.want /\ d.on = c.on
  BY TailIsPlan DEF ChangeSet

\* What is owed after the file is written.
LEMMA SaveOwed ==
  ASSUME NEW c \in ChangeSet, c.todo # <<>>, Head(c.todo) = "save",
         NEW a, NEW f, NEW u, NEW st, NEW fd, Owed(c, a, f, u, st, fd)
  PROVE  Owed([c EXCEPT !.todo = Tail(c.todo)], a, c.copy, u, st, fd)
<1> DEFINE d == [c EXCEPT !.todo = Tail(c.todo)]
<1>1. d.todo = Tail(c.todo) /\ d.copy = c.copy /\ d.want = c.want /\ d.on = c.on
  BY RestTyped
<1> HIDE DEF d
<1>2. /\ \A step \in DemoSteps \union {"set"} : Ahead(d.todo, step) <=> Ahead(c.todo, step)
      /\ \A step \in Others6 : step # "save" => (Ahead(d.todo, step) <=> Ahead(c.todo, step))
      /\ Ahead(c.todo, "save")
  BY <1>1, OutOfDemo DEF Others6
<1>3. c.copy = Part(a)
  BY <1>2 DEF Owed, OwesFile
<1>4. OwesFile(d, a, c.copy)
  BY <1>1, <1>3 DEF OwesFile
<1>5. OwesUrl(d, a, u)
  BY <1>1, <1>2, UrlSame DEF Owed, Others6
<1>6. OwesWatch(d, a, st)
  BY <1>1, <1>2, WatchSame DEF Owed, Others6
<1>7. OwesSwitch(d, a, st)
  BY <1>1, <1>2, SwitchSame DEF Owed, Others6
<1>8. OwesDemo(d, a, st, fd)
  BY <1>1, <1>2, DemoSame DEF Owed
<1> QED
  BY <1>4, <1>5, <1>6, <1>7, <1>8 DEF Owed, d

\* After the client is given its server.
LEMMA ServerOwed ==
  ASSUME NEW c \in ChangeSet, c.todo # <<>>, Head(c.todo) = "server",
         NEW a, NEW f, NEW u, NEW st, NEW st2, NEW fd, Owed(c, a, f, u, st, fd),
         st2.watch = st.watch, st2.switch = st.switch, st2.demo = st.demo
  PROVE  Owed([c EXCEPT !.todo = Tail(c.todo)], a, f, c.copy.server, st2, fd)
<1> DEFINE d == [c EXCEPT !.todo = Tail(c.todo)]
<1>1. d.todo = Tail(c.todo) /\ d.copy = c.copy /\ d.want = c.want /\ d.on = c.on
  BY RestTyped
<1> HIDE DEF d
<1>2. /\ \A step \in DemoSteps \union {"set"} : Ahead(d.todo, step) <=> Ahead(c.todo, step)
      /\ \A step \in Others6 : step # "server" => (Ahead(d.todo, step) <=> Ahead(c.todo, step))
      /\ Ahead(c.todo, "server")
  BY <1>1, OutOfDemo DEF Others6
<1>3. c.copy.server = a.server
  BY <1>2 DEF Owed, OwesUrl
<1>4. OwesUrl(d, a, c.copy.server)
  BY <1>1, <1>3 DEF OwesUrl
<1>5. OwesFile(d, a, f)
  BY <1>1, <1>2, FileSame DEF Owed, Others6
<1>6. OwesWatch(d, a, st2)
  BY <1>1, <1>2, WatchSame DEF Owed, Others6
<1>7. OwesSwitch(d, a, st2)
  BY <1>1, <1>2, SwitchSame DEF Owed, Others6
<1>8. OwesDemo(d, a, st2, fd)
  BY <1>1, <1>2, DemoSame DEF Owed
<1> QED
  BY <1>4, <1>5, <1>6, <1>7, <1>8 DEF Owed, d

\* After a reconnect.
LEMMA ReconnectOwed ==
  ASSUME NEW c \in ChangeSet, c.todo # <<>>, Head(c.todo) = "reconnect",
         NEW a, NEW f, NEW u, NEW st, NEW st2, NEW fd, Owed(c, a, f, u, st, fd),
         st2.watch = st.watch, st2.switch = st.switch, st2.demo = st.demo
  PROVE  Owed([c EXCEPT !.todo = Tail(c.todo)], a, f, u, st2, fd)
<1> DEFINE d == [c EXCEPT !.todo = Tail(c.todo)]
<1>1. d.todo = Tail(c.todo) /\ d.copy = c.copy /\ d.want = c.want /\ d.on = c.on
  BY RestTyped
<1> HIDE DEF d
<1>2. /\ \A step \in DemoSteps \union {"set"} : Ahead(d.todo, step) <=> Ahead(c.todo, step)
      /\ \A step \in Others6 : Ahead(d.todo, step) <=> Ahead(c.todo, step)
  BY <1>1, OutOfDemo DEF Others6
<1>4. OwesUrl(d, a, u)
  BY <1>1, <1>2, UrlSame DEF Owed, Others6
<1>5. OwesFile(d, a, f)
  BY <1>1, <1>2, FileSame DEF Owed, Others6
<1>6. OwesWatch(d, a, st2)
  BY <1>1, <1>2, WatchSame DEF Owed, Others6
<1>7. OwesSwitch(d, a, st2)
  BY <1>1, <1>2, SwitchSame DEF Owed, Others6
<1>8. OwesDemo(d, a, st2, fd)
  BY <1>1, <1>2, DemoSame DEF Owed
<1> QED
  BY <1>4, <1>5, <1>6, <1>7, <1>8 DEF Owed, d

\* After the boxes are read.
LEMMA BoxesOwed ==
  ASSUME NEW c \in ChangeSet, c.todo # <<>>, Head(c.todo) = "boxes",
         NEW a, NEW f, NEW u, NEW st, NEW fd, Owed(c, a, f, u, st, fd),
         NEW d, d.todo = Tail(c.todo), d.copy = c.copy, d.on = c.on,
         d.want.idle = c.want.idle, d.want.box = a.box
  PROVE  Owed(d, a, f, u, st, fd)
<1>2. /\ \A step \in DemoSteps \union {"set"} : Ahead(d.todo, step) <=> Ahead(c.todo, step)
      /\ \A step \in Others6 : step # "boxes" => (Ahead(d.todo, step) <=> Ahead(c.todo, step))
  BY OutOfDemo DEF Others6
<1>3. Ahead(d.todo, "watch")
  BY AheadAfter DEF ChangeSet
<1>4. OwesUrl(d, a, u)
  BY <1>2, UrlSame DEF Owed, Others6
<1>5. OwesFile(d, a, f)
  BY <1>2, FileSame DEF Owed, Others6
<1>6. OwesWatch(d, a, st)
  BY <1>3 DEF OwesWatch
<1>7. OwesSwitch(d, a, st)
  BY <1>2, SwitchSame DEF Owed, Others6
<1>8. OwesDemo(d, a, st, fd)
  BY <1>2, DemoSame DEF Owed
<1> QED
  BY <1>4, <1>5, <1>6, <1>7, <1>8 DEF Owed

\* After the watched paths are set.
LEMMA WatchOwed ==
  ASSUME NEW c \in ChangeSet, c.todo # <<>>, Head(c.todo) = "watch",
         NEW a, NEW f, NEW u, NEW st, NEW st2, NEW fd, Owed(c, a, f, u, st, fd),
         st2.watch = c.want.box, st2.switch = st.switch, st2.demo = st.demo
  PROVE  Owed([c EXCEPT !.todo = Tail(c.todo)], a, f, u, st2, fd)
<1> DEFINE d == [c EXCEPT !.todo = Tail(c.todo)]
<1>1. d.todo = Tail(c.todo) /\ d.copy = c.copy /\ d.want = c.want /\ d.on = c.on
  BY RestTyped
<1> HIDE DEF d
<1>2. /\ \A step \in DemoSteps \union {"set"} : Ahead(d.todo, step) <=> Ahead(c.todo, step)
      /\ \A step \in Others6 : step # "watch" => (Ahead(d.todo, step) <=> Ahead(c.todo, step))
      /\ Ahead(c.todo, "watch")
  BY <1>1, OutOfDemo DEF Others6
<1>4. OwesUrl(d, a, u)
  BY <1>1, <1>2, UrlSame DEF Owed, Others6
<1>5. OwesFile(d, a, f)
  BY <1>1, <1>2, FileSame DEF Owed, Others6
<1>6. OwesWatch(d, a, st2)
  <2>1. Ahead(c.todo, "boxes") \/ c.want.box = a.box
    BY <1>2 DEF Owed, OwesWatch
  <2> QED
    BY <1>1, <1>2, <2>1 DEF OwesWatch, Others6
<1>7. OwesSwitch(d, a, st2)
  BY <1>1, <1>2, SwitchSame DEF Owed, Others6
<1>8. OwesDemo(d, a, st2, fd)
  BY <1>1, <1>2, DemoSame DEF Owed
<1> QED
  BY <1>4, <1>5, <1>6, <1>7, <1>8 DEF Owed, d

\* After the idle choice is read.
LEMMA ChoiceOwed ==
  ASSUME NEW c \in ChangeSet, c.todo # <<>>, Head(c.todo) = "choice",
         NEW a, NEW f, NEW u, NEW st, NEW fd, Owed(c, a, f, u, st, fd),
         NEW d, d.todo = Tail(c.todo), d.copy = c.copy, d.on = c.on,
         d.want.box = c.want.box, d.want.idle = a.idle
  PROVE  Owed(d, a, f, u, st, fd)
<1>2. /\ \A step \in DemoSteps \union {"set"} : Ahead(d.todo, step) <=> Ahead(c.todo, step)
      /\ \A step \in Others6 : step # "choice" => (Ahead(d.todo, step) <=> Ahead(c.todo, step))
  BY OutOfDemo DEF Others6
<1>3. Ahead(d.todo, "switch")
  BY AheadAfter DEF ChangeSet
<1>4. OwesUrl(d, a, u)
  BY <1>2, UrlSame DEF Owed, Others6
<1>5. OwesFile(d, a, f)
  BY <1>2, FileSame DEF Owed, Others6
<1>6. OwesSwitch(d, a, st)
  BY <1>3 DEF OwesSwitch
<1>7. OwesWatch(d, a, st)
  BY <1>2, WatchSame DEF Owed, Others6
<1>8. OwesDemo(d, a, st, fd)
  BY <1>2, DemoSame DEF Owed
<1> QED
  BY <1>4, <1>5, <1>6, <1>7, <1>8 DEF Owed

\* After the switch is set.
LEMMA SwitchOwed ==
  ASSUME NEW c \in ChangeSet, c.todo # <<>>, Head(c.todo) = "switch",
         NEW a, NEW f, NEW u, NEW st, NEW st2, NEW fd, Owed(c, a, f, u, st, fd),
         st2.switch = SwitchOf(c.want.idle), st2.watch = st.watch, st2.demo = st.demo
  PROVE  Owed([c EXCEPT !.todo = Tail(c.todo)], a, f, u, st2, fd)
<1> DEFINE d == [c EXCEPT !.todo = Tail(c.todo)]
<1>1. d.todo = Tail(c.todo) /\ d.copy = c.copy /\ d.want = c.want /\ d.on = c.on
  BY RestTyped
<1> HIDE DEF d
<1>2. /\ \A step \in DemoSteps \union {"set"} : Ahead(d.todo, step) <=> Ahead(c.todo, step)
      /\ \A step \in Others6 : step # "switch" => (Ahead(d.todo, step) <=> Ahead(c.todo, step))
      /\ Ahead(c.todo, "switch")
  BY <1>1, OutOfDemo DEF Others6
<1>4. OwesUrl(d, a, u)
  BY <1>1, <1>2, UrlSame DEF Owed, Others6
<1>5. OwesFile(d, a, f)
  BY <1>1, <1>2, FileSame DEF Owed, Others6
<1>6. OwesSwitch(d, a, st2)
  <2>1. Ahead(c.todo, "choice") \/ c.want.idle = a.idle
    BY <1>2 DEF Owed, OwesSwitch
  <2> QED
    BY <1>1, <1>2, <2>1 DEF OwesSwitch, Others6
<1>7. OwesWatch(d, a, st2)
  BY <1>1, <1>2, WatchSame DEF Owed, Others6
<1>8. OwesDemo(d, a, st2, fd)
  BY <1>1, <1>2, DemoSame DEF Owed
<1> QED
  BY <1>4, <1>5, <1>6, <1>7, <1>8 DEF Owed, d

\* What a step of the demo's leaves as it was.
LEMMA RestOwed ==
  ASSUME NEW c, NEW d, NEW a, NEW f, NEW u, NEW st, NEW st2, NEW fd, Owed(c, a, f, u, st, fd),
         d.copy = c.copy, d.want = c.want, st2.watch = st.watch, st2.switch = st.switch,
         \A step \in Others6 : Ahead(d.todo, step) <=> Ahead(c.todo, step)
  PROVE  OwesFile(d, a, f) /\ OwesUrl(d, a, u) /\ OwesWatch(d, a, st2) /\ OwesSwitch(d, a, st2)
<1>1. OwesUrl(d, a, u)
  BY UrlSame DEF Owed, Others6
<1>2. OwesFile(d, a, f)
  BY FileSame DEF Owed, Others6
<1>3. OwesWatch(d, a, st2)
  BY WatchSame DEF Owed, Others6
<1>4. OwesSwitch(d, a, st2)
  BY SwitchSame DEF Owed, Others6
<1> QED
  BY <1>1, <1>2, <1>3, <1>4

\* The first step is one of the demo's.
LEMMA InDemo ==
  ASSUME NEW c \in ChangeSet, c.todo # <<>>, Head(c.todo) \in DemoSteps,
         NEW q, q = Tail(c.todo)
  PROVE  /\ c.todo \in Plans /\ q \in Plans
         /\ \A step : Ahead(c.todo, step) <=> step = Head(c.todo) \/ Ahead(q, step)
         /\ \A step \in Others6 \union {"set"} : Ahead(q, step) <=> Ahead(c.todo, step)
         /\ Ahead(c.todo, Head(c.todo))
<1>1. c.todo \in Plans /\ q \in Plans
  BY TailIsPlan DEF ChangeSet
<1>2. \A step : Ahead(c.todo, step) <=> step = Head(c.todo) \/ Ahead(q, step)
  BY <1>1, AheadOnce
<1>3. \A step \in Others6 \union {"set"} : step # Head(c.todo)
  BY DEF DemoSteps, Others6
<1> QED
  BY <1>1, <1>2, <1>3

\* After the demo setting is read again.
LEMMA RereadOwed ==
  ASSUME NEW c \in ChangeSet, c.todo # <<>>, Head(c.todo) = "reread",
         NEW a, NEW f, NEW u, NEW st, NEW fd, Owed(c, a, f, u, st, fd),
         NEW d, d.todo = Tail(c.todo), d.copy = c.copy, d.want = c.want, d.on <=> a.demo
  PROVE  Owed(d, a, f, u, st, fd)
<1>1. /\ \A step : Ahead(c.todo, step) <=> step = "reread" \/ Ahead(d.todo, step)
      /\ \A step \in Others6 \union {"set"} : Ahead(d.todo, step) <=> Ahead(c.todo, step)
      /\ Ahead(c.todo, "reread")
  BY InDemo DEF DemoSteps
<1>2. Ahead(d.todo, "demo") /\ \A step \in DemoSteps : Ahead(d.todo, step) => step = "demo"
  BY AheadAfter DEF ChangeSet
<1>3. /\ AheadDemo(d.todo) /\ ~Ahead(d.todo, "reread") /\ ~Ahead(d.todo, "read")
      /\ ~Ahead(d.todo, "rest") /\ ~Ahead(d.todo, "leave") /\ ~Ahead(c.todo, "leave")
  BY <1>1, <1>2 DEF AheadDemo, DemoSteps
<1>4. ~a.noPower /\ ~fd.stop /\ (st.demo <=> fd.at # "none")
  BY <1>1, <1>3 DEF Owed, OwesDemo
<1>5. OwesDemo(d, a, st, fd)
  BY <1>3, <1>4 DEF OwesDemo, DemoMode
<1> QED
  BY <1>1, <1>5, RestOwed DEF Owed

\* OnNoPower finds the demo on, or off.
LEMMA ReadOwed ==
  ASSUME NEW c \in ChangeSet, c.todo # <<>>, Head(c.todo) = "read",
         NEW a, NEW f, NEW u, NEW st, NEW fd, Owed(c, a, f, u, st, fd)
  PROVE  /\ Tail(c.todo) # <<>>
         /\ a.demo => \A d : /\ d.todo = Tail(c.todo) /\ d.copy = c.copy /\ d.want = c.want
                             /\ d.on <=> c.todo[2] = "demo"
                             => Owed(d, a, f, u, st, fd)
         /\ ~a.demo => Owed([c EXCEPT !.todo = Tail(Tail(c.todo))], a, f, u, st, fd)
<1> DEFINE q == Tail(c.todo)
<1>1. /\ c.todo \in Plans /\ q \in Plans
      /\ \A step : Ahead(c.todo, step) <=> step = "read" \/ Ahead(q, step)
      /\ \A step \in Others6 \union {"set"} : Ahead(q, step) <=> Ahead(c.todo, step)
      /\ Ahead(c.todo, "read")
  BY InDemo DEF DemoSteps
<1>2. /\ q # <<>> /\ Head(q) = c.todo[2] /\ c.todo[2] \in {"demo", "rest"}
      /\ \A step \in DemoSteps : Ahead(q, step) => step = c.todo[2]
  BY <1>1, AheadAfter
<1>3. \A step : Ahead(q, step) <=> step = c.todo[2] \/ Ahead(Tail(q), step)
  BY <1>1, <1>2, AheadOnce
<1>4. Tail(q) \in Plans
  BY <1>1, <1>2, TailIsPlan
<1>5. ~AheadDemo(Tail(q))
  BY <1>1, <1>2, AheadAfter
<1>6. q # <<>>
  BY <1>2
<1> HIDE DEF q
<1>7. /\ ~Ahead(q, "reread") /\ ~Ahead(q, "read") /\ ~Ahead(q, "leave") /\ ~Ahead(c.todo, "leave")
      /\ (Ahead(c.todo, "rest") <=> c.todo[2] = "rest") /\ AheadDemo(q)
  BY <1>1, <1>2, <1>3 DEF DemoSteps, AheadDemo
<1>8. /\ a.noPower <=> c.todo[2] = "rest"
      /\ st.demo => a.demo
      /\ ~fd.stop /\ (st.demo <=> fd.at # "none")
      /\ Ahead(q, "set") => ~a.noPower
  BY <1>1, <1>7 DEF Owed, OwesDemo
<1>9. ASSUME a.demo, NEW d, d.todo = q, d.copy = c.copy, d.want = c.want, d.on <=> c.todo[2] = "demo"
      PROVE  Owed(d, a, f, u, st, fd)
  <2>1. d.on <=> DemoMode(a)
    BY <1>2, <1>8, <1>9 DEF DemoMode
  <2>2. OwesDemo(d, a, st, fd)
    BY <1>7, <1>8, <1>9, <2>1 DEF OwesDemo
  <2> QED
    BY <1>1, <1>9, <2>2, RestOwed DEF Owed
<1>10. ASSUME ~a.demo
       PROVE  Owed([c EXCEPT !.todo = Tail(q)], a, f, u, st, fd)
  <2> DEFINE d == [c EXCEPT !.todo = Tail(q)]
  <2>1. d.todo = Tail(q) /\ d.copy = c.copy /\ d.want = c.want
    BY DEF ChangeSet
  <2> HIDE DEF d
  <2>2. \A step \in Others6 \union {"set"} : Ahead(d.todo, step) <=> Ahead(c.todo, step)
    BY <1>1, <1>2, <1>3, <2>1 DEF Others6
  <2>3. ~AheadDemo(d.todo) /\ ~Ahead(d.todo, "reread") /\ ~Ahead(d.todo, "read")
        /\ ~Ahead(d.todo, "demo") /\ ~Ahead(d.todo, "rest") /\ ~Ahead(d.todo, "leave")
    BY <1>5, <2>1 DEF AheadDemo, DemoSteps
  <2>4. ~st.demo /\ ~DemoMode(a) /\ (Ahead(d.todo, "set") => ~a.noPower)
    BY <1>1, <1>8, <1>10, <2>2 DEF DemoMode
  <2>5. OwesDemo(d, a, st, fd)
    BY <1>8, <2>3, <2>4 DEF OwesDemo
  <2>6. Owed(d, a, f, u, st, fd)
    BY <2>1, <2>2, <2>5, RestOwed DEF Owed
  <2> QED
    BY <2>6 DEF d
<1> QED
  BY <1>6, <1>9, <1>10 DEF q

\* Controller.Set.
LEMMA SetDemoOwed ==
  ASSUME NEW c \in ChangeSet, c.todo # <<>>, Head(c.todo) \in {"demo", "rest"},
         NEW a, NEW f, NEW u, NEW st, NEW fd, Owed(c, a, f, u, st, fd)
  PROVE  /\ c.on <=> DemoMode(a)
         /\ ~fd.stop /\ (st.demo <=> fd.at # "none")
         /\ \A d, st2, fd2 :
              /\ d.todo = Tail(c.todo) /\ d.copy = c.copy /\ d.want = c.want
              /\ st2.watch = st.watch /\ st2.switch = st.switch
              /\ (st2.demo <=> c.on) /\ ~fd2.stop /\ (st2.demo <=> fd2.at # "none")
              => Owed(d, a, f, u, st2, fd2)
         /\ ~c.on => \A d, fd2 :
              /\ d.todo = <<"leave">> \o Tail(c.todo) /\ d.copy = c.copy /\ d.want = c.want
              => Owed(d, a, f, u, st, fd2)
<1> DEFINE q == Tail(c.todo)
<1>1. /\ c.todo \in Plans /\ q \in Plans
      /\ \A step : Ahead(c.todo, step) <=> step = Head(c.todo) \/ Ahead(q, step)
      /\ \A step \in Others6 \union {"set"} : Ahead(q, step) <=> Ahead(c.todo, step)
      /\ Ahead(c.todo, Head(c.todo))
  BY InDemo DEF DemoSteps
<1>2. ~AheadDemo(q)
  BY <1>1, AheadAfter
<1>3. \A step : Ahead(<<"leave">> \o q, step) <=> step = "leave" \/ Ahead(q, step)
  BY <1>1, AheadLeave
<1>4. \A step \in DemoSteps : ~Ahead(q, step)
  BY <1>2 DEF AheadDemo
<1> HIDE DEF q
<1>5. /\ ~Ahead(q, "reread") /\ ~Ahead(q, "read") /\ ~Ahead(q, "demo") /\ ~Ahead(q, "rest")
      /\ ~Ahead(q, "leave")
  BY <1>4 DEF DemoSteps
<1>6. /\ ~Ahead(c.todo, "leave") /\ ~Ahead(c.todo, "read") /\ ~Ahead(c.todo, "reread")
      /\ Ahead(c.todo, "demo") \/ Ahead(c.todo, "rest")
  BY <1>1, <1>5
<1>7. /\ c.on <=> DemoMode(a)
      /\ ~fd.stop /\ (st.demo <=> fd.at # "none")
      /\ Ahead(q, "set") => ~a.noPower
  BY <1>1, <1>6 DEF Owed, OwesDemo
<1>8. ASSUME NEW d, NEW st2, NEW fd2, d.todo = q, d.copy = c.copy, d.want = c.want,
             st2.watch = st.watch, st2.switch = st.switch,
             st2.demo <=> c.on, ~fd2.stop, st2.demo <=> fd2.at # "none"
      PROVE  Owed(d, a, f, u, st2, fd2)
  <2>1. OwesDemo(d, a, st2, fd2)
    BY <1>2, <1>5, <1>7, <1>8 DEF OwesDemo
  <2> QED
    BY <1>1, <1>8, <2>1, RestOwed DEF Owed
<1>9. ASSUME ~c.on, NEW d, NEW fd2, d.todo = <<"leave">> \o q, d.copy = c.copy, d.want = c.want
      PROVE  Owed(d, a, f, u, st, fd2)
  <2>1. \A step \in Others6 \union {"set"} : Ahead(d.todo, step) <=> Ahead(c.todo, step)
    BY <1>1, <1>3, <1>9 DEF Others6
  <2>2. /\ ~Ahead(d.todo, "reread") /\ ~Ahead(d.todo, "read") /\ ~Ahead(d.todo, "demo")
        /\ ~Ahead(d.todo, "rest") /\ Ahead(d.todo, "leave")
        /\ Ahead(d.todo, "set") => ~a.noPower
    BY <1>1, <1>3, <1>5, <1>7, <1>9, <2>1
  <2>3. AheadDemo(d.todo)
    BY <2>2 DEF AheadDemo, DemoSteps
  <2>4. OwesDemo(d, a, st, fd2)
    BY <1>7, <1>9, <2>2, <2>3 DEF OwesDemo
  <2> QED
    BY <1>9, <2>1, <2>4, RestOwed DEF Owed
<1>10. \A d, st2, fd2 :
         /\ d.todo = q /\ d.copy = c.copy /\ d.want = c.want
         /\ st2.watch = st.watch /\ st2.switch = st.switch
         /\ (st2.demo <=> c.on) /\ ~fd2.stop /\ (st2.demo <=> fd2.at # "none")
         => Owed(d, a, f, u, st2, fd2)
  BY <1>8
<1>11. ~c.on => \A d, fd2 :
         /\ d.todo = <<"leave">> \o q /\ d.copy = c.copy /\ d.want = c.want
         => Owed(d, a, f, u, st, fd2)
  BY <1>9
<1> QED
  BY <1>7, <1>10, <1>11 DEF q

\* After the demo is left.
LEMMA LeaveOwed ==
  ASSUME NEW c \in ChangeSet, c.todo # <<>>, Head(c.todo) = "leave",
         NEW a, NEW f, NEW u, NEW st, NEW fd, Owed(c, a, f, u, st, fd),
         NEW st2, NEW fd2, st2.watch = st.watch, st2.switch = st.switch, ~st2.demo,
         ~fd2.stop, fd2.at = "none"
  PROVE  Owed([c EXCEPT !.todo = Tail(c.todo)], a, f, u, st2, fd2)
<1> DEFINE d == [c EXCEPT !.todo = Tail(c.todo)]
<1>1. d.todo = Tail(c.todo) /\ d.copy = c.copy /\ d.want = c.want
  BY RestTyped
<1> HIDE DEF d
<1>2. /\ c.todo \in Plans /\ d.todo \in Plans
      /\ \A step : Ahead(c.todo, step) <=> step = Head(c.todo) \/ Ahead(d.todo, step)
      /\ \A step \in Others6 \union {"set"} : Ahead(d.todo, step) <=> Ahead(c.todo, step)
      /\ Ahead(c.todo, "leave")
  BY <1>1, InDemo DEF DemoSteps
<1>3. ~AheadDemo(d.todo)
  BY <1>1, <1>2, AheadAfter
<1>4. /\ ~Ahead(d.todo, "reread") /\ ~Ahead(d.todo, "read") /\ ~Ahead(d.todo, "demo")
      /\ ~Ahead(d.todo, "rest") /\ ~Ahead(d.todo, "leave")
  BY <1>3 DEF DemoSteps, AheadDemo
<1>5. ~DemoMode(a) /\ (Ahead(d.todo, "set") => ~a.noPower)
  BY <1>2 DEF Owed, OwesDemo
<1>6. OwesDemo(d, a, st2, fd2)
  BY <1>3, <1>4, <1>5 DEF OwesDemo
<1>7. Owed(d, a, f, u, st2, fd2)
  BY <1>1, <1>2, <1>6, RestOwed DEF Owed
<1> QED
  BY <1>7 DEF d

-----------------------------------------------------------------------------
(* What a change owes when it begins.                                        *)

\* What lies ahead in a short plan.
LEMMA AheadOf ==
  /\ \A s1, step : Ahead(<<s1>>, step) <=> step = s1
  /\ \A s1, s2, step : Ahead(<<s1, s2>>, step) <=> step \in {s1, s2}
  /\ \A s1, s2, s3, step : Ahead(<<s1, s2, s3>>, step) <=> step \in {s1, s2, s3}
  /\ \A s1, s2, s3, s4, step : Ahead(<<s1, s2, s3, s4>>, step) <=> step \in {s1, s2, s3, s4}
<1>1. \A s1, step : Ahead(<<s1>>, step) <=> step = s1
  BY DEF Ahead
<1>2. \A s1, s2, step : Ahead(<<s1, s2>>, step) <=> step \in {s1, s2}
  BY DEF Ahead
<1>3. \A s1, s2, s3, step : Ahead(<<s1, s2, s3>>, step) <=> step \in {s1, s2, s3}
  BY DEF Ahead
<1>4. \A s1, s2, s3, s4, step : Ahead(<<s1, s2, s3, s4>>, step) <=> step \in {s1, s2, s3, s4}
  BY DEF Ahead
<1> QED
  BY <1>1, <1>2, <1>3, <1>4

\* What lies ahead after each kind of change.
LEMMA AheadPlans ==
  ASSUME NEW t \in {"touch", "web"}, NEW field \in Fields
  PROVE  LET p == After(t, field) IN
         /\ field # "demo" => ~AheadDemo(p)
         /\ field = "demo" => /\ \A step \in Others6 : ~Ahead(p, step)
                              /\ AheadDemo(p) /\ ~Ahead(p, "read") /\ ~Ahead(p, "rest")
                              /\ ~Ahead(p, "leave")
                              /\ t = "web" => ~Ahead(p, "reread")
                              /\ t = "touch" => Ahead(p, "reread")
         /\ ~Ahead(p, "set")
         /\ field # "demo" => Ahead(p, "save")
         /\ field = "server" <=> Ahead(p, "server")
         /\ field = "box" => Ahead(p, "boxes")
         /\ field # "box" /\ Ahead(p, "watch") => Ahead(p, "boxes")
         /\ field = "idle" => Ahead(p, "choice")
         /\ field # "idle" => ~Ahead(p, "switch")
<1> USE DEF DemoSteps, AheadDemo, Others6
<1>1. CASE t = "touch" /\ field = "box"    BY <1>1, AheadOf DEF After
<1>2. CASE t = "touch" /\ field = "server" BY <1>2, AheadOf DEF After
<1>3. CASE t = "touch" /\ field = "idle"   BY <1>3, AheadOf DEF After
<1>4. CASE t = "touch" /\ field = "demo"   BY <1>4, AheadOf DEF After
<1>5. CASE t = "web" /\ field = "box"      BY <1>5, AheadOf DEF After
<1>6. CASE t = "web" /\ field = "server"   BY <1>6, AheadOf DEF After
<1>7. CASE t = "web" /\ field = "idle"     BY <1>7, AheadOf DEF After
<1>8. CASE t = "web" /\ field = "demo"     BY <1>8, AheadOf DEF After
<1> QED
  BY <1>1, <1>2, <1>3, <1>4, <1>5, <1>6, <1>7, <1>8 DEF Fields

\* A field is set, and the rest is to follow.
LEMMA ChangeOwed ==
  ASSUME NEW a \in AppSet, NEW f, NEW u, NEW st, NEW fd, Caught(a, f, u, st, fd), ~a.noPower,
         NEW t \in {"touch", "web"}, NEW field \in Fields, NEW v,
         NEW b \in AppSet, b = [a EXCEPT ![field] = v],
         NEW d, d.todo = After(t, field), d.copy = Part(b), t = "web" => (d.on <=> b.demo)
  PROVE  Owed(d, b, f, u, st, fd)
<1> DEFINE p == After(t, field)
<1>1. /\ field # "demo" => ~AheadDemo(p)
      /\ field = "demo" => /\ \A step \in Others6 : ~Ahead(p, step)
                           /\ AheadDemo(p) /\ ~Ahead(p, "read") /\ ~Ahead(p, "rest")
                           /\ ~Ahead(p, "leave")
                           /\ t = "web" => ~Ahead(p, "reread")
                           /\ t = "touch" => Ahead(p, "reread")
      /\ ~Ahead(p, "set")
      /\ field # "demo" => Ahead(p, "save")
      /\ field = "server" <=> Ahead(p, "server")
      /\ field = "box" => Ahead(p, "boxes")
      /\ field # "box" /\ Ahead(p, "watch") => Ahead(p, "boxes")
      /\ field = "idle" => Ahead(p, "choice")
      /\ field # "idle" => ~Ahead(p, "switch")
  BY AheadPlans
<1> HIDE DEF p
<1>2. d.todo = p
  BY DEF p
<1>3. /\ field # "server" => b.server = a.server
      /\ field # "box" => b.box = a.box
      /\ field # "idle" => b.idle = a.idle
      /\ field # "demo" => b.demo = a.demo
      /\ b.noPower = a.noPower
  BY DEF AppSet, Fields
<1>4. /\ f = Part(a) /\ u = a.server /\ st.watch = a.box /\ st.switch = SwitchOf(a.idle)
      /\ st.demo <=> DemoMode(a)
      /\ ~fd.stop /\ (st.demo <=> fd.at # "none")
  BY DEF Caught
<1>5. OwesFile(d, b, f)
  <2>1. field = "demo" => Part(b) = Part(a)
    BY <1>3 DEF Part
  <2> QED
    BY <1>1, <1>2, <1>4, <2>1 DEF OwesFile
<1>6. OwesUrl(d, b, u)
  <2>1. Part(b).server = b.server
    BY DEF Part
  <2> QED
    BY <1>1, <1>2, <1>3, <1>4, <2>1 DEF OwesUrl
<1>7. OwesWatch(d, b, st)
  BY <1>1, <1>2, <1>3, <1>4 DEF OwesWatch
<1>8. OwesSwitch(d, b, st)
  BY <1>1, <1>2, <1>3, <1>4 DEF OwesSwitch
<1>9. OwesDemo(d, b, st, fd)
  <2>1. ~b.noPower
    BY <1>3
  <2>2. CASE field # "demo"
    <3>1. ~AheadDemo(p) /\ \A step \in DemoSteps : ~Ahead(p, step)
      BY <1>1, <2>2 DEF AheadDemo
    <3>2. DemoMode(b) <=> DemoMode(a)
      BY <1>3, <2>2 DEF DemoMode
    <3> QED
      BY <1>1, <1>2, <1>4, <2>1, <3>1, <3>2 DEF OwesDemo, DemoSteps
  <2>3. CASE field = "demo"
    <3>1. DemoMode(b) <=> b.demo
      BY <2>1 DEF DemoMode
    <3>2. t = "web" \/ Ahead(p, "reread")
      BY <1>1, <2>3
    <3> QED
      BY <1>1, <1>2, <1>4, <2>1, <2>3, <3>1, <3>2 DEF OwesDemo
  <2> QED
    BY <2>2, <2>3
<1> QED
  BY <1>5, <1>6, <1>7, <1>8, <1>9 DEF Owed

\* The power mode changes, or a request comes in.
LEMMA PowerOwed ==
  ASSUME NEW a \in AppSet, NEW f, NEW u, NEW st, NEW fd, Caught(a, f, u, st, fd),
         NEW on \in BOOLEAN, NEW b \in AppSet, b = [a EXCEPT !.noPower = on],
         NEW d, \A step \in Others6 : ~Ahead(d.todo, step),
         \/ /\ a.noPower /\ ~on /\ Ahead(d.todo, "read")
            /\ \A step \in DemoSteps : Ahead(d.todo, step) => step \in {"read", "demo"}
         \/ /\ ~a.noPower /\ on /\ Ahead(d.todo, "read") /\ Ahead(d.todo, "rest")
            /\ \A step \in DemoSteps : Ahead(d.todo, step) => step \in {"read", "rest"}
            /\ ~Ahead(d.todo, "set")
         \/ ~a.noPower /\ ~on /\ \A step \in DemoSteps : ~Ahead(d.todo, step)
  PROVE  Owed(d, b, f, u, st, fd)
<1>1. /\ b.server = a.server /\ b.box = a.box /\ b.idle = a.idle /\ b.demo = a.demo
      /\ b.noPower = on
  BY DEF AppSet
<1>2. /\ f = Part(a) /\ u = a.server /\ st.watch = a.box /\ st.switch = SwitchOf(a.idle)
      /\ st.demo <=> DemoMode(a)
      /\ ~fd.stop /\ (st.demo <=> fd.at # "none")
  BY DEF Caught
<1>3. /\ ~Ahead(d.todo, "save") /\ ~Ahead(d.todo, "server") /\ ~Ahead(d.todo, "watch")
      /\ ~Ahead(d.todo, "switch")
  BY DEF Others6
<1>4. Part(b) = Part(a)
  BY <1>1 DEF Part
<1>5. OwesFile(d, b, f) /\ OwesUrl(d, b, u) /\ OwesWatch(d, b, st) /\ OwesSwitch(d, b, st)
  BY <1>1, <1>2, <1>3, <1>4 DEF OwesFile, OwesUrl, OwesWatch, OwesSwitch
<1>6. OwesDemo(d, b, st, fd)
  <2>1. st.demo => b.demo
    BY <1>1, <1>2 DEF DemoMode
  <2>2. CASE a.noPower /\ ~on /\ Ahead(d.todo, "read")
             /\ \A step \in DemoSteps : Ahead(d.todo, step) => step \in {"read", "demo"}
    <3>1. ~Ahead(d.todo, "rest") /\ ~Ahead(d.todo, "leave") /\ AheadDemo(d.todo) /\ ~b.noPower
      BY <1>1, <2>2 DEF DemoSteps, AheadDemo
    <3> QED
      BY <1>2, <2>1, <2>2, <3>1 DEF OwesDemo
  <2>3. CASE ~a.noPower /\ on /\ Ahead(d.todo, "read") /\ Ahead(d.todo, "rest")
             /\ (\A step \in DemoSteps : Ahead(d.todo, step) => step \in {"read", "rest"})
             /\ ~Ahead(d.todo, "set")
    <3>1. ~Ahead(d.todo, "reread") /\ ~Ahead(d.todo, "leave") /\ AheadDemo(d.todo) /\ b.noPower
      BY <1>1, <2>3 DEF DemoSteps, AheadDemo
    <3> QED
      BY <1>2, <2>1, <2>3, <3>1 DEF OwesDemo
  <2>4. CASE ~a.noPower /\ ~on /\ \A step \in DemoSteps : ~Ahead(d.todo, step)
    <3>1. ~AheadDemo(d.todo) /\ ~b.noPower /\ (DemoMode(b) <=> DemoMode(a))
      BY <1>1, <2>4 DEF DemoMode, AheadDemo
    <3>2. /\ ~Ahead(d.todo, "reread") /\ ~Ahead(d.todo, "read") /\ ~Ahead(d.todo, "demo")
          /\ ~Ahead(d.todo, "rest") /\ ~Ahead(d.todo, "leave")
      BY <2>4 DEF DemoSteps
    <3> QED
      BY <1>2, <3>1, <3>2 DEF OwesDemo
  <2> QED
    BY <2>2, <2>3, <2>4
<1> QED
  BY <1>5, <1>6 DEF Owed

-----------------------------------------------------------------------------
(* The invariant is kept, action by action.                                  *)

\* Without a mix-up, a thread at work is the only one, and owes the rest.
LEMMA SavesAtWork ==
  ASSUME OwedInv, ~mixed, NEW t \in Changers, ~Resting(t)
  PROVE  /\ \A v \in Changers \ {t} : Resting(v)
         /\ Owed(change[t], app, lastSave.copy, url, state, feed)
<1>1. \A v \in Changers \ {t} : Resting(v)
  BY DEF OwedInv
<1> QED
  BY <1>1 DEF OwedInv

\* With nobody at work all has been caught up with.
LEMMA AllDone ==
  ASSUME OwedInv, ~mixed, \A t \in Changers : Resting(t)
  PROVE  Caught(app, lastSave.copy, url, state, feed)
<1>1. "web" \in Changers
  BY DEF Changers
<1>2. Owed(change["web"], app, lastSave.copy, url, state, feed) /\ change["web"].todo = <<>>
  BY <1>1 DEF OwedInv, Resting
<1> QED
  BY <1>2, OwedNothing

\* The one thread at work goes on.
LEMMA Moves ==
  ASSUME OwedInv, NEW t \in Changers, ~Resting(t), mixed' = mixed,
         \A v \in Changers \ {t} : change'[v] = change[v],
         ~mixed => Owed(change'[t], app', lastSave'.copy, url', state', feed')
  PROVE  OwedInv'
<1> SUFFICES ASSUME ~mixed'
             PROVE  /\ \A v, w \in Changers : ~Resting(v)' /\ ~Resting(w)' => v = w
                    /\ \A v \in Changers : (\A w \in Changers \ {v} : Resting(w)') =>
                         Owed(change'[v], app', lastSave'.copy, url', state', feed')
  BY DEF OwedInv
<1>1. \A v \in Changers \ {t} : Resting(v)
  BY SavesAtWork
<1>2. \A v \in Changers \ {t} : Resting(v)'
  BY <1>1 DEF Resting
<1>3. Owed(change'[t], app', lastSave'.copy, url', state', feed')
  OBVIOUS
<1>4. ASSUME NEW v \in Changers, v # t, \A w \in Changers \ {v} : Resting(w)'
      PROVE  Owed(change'[v], app', lastSave'.copy, url', state', feed')
  <2>1. change'[t].todo = <<>> /\ change'[v].todo = <<>>
    BY <1>2, <1>4 DEF Resting
  <2>2. Caught(app', lastSave'.copy, url', state', feed')
    BY <1>3, <2>1, OwedNothing
  <2> QED
    BY <2>1, <2>2, OwedNothing
<1> QED
  BY <1>2, <1>3, <1>4

\* A change begins.
LEMMA BeginKeeps ==
  ASSUME SettingsTyped, OwedInv, NEW t \in Changers, NEW r \in ChangeSet, r.todo # <<>>,
         Begins(t, r),
         Caught(app, lastSave.copy, url, state, feed) => Owed(r, app', lastSave'.copy, url', state', feed')
  PROVE  OwedInv'
<1> SUFFICES ASSUME ~mixed'
             PROVE  /\ \A v, w \in Changers : ~Resting(v)' /\ ~Resting(w)' => v = w
                    /\ \A v \in Changers : (\A w \in Changers \ {v} : Resting(w)') =>
                         Owed(change'[v], app', lastSave'.copy, url', state', feed')
  BY DEF OwedInv
<1>1. ~mixed /\ \A v \in Changers : Resting(v)
  <2>1. mixed' = (mixed \/ ~NoChange)
    BY DEF Begins
  <2>2. ~(mixed \/ ~NoChange)
    BY <2>1
  <2> QED
    BY <2>2 DEF NoChange, Resting
<1>2. Owed(r, app', lastSave'.copy, url', state', feed')
  BY <1>1, AllDone
<1>3. change'[t] = r /\ \A v \in Changers \ {t} : change'[v] = change[v]
  BY OneChange DEF Begins, SettingsTyped
<1>4. \A v \in Changers : Resting(v)' <=> v # t
  BY <1>1, <1>3 DEF Resting
<1> QED
  BY <1>2, <1>3, <1>4

\* A tap on the settings page.
LEMMA TapKeeps ==
  ASSUME SettingsTyped, OwedInv, HandleSettingsTap
  PROVE  OwedInv'
<1>1. PICK field \in MayChange("touch") :
        \E v \in CASE field = "idle" -> {[app.idle EXCEPT !.on = ~@]}
                   [] field = "demo" -> {~app.demo}
                   [] OTHER -> Pair :
          /\ app' = Changed(field, v)
          /\ Begins("touch", [Nothing EXCEPT !.todo = After("touch", field), !.field = field,
                                              !.copy = Part(app')])
  BY DEF HandleSettingsTap
<1>2. "touch" \in Changers /\ field \in Fields
  BY <1>1, MayTyped DEF Changers
<1>3. PICK v : /\ app' = Changed(field, v)
               /\ Begins("touch", [Nothing EXCEPT !.todo = After("touch", field), !.field = field,
                                                   !.copy = Part(app')])
  BY <1>1
<1>4. SettingsTyped'
  BY TapStep
<1>5. app \in AppSet /\ app' \in AppSet
  BY <1>4 DEF SettingsTyped
<1>6. Part(app') \in Saved
  BY <1>5, SavedPartTyped
<1> DEFINE r == [Nothing EXCEPT !.todo = After("touch", field), !.field = field, !.copy = Part(app')]
<1>7. r \in ChangeSet /\ r.todo = After("touch", field) /\ r.todo # <<>> /\ r.copy = Part(app')
  <2>1. After("touch", field) \in Plans /\ After("touch", field) # <<>>
    BY <1>2, PlansTyped
  <2>2. r \in ChangeSet
    BY <1>2, <1>6, <2>1, FreshTyped DEF ChangeSet
  <2>3. r.todo = After("touch", field) /\ r.copy = Part(app')
    BY FreshTyped DEF ChangeSet
  <2> QED
    BY <2>1, <2>2, <2>3
<1>8. Begins("touch", r)
  BY <1>3
<1> HIDE DEF r
<1>9. ~app.noPower /\ UNCHANGED <<url, state, feed, lastSave>>
  BY DEF HandleSettingsTap, Wakes, Others
<1>10. app' = [app EXCEPT ![field] = v]
  BY <1>3 DEF Changed
<1>11. Caught(app, lastSave.copy, url, state, feed) => Owed(r, app', lastSave'.copy, url', state', feed')
  <2>1. ASSUME Caught(app, lastSave.copy, url, state, feed) PROVE Owed(r, app', lastSave.copy, url, state, feed)
    BY <1>2, <1>5, <1>7, <1>9, <1>10, <2>1, ChangeOwed
  <2> QED
    BY <1>9, <2>1
<1> QED
  BY <1>2, <1>7, <1>8, <1>11, BeginKeeps

\* A tap that wakes, and no-power mode.
LEMMA WakeKeeps ==
  ASSUME SettingsTyped, OwedInv, WakingTap \/ EnterNoPower \/ ExitNoPower
  PROVE  OwedInv'
<1> DEFINE r == [Nothing EXCEPT !.todo = WakeSteps]
           n == [Nothing EXCEPT !.todo = <<"read", "rest">>]
<1>1. /\ r \in ChangeSet /\ r.todo = <<"read", "demo">>
      /\ n \in ChangeSet /\ n.todo = <<"read", "rest">>
  <2>1. r.todo = <<"read", "demo">> /\ n.todo = <<"read", "rest">>
    BY FreshTyped DEF ChangeSet, WakeSteps
  <2> QED
    BY <2>1, WakeTyped, FreshTyped, TodoTyped
<1> HIDE DEF r, n
<1>2. /\ \A step : Ahead(r.todo, step) <=> step \in {"read", "demo"}
      /\ \A step : Ahead(n.todo, step) <=> step \in {"read", "rest"}
  BY <1>1, AheadOf
<1>3. app \in AppSet /\ r.todo # <<>> /\ n.todo # <<>>
  BY <1>1 DEF SettingsTyped
<1>4. UNCHANGED <<url, state, feed, lastSave>>
  BY DEF WakingTap, EnterNoPower, ExitNoPower, Others
<1>5. ASSUME NEW t \in Changers, app.noPower, app' = [app EXCEPT !.noPower = FALSE], Begins(t, r)
      PROVE  OwedInv'
  <2>1. ASSUME Caught(app, lastSave.copy, url, state, feed) PROVE Owed(r, app', lastSave.copy, url, state, feed)
    <3>1. app' \in AppSet
      BY <1>3, <1>5, AwakeTyped
    <3>2. \A step \in Others6 : ~Ahead(r.todo, step)
      BY <1>2 DEF Others6
    <3>3. FALSE \in BOOLEAN /\ ~FALSE
      OBVIOUS
    <3>4. Ahead(r.todo, "read") /\ \A step \in DemoSteps : Ahead(r.todo, step) => step \in {"read", "demo"}
      BY <1>2
    <3> QED
      BY <1>3, <1>5, <2>1, <3>1, <3>2, <3>3, <3>4, PowerOwed
  <2> QED
    BY <1>1, <1>3, <1>4, <1>5, <2>1, BeginKeeps
<1>6. ASSUME NEW t \in Changers, ~app.noPower, app' = [app EXCEPT !.noPower = TRUE], Begins(t, n)
      PROVE  OwedInv'
  <2>1. ASSUME Caught(app, lastSave.copy, url, state, feed) PROVE Owed(n, app', lastSave.copy, url, state, feed)
    <3>1. app' \in AppSet
      BY <1>3, <1>6, AwakeTyped
    <3>2. (\A step \in Others6 : ~Ahead(n.todo, step)) /\ ~Ahead(n.todo, "set")
      BY <1>2 DEF Others6
    <3>3. TRUE \in BOOLEAN
      OBVIOUS
    <3>4. Ahead(n.todo, "read") /\ Ahead(n.todo, "rest")
          /\ \A step \in DemoSteps : Ahead(n.todo, step) => step \in {"read", "rest"}
      BY <1>2
    <3> QED
      BY <1>3, <1>6, <2>1, <3>1, <3>2, <3>3, <3>4, PowerOwed
  <2> QED
    BY <1>1, <1>3, <1>4, <1>6, <2>1, BeginKeeps
<1>7. CASE WakingTap
  <2>1. "touch" \in Changers /\ app.noPower /\ app' = [app EXCEPT !.noPower = FALSE]
        /\ Begins("touch", r)
    BY <1>7 DEF WakingTap, Wakes, Changers, r
  <2> QED
    BY <1>5, <2>1
<1>8. CASE ExitNoPower
  <2>1. "loop" \in Changers /\ app.noPower /\ app' = [app EXCEPT !.noPower = FALSE]
        /\ Begins("loop", r)
    BY <1>8 DEF ExitNoPower, Changers, r
  <2> QED
    BY <1>5, <2>1
<1>9. CASE EnterNoPower
  <2>1. "loop" \in Changers /\ ~app.noPower /\ app' = [app EXCEPT !.noPower = TRUE]
        /\ Begins("loop", n)
    BY <1>9 DEF EnterNoPower, Changers, n
  <2> QED
    BY <1>6, <2>1
<1> QED
  BY <1>7, <1>8, <1>9

\* A change from the web page.
LEMMA ControlKeeps ==
  ASSUME SettingsTyped, OwedInv, Control
  PROVE  OwedInv'
<1> DEFINE plan == (IF Wakes THEN WakeSteps ELSE <<>>) \o <<"set">>
<1>1. PICK field \in MayChange("web") :
        \E v \in CASE field = "idle" -> {i \in FeedIdle : i.on = app.idle.on \/ i.path = app.idle.path}
                   [] field = "demo" -> BOOLEAN
                   [] OTHER -> Pair :
          Begins("web", [Nothing EXCEPT !.todo = plan,
                                        !.field = field, !.want = [Fresh EXCEPT ![field] = v]])
  BY DEF Control
<1>2. "web" \in Changers /\ field \in Fields
  BY <1>1, MayTyped DEF Changers
<1>3. PICK v \in CASE field = "idle" -> {i \in FeedIdle : i.on = app.idle.on \/ i.path = app.idle.path}
                   [] field = "demo" -> BOOLEAN
                   [] OTHER -> Pair :
          Begins("web", [Nothing EXCEPT !.todo = plan,
                                        !.field = field, !.want = [Fresh EXCEPT ![field] = v]])
  BY <1>1
<1>4. v \in ValueOf(field)
  BY <1>2, <1>3 DEF ValueOf, Fields
<1>5. app \in AppSet /\ app' = [app EXCEPT !.noPower = FALSE]
  BY DEF SettingsTyped, Control
<1>6. app' \in AppSet
  BY <1>5, AwakeTyped
<1>7. [Fresh EXCEPT ![field] = v] \in AppSet
  BY <1>2, <1>4, WantTyped
<1> DEFINE r == [Nothing EXCEPT !.todo = plan, !.field = field, !.want = [Fresh EXCEPT ![field] = v]]
<1>8. plan \in Plans
  BY WakeTyped
<1>9. Begins("web", r)
  BY <1>3
<1>10. /\ Wakes => \A step : Ahead(plan, step) <=> step \in {"read", "demo", "set"}
       /\ ~Wakes => \A step : Ahead(plan, step) <=> step = "set"
  <2>1. CASE Wakes
    <3>1. plan = WakeSteps \o <<"set">>
      BY <2>1
    <3> DEFINE w == WakeSteps \o <<"set">>
    <3>3. Len(w) = 3 /\ w[1] = "read" /\ w[2] = "demo" /\ w[3] = "set"
      BY WakeAndSet
    <3> HIDE DEF w
    <3>5. plan = w
      BY <3>1 DEF w
    <3>4. 1..Len(plan) = {1, 2, 3} /\ plan[1] = "read" /\ plan[2] = "demo" /\ plan[3] = "set"
      BY <3>3, <3>5
    <3> HIDE DEF plan
    <3> QED
      BY <2>1, <3>4 DEF Ahead
  <2>2. CASE ~Wakes
    <3>1. plan = <<>> \o <<"set">>
      BY <2>2
    <3>2. <<>> \o <<"set">> = <<"set">>
      BY ConcatProperties
    <3> QED
      BY <2>2, <3>1, <3>2, AheadOf
  <2> QED
    BY <2>1, <2>2
<1> HIDE DEF plan
<1>11. plan # <<>>
  BY <1>10, NoneAhead
<1>12. r \in ChangeSet /\ r.todo = plan
  <2>1. r \in ChangeSet
    BY <1>2, <1>7, <1>8, FreshTyped DEF ChangeSet
  <2>2. r.todo = plan
    BY FreshTyped DEF ChangeSet
  <2> QED
    BY <2>1, <2>2
<1> HIDE DEF r
<1>13. UNCHANGED <<url, state, feed, lastSave>>
  BY DEF Control, Others
<1>14. ASSUME Caught(app, lastSave.copy, url, state, feed) PROVE Owed(r, app', lastSave.copy, url, state, feed)
  <2>1. \A step \in Others6 : ~Ahead(r.todo, step)
    BY <1>10, <1>12 DEF Others6
  <2>2. FALSE \in BOOLEAN /\ ~FALSE
    OBVIOUS
  <2>3. CASE Wakes
    <3>1. app.noPower /\ Ahead(r.todo, "read")
          /\ \A step \in DemoSteps : Ahead(r.todo, step) => step \in {"read", "demo"}
      BY <1>10, <1>12, <2>3 DEF Wakes, DemoSteps
    <3> QED
      BY <1>5, <1>6, <1>14, <2>1, <2>2, <3>1, PowerOwed
  <2>4. CASE ~Wakes
    <3>1. ~app.noPower /\ \A step \in DemoSteps : ~Ahead(r.todo, step)
      BY <1>10, <1>12, <2>4 DEF Wakes, DemoSteps
    <3> QED
      BY <1>5, <1>6, <1>14, <2>1, <2>2, <3>1, PowerOwed
  <2> QED
    BY <2>3, <2>4
<1> QED
  BY <1>2, <1>9, <1>11, <1>12, <1>13, <1>14, BeginKeeps

\* The setting itself, under the lock.
LEMMA SetFieldKeeps ==
  ASSUME SettingsTyped, OwedInv, SetField
  PROVE  OwedInv'
<1> DEFINE c == change["web"]
           v == c.want[c.field]
           plan == CASE c.field = "server" /\ app.server = v -> <<"save">>
                     [] c.field = "demo" /\ app.demo = v -> <<>>
                     [] OTHER -> After("web", c.field)
           d == [c EXCEPT !.copy = Part(app'), !.on = app'.demo, !.todo = plan]
<1>1. "web" \in Changers /\ c \in ChangeSet /\ c.field \in Fields /\ c.want \in AppSet
      /\ change \in [Changers -> ChangeSet]
  BY DEF SettingsTyped, ChangeSet, Changers
<1>2. c.todo # <<>> /\ Head(c.todo) = "set"
  BY DEF SetField, Due
<1>3. app' = [app EXCEPT ![c.field] = v]
  BY DEF SetField, Changed
<1>4. SettingsTyped'
  BY SetFieldStep
<1>5. app \in AppSet /\ app' \in AppSet
  BY <1>4 DEF SettingsTyped
<1>6. UNCHANGED <<file, url, state, feed, mixed, lastSave>>
  BY DEF SetField
<1>7. change' = [change EXCEPT !["web"] = d]
  <2>1. change' = [change EXCEPT !["web"].copy = Part(app'), !["web"].on = app'.demo,
                                 !["web"].todo = plan]
    BY DEF SetField
  <2> QED
    BY <1>1, <2>1
<1>8. d.copy = Part(app') /\ d.on = app'.demo /\ d.todo = plan
  BY <1>1 DEF ChangeSet
<1>9. change'["web"] = d /\ \A t \in Changers \ {"web"} : change'[t] = change[t]
  BY <1>1, <1>7
<1> HIDE DEF d
<1>10. ~Resting("web")
  BY <1>2 DEF Resting
<1>11. ASSUME ~mixed PROVE Owed(d, app', lastSave.copy, url, state, feed)
  <2>1. Owed(c, app, lastSave.copy, url, state, feed)
    BY <1>1, <1>10, <1>11, SavesAtWork
  <2>2. \A step : Ahead(c.todo, step) <=> step = "set"
    <3>1. c.todo \in Plans
      BY <1>1 DEF ChangeSet
    <3>2. Tail(c.todo) = <<>>
      BY <1>2, <3>1, AheadAfter
    <3> QED
      BY <1>2, <3>1, <3>2, AheadOnce, NoneAhead
  <2>3. ~AheadDemo(c.todo)
    BY <2>2 DEF AheadDemo, DemoSteps
  <2>4. Caught(app, lastSave.copy, url, state, feed) /\ ~app.noPower
    BY <2>1, <2>2, <2>3 DEF Owed, OwesFile, OwesUrl, OwesWatch, OwesSwitch, OwesDemo, Caught
  <2>5. CASE c.field = "server" /\ app.server = v
    <3>1. app' = app
      BY <1>3, <1>5, <2>5 DEF AppSet
    <3>2. \A step : Ahead(d.todo, step) <=> step = "save"
      BY <1>8, <2>5, AheadOf
    <3>3. ~AheadDemo(d.todo)
      BY <3>2 DEF AheadDemo, DemoSteps
    <3> QED
      BY <1>8, <2>4, <3>1, <3>2, <3>3
      DEF Owed, OwesFile, OwesUrl, OwesWatch, OwesSwitch, OwesDemo, Caught
  <2>6. CASE c.field = "demo" /\ app.demo = v
    <3>1. app' = app
      BY <1>3, <1>5, <2>6 DEF AppSet
    <3>2. d.todo = <<>>
      BY <1>8, <2>6
    <3> QED
      BY <2>4, <3>1, <3>2, OwedNothing
  <2>7. CASE ~(c.field = "server" /\ app.server = v) /\ ~(c.field = "demo" /\ app.demo = v)
    <3>1. d.todo = After("web", c.field)
      BY <1>8, <2>7
    <3>2. d.on <=> app'.demo
      BY <1>8
    <3> QED
      BY <1>1, <1>3, <1>5, <1>8, <2>4, <3>1, <3>2, ChangeOwed
  <2> QED
    BY <2>5, <2>6, <2>7
<1> QED
  BY <1>1, <1>6, <1>9, <1>10, <1>11, Moves

\* The first of the plan is done and nothing is noted.
LEMMA DoneKeeps ==
  ASSUME SettingsTyped, OwedInv, NEW t \in Changers, change[t].todo # <<>>, mixed' = mixed,
         StepDone(t),
         Owed(change[t], app, lastSave.copy, url, state, feed) =>
           Owed([change[t] EXCEPT !.todo = Tail(change[t].todo)], app', lastSave'.copy, url', state', feed')
  PROVE  OwedInv'
<1>1. change \in [Changers -> ChangeSet] /\ change[t] \in ChangeSet /\ Tail(change[t].todo) \in Plans
  BY DueTyped DEF SettingsTyped
<1> DEFINE q == Tail(change[t].todo)
           r == IF q = <<>> THEN Nothing ELSE [change[t] EXCEPT !.todo = q]
<1>2. change'[t] = r /\ \A v \in Changers \ {t} : change'[v] = change[v]
  BY <1>1, LeftTyped DEF StepDone
<1>3. ~Resting(t)
  BY DEF Resting
<1>4. ~mixed => Owed(r, app', lastSave'.copy, url', state', feed')
  BY <1>1, <1>3, SavesAtWork, OwedLeft
<1> HIDE DEF r
<1> QED
  BY <1>2, <1>3, <1>4, Moves

\* Something is noted.
LEMMA NotedKeeps ==
  ASSUME SettingsTyped, OwedInv, NEW t \in Changers, change[t].todo # <<>>, mixed' = mixed,
         NEW d, change' = [change EXCEPT ![t] = d],
         Owed(change[t], app, lastSave.copy, url, state, feed) => Owed(d, app', lastSave'.copy, url', state', feed')
  PROVE  OwedInv'
<1>1. change'[t] = d /\ \A v \in Changers \ {t} : change'[v] = change[v]
  BY DEF SettingsTyped
<1>2. ~Resting(t)
  BY DEF Resting
<1>3. ~mixed => Owed(d, app', lastSave'.copy, url', state', feed')
  BY <1>2, SavesAtWork
<1> QED
  BY <1>1, <1>2, <1>3, Moves

\* The file and the client.
LEMMA SavingKeeps ==
  ASSUME SettingsTyped, OwedInv, NEW t \in Changers, change[t].todo # <<>>,
         Save(t) \/ SetServer(t) \/ Reconnect(t)
  PROVE  OwedInv'
<1>1. change[t] \in ChangeSet /\ state \in StateSet
  BY DEF SettingsTyped
<1>2. CASE Save(t)
  <2>1. PICK missed \in BOOLEAN : lastSave' = [copy |-> change[t].copy, failed |-> missed]
    BY <1>2 DEF Save
  <2>2. lastSave'.copy = change[t].copy /\ UNCHANGED <<app, url, state, feed, mixed>> /\ StepDone(t)
        /\ Head(change[t].todo) = "save"
    BY <1>2, <2>1 DEF Save, Due
  <2>3. Owed(change[t], app, lastSave.copy, url, state, feed) =>
          Owed([change[t] EXCEPT !.todo = Tail(change[t].todo)], app, lastSave'.copy, url, state, feed)
    BY <1>1, <2>2, SaveOwed
  <2> QED
    BY <2>2, <2>3, DoneKeeps
<1>3. CASE SetServer(t)
  <2>1. state'.watch = state.watch /\ state'.switch = state.switch /\ state'.demo = state.demo
    BY <1>1, <1>3 DEF SetServer, StateSet
  <2>2. Owed(change[t], app, lastSave.copy, url, state, feed) =>
          Owed([change[t] EXCEPT !.todo = Tail(change[t].todo)], app, lastSave.copy, change[t].copy.server,
               state', feed)
    BY <1>1, <1>3, <2>1, ServerOwed DEF SetServer, Due
  <2> QED
    BY <1>3, <2>2, DoneKeeps DEF SetServer
<1>4. CASE Reconnect(t)
  <2>1. state'.watch = state.watch /\ state'.switch = state.switch /\ state'.demo = state.demo
    BY <1>1, <1>4 DEF Reconnect, StateSet
  <2>2. Owed(change[t], app, lastSave.copy, url, state, feed) =>
          Owed([change[t] EXCEPT !.todo = Tail(change[t].todo)], app, lastSave.copy, url, state', feed)
    BY <1>1, <1>4, <2>1, ReconnectOwed DEF Reconnect, Due
  <2> QED
    BY <1>4, <2>2, DoneKeeps DEF Reconnect
<1> QED
  BY <1>2, <1>3, <1>4

\* The watched paths and the switch.
LEMMA WatchKeeps ==
  ASSUME SettingsTyped, OwedInv, NEW t \in Changers, change[t].todo # <<>>,
         SyncWatch(t) \/ ApplyIdle(t)
  PROVE  OwedInv'
<1> DEFINE c == change[t]
           q == Tail(c.todo)
<1>1. c \in ChangeSet /\ state \in StateSet /\ change \in [Changers -> ChangeSet]
      /\ c.want \in AppSet
  BY DEF SettingsTyped, ChangeSet
<1>2. CASE /\ Due(t, "boxes") /\ UNCHANGED <<app, file, url, state, feed, msg, mixed, lastSave>>
           /\ change' = [change EXCEPT ![t].todo = q, ![t].want.box = app.box]
  <2> DEFINE d == [c EXCEPT !.todo = q, !.want.box = app.box]
  <2>1. change' = [change EXCEPT ![t] = d]
    BY <1>1, <1>2
  <2>2. /\ d.todo = q /\ d.copy = c.copy /\ d.on = c.on
        /\ d.want.idle = c.want.idle /\ d.want.box = app.box
    BY <1>1 DEF ChangeSet, AppSet
  <2> HIDE DEF d
  <2>3. Head(c.todo) = "boxes"
    BY <1>2 DEF Due
  <2>4. Owed(c, app, lastSave.copy, url, state, feed) => Owed(d, app, lastSave.copy, url, state, feed)
    BY <1>1, <2>2, <2>3, BoxesOwed
  <2> QED
    BY <1>2, <2>1, <2>4, NotedKeeps
<1>3. CASE /\ Due(t, "choice") /\ UNCHANGED <<app, file, url, state, feed, msg, mixed, lastSave>>
           /\ change' = [change EXCEPT ![t].todo = q, ![t].want.idle = app.idle]
  <2> DEFINE d == [c EXCEPT !.todo = q, !.want.idle = app.idle]
  <2>1. change' = [change EXCEPT ![t] = d]
    BY <1>1, <1>3
  <2>2. /\ d.todo = q /\ d.copy = c.copy /\ d.on = c.on
        /\ d.want.box = c.want.box /\ d.want.idle = app.idle
    BY <1>1 DEF ChangeSet, AppSet
  <2> HIDE DEF d
  <2>3. Head(c.todo) = "choice"
    BY <1>3 DEF Due
  <2>4. Owed(c, app, lastSave.copy, url, state, feed) => Owed(d, app, lastSave.copy, url, state, feed)
    BY <1>1, <2>2, <2>3, ChoiceOwed
  <2> QED
    BY <1>3, <2>1, <2>4, NotedKeeps
<1>4. CASE /\ Due(t, "watch") /\ StepDone(t) /\ UNCHANGED <<app, file, url, feed, msg, mixed, lastSave>>
           /\ state' = [state EXCEPT !.watch = c.want.box]
  <2>1. state'.watch = c.want.box /\ state'.switch = state.switch /\ state'.demo = state.demo
    BY <1>1, <1>4 DEF StateSet
  <2>2. Owed(c, app, lastSave.copy, url, state, feed) =>
          Owed([c EXCEPT !.todo = q], app, lastSave.copy, url, state', feed)
    BY <1>1, <1>4, <2>1, WatchOwed DEF Due
  <2> QED
    BY <1>4, <2>2, DoneKeeps
<1>5. CASE /\ Due(t, "switch") /\ StepDone(t) /\ UNCHANGED <<app, file, url, feed, msg, mixed, lastSave>>
           /\ state' = [state EXCEPT !.switch = SwitchOf(c.want.idle)]
  <2>1. state'.switch = SwitchOf(c.want.idle) /\ state'.watch = state.watch /\ state'.demo = state.demo
    BY <1>1, <1>5 DEF StateSet
  <2>2. Owed(c, app, lastSave.copy, url, state, feed) =>
          Owed([c EXCEPT !.todo = q], app, lastSave.copy, url, state', feed)
    BY <1>1, <1>5, <2>1, SwitchOwed DEF Due
  <2> QED
    BY <1>5, <2>2, DoneKeeps
<1>6. (/\ Due(t, "boxes") /\ UNCHANGED <<app, file, url, state, feed, msg, mixed, lastSave>>
       /\ change' = [change EXCEPT ![t].todo = q, ![t].want.box = app.box])
      \/ (/\ Due(t, "choice") /\ UNCHANGED <<app, file, url, state, feed, msg, mixed, lastSave>>
          /\ change' = [change EXCEPT ![t].todo = q, ![t].want.idle = app.idle])
      \/ (/\ Due(t, "watch") /\ StepDone(t) /\ UNCHANGED <<app, file, url, feed, msg, mixed, lastSave>>
          /\ state' = [state EXCEPT !.watch = c.want.box])
      \/ (/\ Due(t, "switch") /\ StepDone(t) /\ UNCHANGED <<app, file, url, feed, msg, mixed, lastSave>>
          /\ state' = [state EXCEPT !.switch = SwitchOf(c.want.idle)])
  BY Zenon DEF SyncWatch, ApplyIdle
<1> QED
  BY <1>2, <1>3, <1>4, <1>5, <1>6

\* The look at the demo setting.
LEMMA ReadKeeps ==
  ASSUME SettingsTyped, OwedInv, NEW t \in Changers, change[t].todo # <<>>, ReadDemo(t)
  PROVE  OwedInv'
<1> DEFINE c == change[t]
           q == Tail(c.todo)
<1>1. c \in ChangeSet /\ change \in [Changers -> ChangeSet]
  BY DEF SettingsTyped
<1>2. UNCHANGED <<app, file, url, state, feed, mixed, lastSave>>
  BY DEF ReadDemo
<1>3. CASE Due(t, "reread")
  <2>1. ~Due(t, "read") /\ Head(c.todo) = "reread"
    BY <1>3 DEF Due
  <2> DEFINE d == [c EXCEPT !.todo = q, !.on = app.demo]
  <2>2. change' = [change EXCEPT ![t] = d]
    <3>1. change' = [change EXCEPT ![t].todo = q, ![t].on = app.demo]
      BY <2>1 DEF ReadDemo
    <3> QED
      BY <1>1, <3>1
  <2>3. d.todo = q /\ d.copy = c.copy /\ d.want = c.want /\ d.on = app.demo
    BY <1>1 DEF ChangeSet
  <2> HIDE DEF d
  <2>4. d.on <=> app.demo
    BY <2>3
  <2>5. Owed(c, app, lastSave.copy, url, state, feed) => Owed(d, app, lastSave.copy, url, state, feed)
    BY <1>1, <2>1, <2>3, <2>4, RereadOwed
  <2> QED
    BY <1>2, <2>2, <2>5, NotedKeeps
<1>4. CASE Due(t, "read") /\ app.demo
  <2>1. ~Due(t, "reread") /\ Head(c.todo) = "read"
    BY <1>4 DEF Due
  <2> DEFINE b == c.todo[2] = "demo"
             d == [c EXCEPT !.todo = q, !.on = b]
  <2>2. change' = [change EXCEPT ![t] = d]
    <3>1. change' = [change EXCEPT ![t].todo = q, ![t].on = b]
      BY <1>4, <2>1 DEF ReadDemo
    <3> HIDE DEF b
    <3> QED
      BY <1>1, <3>1
  <2>3. d.todo = q /\ d.copy = c.copy /\ d.want = c.want /\ d.on = b
    <3> HIDE DEF b
    <3> QED
      BY <1>1 DEF ChangeSet
  <2> HIDE DEF d
  <2>4. d.on <=> c.todo[2] = "demo"
    BY <2>3
  <2>5. Owed(c, app, lastSave.copy, url, state, feed) => Owed(d, app, lastSave.copy, url, state, feed)
    BY <1>1, <1>4, <2>1, <2>3, <2>4, ReadOwed
  <2> QED
    BY <1>2, <2>2, <2>5, NotedKeeps
<1>5. CASE Due(t, "read") /\ ~app.demo
  <2>1. ~Due(t, "reread") /\ Head(c.todo) = "read"
    BY <1>5 DEF Due
  <2>2. Left(t, Tail(q))
    BY <1>5, <2>1 DEF ReadDemo
  <2>3. Tail(q) \in Plans
    <3>1. q \in Plans /\ q # <<>>
      BY <1>1, <2>1, TailIsPlan, AheadAfter DEF ChangeSet
    <3> QED
      BY <3>1, TailIsPlan
  <2> DEFINE r == IF Tail(q) = <<>> THEN Nothing ELSE [c EXCEPT !.todo = Tail(q)]
  <2>4. change'[t] = r /\ \A v \in Changers \ {t} : change'[v] = change[v]
    BY <1>1, <2>2, <2>3, LeftTyped
  <2>5. Owed(c, app, lastSave.copy, url, state, feed) => Owed(r, app, lastSave.copy, url, state, feed)
    BY <1>1, <1>5, <2>1, <2>3, ReadOwed, OwedLeft
  <2> HIDE DEF r
  <2>6. ~Resting(t)
    BY DEF Resting
  <2>7. ~mixed => Owed(r, app, lastSave.copy, url, state, feed)
    BY <2>5, <2>6, SavesAtWork
  <2> QED
    BY <1>2, <2>4, <2>6, <2>7, Moves
<1> QED
  BY <1>3, <1>4, <1>5 DEF ReadDemo

\* The demo itself.
LEMMA SetDemoKeeps ==
  ASSUME SettingsTyped, OwedInv, NEW t \in Changers, change[t].todo # <<>>,
         SetDemoOn(t) \/ SetDemoOff(t) \/ LeaveDemo(t)
  PROVE  OwedInv'
<1> DEFINE c == change[t]
           q == Tail(c.todo)
<1>1. c \in ChangeSet /\ change \in [Changers -> ChangeSet] /\ state \in StateSet /\ feed \in FeedSet
  BY DEF SettingsTyped
<1> DEFINE e == [c EXCEPT !.todo = q]
<1>2. e.todo = q /\ e.copy = c.copy /\ e.want = c.want
  BY <1>1, RestTyped
<1> HIDE DEF e
<1>3. CASE SetDemoOn(t)
  <2>1. Head(c.todo) \in {"demo", "rest"} /\ c.on
    BY <1>3 DEF SetDemoOn, Due2, Due
  <2>2. ASSUME Owed(c, app, lastSave.copy, url, state, feed)
        PROVE  Owed(e, app, lastSave.copy, url, state', feed')
    <3>1. ~feed.stop /\ (state.demo <=> feed.at # "none")
      BY <1>1, <2>1, <2>2, SetDemoOwed
    <3>2. state'.watch = state.watch /\ state'.switch = state.switch
      BY <1>1, <1>3 DEF SetDemoOn, StateSet
    <3>3. state'.demo /\ ~feed'.stop /\ feed'.at # "none"
      BY <1>1, <1>3, <3>1 DEF SetDemoOn, StateSet, FeedSet
    <3> QED
      BY <1>1, <1>2, <2>1, <2>2, <3>2, <3>3, SetDemoOwed
  <2> QED
    BY <1>3, <2>2, DoneKeeps DEF SetDemoOn, e
<1>4. CASE SetDemoOff(t) /\ feed.at = "none"
  <2>1. Head(c.todo) \in {"demo", "rest"} /\ ~c.on /\ StepDone(t)
        /\ UNCHANGED <<app, file, url, state, feed, mixed, lastSave>>
    BY <1>4 DEF SetDemoOff, Due2, Due
  <2>2. ASSUME Owed(c, app, lastSave.copy, url, state, feed)
        PROVE  Owed(e, app, lastSave.copy, url, state, feed)
    <3>1. ~feed.stop /\ (state.demo <=> feed.at # "none")
      BY <1>1, <2>1, <2>2, SetDemoOwed
    <3>2. ~state.demo
      BY <1>4, <3>1
    <3> QED
      BY <1>1, <1>2, <2>1, <2>2, <3>1, <3>2, SetDemoOwed
  <2> QED
    BY <2>1, <2>2, DoneKeeps DEF e
<1>5. CASE SetDemoOff(t) /\ feed.at # "none"
  <2>1. Head(c.todo) \in {"demo", "rest"} /\ ~c.on /\ UNCHANGED <<app, file, url, state, mixed, lastSave>>
        /\ change' = [change EXCEPT ![t].todo = <<"leave">> \o q]
    BY <1>5 DEF SetDemoOff, Due2, Due
  <2> DEFINE d == [c EXCEPT !.todo = <<"leave">> \o q]
  <2>2. change' = [change EXCEPT ![t] = d]
    BY <1>1, <2>1
  <2>3. d.todo = <<"leave">> \o q /\ d.copy = c.copy /\ d.want = c.want
    BY <1>1 DEF ChangeSet
  <2> HIDE DEF d
  <2>4. Owed(c, app, lastSave.copy, url, state, feed) => Owed(d, app, lastSave.copy, url, state, feed')
    BY <1>1, <2>1, <2>3, SetDemoOwed
  <2> QED
    BY <2>1, <2>2, <2>4, NotedKeeps
<1>6. CASE LeaveDemo(t)
  <2>1. Head(c.todo) = "leave" /\ StepDone(t) /\ UNCHANGED <<app, file, url, mixed, lastSave>>
    BY <1>6 DEF LeaveDemo, Due
  <2>2. state'.watch = state.watch /\ state'.switch = state.switch /\ ~state'.demo
    BY <1>1, <1>6 DEF LeaveDemo, StateSet
  <2>3. ~feed'.stop /\ feed'.at = "none"
    BY <1>1, <1>6 DEF LeaveDemo, FeedSet
  <2>4. Owed(c, app, lastSave.copy, url, state, feed) => Owed(e, app, lastSave.copy, url, state', feed')
    BY <1>1, <2>1, <2>2, <2>3, LeaveOwed DEF e
  <2> QED
    BY <2>1, <2>4, DoneKeeps DEF e
<1> QED
  BY <1>3, <1>4, <1>5, <1>6

\* The feed ticks or ends, or a message is taken: no change goes on.
LEMMA OutsideKeeps ==
  ASSUME SettingsTyped, OwedInv, UNCHANGED <<app, file, url, change, mixed, lastSave>>,
         FeedDemo \/ FeedEnds \/ (Handle /\ feed' = feed)
  PROVE  OwedInv'
<1>1. state \in StateSet /\ feed \in FeedSet
  BY DEF SettingsTyped
<1>2. state'.watch = state.watch /\ state'.switch = state.switch /\ state'.demo = state.demo
  BY <1>1 DEF FeedDemo, FeedEnds, Handle, StateSet
<1>3. FeedEnds \/ (feed'.stop = feed.stop /\ (feed'.at # "none" <=> feed.at # "none"))
  BY <1>1 DEF FeedDemo, Handle, FeedSet
<1>4. FeedEnds => feed.stop
  BY DEF FeedEnds
<1>5. ASSUME NEW c, Owed(c, app, lastSave.copy, url, state, feed)
      PROVE  Owed(c, app, lastSave.copy, url, state', feed')
  <2>1. OwesFile(c, app, lastSave.copy) /\ OwesUrl(c, app, url) /\ OwesWatch(c, app, state')
        /\ OwesSwitch(c, app, state')
    BY <1>2, <1>5 DEF Owed, OwesWatch, OwesSwitch
  <2>2. ~Ahead(c.todo, "leave") => ~feed'.stop /\ (state'.demo <=> feed'.at # "none")
    BY <1>2, <1>3, <1>4, <1>5 DEF Owed, OwesDemo
  <2>3. OwesDemo(c, app, state', feed')
    BY <1>2, <1>5, <2>2 DEF Owed, OwesDemo
  <2> QED
    BY <2>1, <2>3 DEF Owed
<1>6. \A t \in Changers : Resting(t)' <=> Resting(t)
  BY DEF Resting
<1> QED
  BY <1>5, <1>6 DEF OwedInv

\* A restart begins with everything caught up with.
LEMMA BootKeeps ==
  ASSUME SettingsTyped, RestartApp
  PROVE  OwedInv'
<1>1. file \in Saved
  BY DEF SettingsTyped
<1>2. /\ lastSave'.copy = Part(app') /\ url' = app'.server /\ state'.watch = app'.box
      /\ state'.switch = SwitchOf(app'.idle) /\ ~state'.demo /\ ~app'.demo
      /\ ~feed'.stop /\ feed'.at = "none"
  BY <1>1 DEF RestartApp, Boots, Part, Saved
<1>3. Caught(app', lastSave'.copy, url', state', feed')
  BY <1>2 DEF Caught, DemoMode
<1>4. \A t \in Changers : change'[t].todo = <<>>
  BY FreshTyped DEF RestartApp, Boots
<1>5. \A t \in Changers : Owed(change'[t], app', lastSave'.copy, url', state', feed')
  BY <1>3, <1>4, OwedNothing
<1>6. \A t \in Changers : Resting(t)'
  BY <1>4 DEF Resting
<1> QED
  BY <1>5, <1>6 DEF OwedInv

\* Every step keeps it that what is behind is owed.
LEMMA OwedStep ==
  ASSUME SettingsTyped, OwedInv, [SettingsNext]_settingsVars
  PROVE  OwedInv'
<1>1. CASE HandleSettingsTap
  BY <1>1, TapKeeps
<1>2. CASE WakingTap \/ EnterNoPower \/ ExitNoPower
  BY <1>2, WakeKeeps
<1>3. CASE Control
  BY <1>3, ControlKeeps
<1>4. CASE SetField
  BY <1>4, SetFieldKeeps
<1>5. ASSUME NEW t \in Changers, change[t].todo # <<>>, ChangeSteps(t)
      PROVE  OwedInv'
  BY <1>5, SavingKeeps, WatchKeeps, ReadKeeps, SetDemoKeeps DEF ChangeSteps
<1>6. CASE \/ (FeedDemo \/ FeedEnds) /\ UNCHANGED <<app, file, url, msg, change, mixed, lastSave>>
           \/ Handle /\ UNCHANGED <<app, file, url, feed, change, mixed, lastSave>>
  BY <1>6, OutsideKeeps
<1>7. CASE RestartApp
  BY <1>7, BootKeeps
<1>8. CASE UNCHANGED settingsVars
  BY <1>8 DEF OwedInv, Resting, settingsVars
<1> QED
  BY <1>1, <1>2, <1>3, <1>4, <1>5, <1>6, <1>7, <1>8 DEF SettingsNext

\* Nothing is behind at the start.
LEMMA OwedAtFirst == SettingsInit => OwedInv
<1> SUFFICES ASSUME SettingsInit PROVE OwedInv
  OBVIOUS
<1>1. Caught(app, lastSave.copy, url, state, feed)
  <2>1. /\ lastSave.copy = Part(app) /\ url = app.server /\ state.watch = app.box
        /\ state.switch = SwitchOf(app.idle) /\ ~state.demo /\ ~app.demo
        /\ ~feed.stop /\ feed.at = "none"
    BY DEF SettingsInit, Fresh, SwitchOf
  <2> QED
    BY <2>1 DEF Caught, DemoMode
<1>2. \A t \in Changers : change[t].todo = <<>>
  BY FreshTyped DEF SettingsInit
<1>3. \A t \in Changers : Owed(change[t], app, lastSave.copy, url, state, feed)
  BY <1>1, <1>2, OwedNothing
<1> QED
  BY <1>2, <1>3 DEF OwedInv, Resting

\* Whatever may overlap: once the changes made one at a time are done, every setting as it
\* is has been given to be saved, and is in the file unless that last save failed; and
\* the client, the watched paths, the switch and the demo's feed follow, on whichever thread each was made and wherever the program was restarted (App.SetBox,
\* SetServer, SetIdleSwitch, SetDemoMode, handleSettingsTap, powerTick).
THEOREM SettingsAreSaved == SettingsSpec => []SavedIsCurrent
<1>1. SettingsTyped /\ OwedInv /\ [SettingsNext]_settingsVars => OwedInv'
  BY OwedStep
<1>2. SettingsTyped /\ OwedInv => SavedIsCurrent
  <2> SUFFICES ASSUME SettingsTyped, OwedInv PROVE SavedIsCurrent
    OBVIOUS
  <2>1. ASSUME NoChange, ~mixed
        PROVE  /\ lastSave.copy = Part(app) /\ url = app.server /\ state.watch = app.box
               /\ state.switch = SwitchOf(app.idle)
               /\ (state.demo <=> app.demo /\ ~app.noPower) /\ (state.demo <=> feed.at # "none")
    <3>1. Caught(app, lastSave.copy, url, state, feed)
      BY <2>1, AllDone DEF NoChange, Resting
    <3> QED
      BY <3>1 DEF Caught, DemoMode
  <2>2. state.demo \in BOOLEAN /\ app.demo \in BOOLEAN /\ app.noPower \in BOOLEAN
    BY DEF SettingsTyped, StateSet, AppSet
  <2>3. ASSUME NoChange, ~mixed
        PROVE  state.demo = (app.demo /\ ~app.noPower) /\ state.demo = (feed.at # "none")
    BY <2>1, <2>2, <2>3, Zenon
  <2>4. FileIsCurrent
    BY <2>1 DEF FileIsCurrent, SettingsTyped
  <2>5. OthersFollow
    BY <2>1, <2>3 DEF OthersFollow
  <2> QED
    BY <2>4, <2>5, TypedIsTypeOK DEF SavedIsCurrent
<1> QED
  BY <1>1, <1>2, OwedAtFirst, SettingsStayTyped, PTL DEF SettingsSpec

-----------------------------------------------------------------------------
(* PaperSleep: what each thread's work has still to put right.               *)

Steps == {"flag", "set", "record", "call"}
Jobs == Job \cup {NoJob}

\* Work is not the lack of it.
LEMMA JobsDiffer ==
  ASSUME NEW j \in Job
  PROVE  j # NoJob
  BY DEF Job, NoJob

\* The types in the form the lemmas below use.
LEMMA SleepTyped ==
  ASSUME TypeOK
  PROVE  /\ \A t \in Threads : job[t] \in Jobs /\ (job[t] # NoJob => job[t] \in Job)
         /\ job \in [Threads -> Jobs]
         /\ asleep \in SUBSET Modes /\ todo \in SUBSET Modes /\ told \in SUBSET Modes
         /\ lightLevel \in Levels /\ lightBefore \in Levels /\ light \in Levels
         /\ 0 \in Levels
<1>1. 0 \in Levels
  BY SleepAssumption DEF Levels
<1> QED
  BY <1>1 DEF TypeOK, Jobs

\* A job in Job at a step other than its own.
LEMMA GoGives ==
  ASSUME TypeOK, NEW t \in Threads, job[t] \in Job, NEW s \in Steps, Go(t, s)
  PROVE  /\ job' \in [Threads -> Jobs] /\ job'[t] \in Job
         /\ job'[t].do = job[t].do /\ job'[t].mode = job[t].mode /\ job'[t].level = job[t].level
         /\ job'[t].step = s
         /\ \A u \in Threads : u # t => job'[u] = job[u]
<1> DEFINE k == [job[t] EXCEPT !.step = s]
<1>1. k \in Job /\ k.do = job[t].do /\ k.mode = job[t].mode /\ k.level = job[t].level /\ k.step = s
  BY DEF Job, Steps
<1>2. job \in [Threads -> Jobs]
  BY SleepTyped
<1>3. job' = [job EXCEPT ![t] = k]
  BY DEF Go
<1> HIDE DEF k
<1> QED
  BY <1>1, <1>2, <1>3 DEF Jobs

\* A job done.
LEMMA DoneGives ==
  ASSUME TypeOK, NEW t \in Threads, Done(t)
  PROVE  /\ job' \in [Threads -> Jobs] /\ job'[t] = NoJob
         /\ \A u \in Threads : u # t => job'[u] = job[u]
<1>1. job \in [Threads -> Jobs]
  BY SleepTyped
<1> HIDE DEF NoJob
<1> QED
  BY <1>1 DEF Done, Jobs

\* A job given to a thread.
LEMMA GivenJob ==
  ASSUME TypeOK, NEW t \in Threads, NEW d \in {"enter", "exit", "brighten"}, NEW m \in Modes,
         NEW s \in Steps, NEW n \in Levels,
         job' = [job EXCEPT ![t] = [do |-> d, mode |-> m, step |-> s, level |-> n]]
  PROVE  /\ job' \in [Threads -> Jobs] /\ job'[t] \in Job
         /\ job'[t].do = d /\ job'[t].mode = m /\ job'[t].step = s /\ job'[t].level = n
         /\ \A u \in Threads : u # t => job'[u] = job[u]
<1> DEFINE k == [do |-> d, mode |-> m, step |-> s, level |-> n]
<1>1. k \in Job /\ k.do = d /\ k.mode = m /\ k.level = n /\ k.step = s
  BY DEF Job, Steps
<1>2. job \in [Threads -> Jobs]
  BY SleepTyped
<1>3. job' = [job EXCEPT ![t] = k]
  OBVIOUS
<1> HIDE DEF k
<1> QED
  BY <1>1, <1>2, <1>3 DEF Jobs

\* A mode to be entered or left.
LEMMA StartGives ==
  ASSUME TypeOK, NEW t \in Threads, NEW d \in {"enter", "exit"}, NEW m \in Modes, Start(t, d, m)
  PROVE  /\ job' \in [Threads -> Jobs] /\ job'[t] \in Job
         /\ job'[t].do = d /\ job'[t].mode = m /\ job'[t].step = "flag" /\ job'[t].level = 0
         /\ \A u \in Threads : u # t => job'[u] = job[u]
<1>1. 0 \in Levels /\ "flag" \in Steps /\ d \in {"enter", "exit", "brighten"}
  BY SleepTyped DEF Steps
<1> QED
  BY <1>1, GivenJob DEF Start

\* The light to put back.
LEMMA LevelBackTyped ==
  ASSUME TypeOK, NEW m
  PROVE  LevelBack(m) \in Levels
  BY SleepTyped DEF LevelBack

\* What a step of a thread does to its job, and to the modes.
LEMMA EnterFlagGives ==
  ASSUME TypeOK, NEW t \in Threads, EnterFlag(t)
  PROVE  /\ job' \in [Threads -> Jobs] /\ job[t] \in Job /\ job[t].do = "enter" /\ job[t].step = "flag"
         /\ \A u \in Threads : u # t => job'[u] = job[u]
         /\ UNCHANGED <<lightLevel, light, told, todo, want, chosen, clash>>
         /\ \/ /\ job[t].mode \in asleep /\ job'[t] = NoJob /\ UNCHANGED <<asleep, lightBefore>>
            \/ /\ job[t].mode \notin asleep /\ asleep' = asleep \cup {job[t].mode}
               /\ lightBefore' = IF lightLevel > 0 THEN lightLevel ELSE lightBefore
               /\ job'[t] \in Job /\ job'[t].do = "enter" /\ job'[t].mode = job[t].mode
               /\ job'[t].level = job[t].level
               /\ job'[t].step = IF lightLevel > 0 THEN "set" ELSE "call"
<1>1. job[t].do = "enter" /\ job[t].step = "flag"
  BY DEF EnterFlag
<1>2. job[t] \in Job
  <2>1. job[t] # NoJob
    BY <1>1 DEF NoJob
  <2> QED
    BY <2>1, SleepTyped
<1>3. UNCHANGED <<lightLevel, light, told, todo, want, chosen, clash>>
  BY DEF EnterFlag, hand
<1>4. CASE job[t].mode \in asleep
  <2>1. Done(t) /\ UNCHANGED <<asleep, lightBefore>>
    BY <1>4 DEF EnterFlag
  <2> QED
    BY <1>1, <1>2, <1>3, <1>4, <2>1, DoneGives
<1>5. CASE job[t].mode \notin asleep
  <2>1. /\ asleep' = asleep \cup {job[t].mode}
        /\ lightBefore' = IF lightLevel > 0 THEN lightLevel ELSE lightBefore
        /\ Go(t, IF lightLevel > 0 THEN "set" ELSE "call")
    BY <1>5 DEF EnterFlag
  <2>2. (IF lightLevel > 0 THEN "set" ELSE "call") \in Steps
    BY DEF Steps
  <2> QED
    BY <1>1, <1>2, <1>3, <1>5, <2>1, <2>2, GoGives
<1> QED
  BY <1>4, <1>5

\* The way out of a mode.
LEMMA ExitFlagGives ==
  ASSUME TypeOK, NEW t \in Threads, ExitFlag(t)
  PROVE  /\ job' \in [Threads -> Jobs] /\ job[t] \in Job /\ job[t].do = "exit" /\ job[t].step = "flag"
         /\ \A u \in Threads : u # t => job'[u] = job[u]
         /\ UNCHANGED <<lightLevel, light, told, todo, want, chosen, clash>>
         /\ \/ /\ job[t].mode \notin asleep /\ job'[t] = NoJob /\ UNCHANGED <<asleep, lightBefore>>
            \/ /\ job[t].mode \in asleep /\ asleep' = asleep \ {job[t].mode}
               /\ lightBefore' = IF Other(job[t].mode) \in asleep THEN lightBefore ELSE 0
               /\ job'[t] \in Job /\ job'[t].do = "exit" /\ job'[t].mode = job[t].mode
               /\ job'[t].level = LevelBack(job[t].mode)
               /\ job'[t].step = IF LevelBack(job[t].mode) > 0 THEN "set" ELSE "call"
<1>1. job[t].do = "exit" /\ job[t].step = "flag"
  BY DEF ExitFlag
<1>2. job[t] \in Job
  <2>1. job[t] # NoJob
    BY <1>1 DEF NoJob
  <2> QED
    BY <2>1, SleepTyped
<1>3. UNCHANGED <<lightLevel, light, told, todo, want, chosen, clash>>
  BY DEF ExitFlag, hand
<1>4. CASE job[t].mode \notin asleep
  <2>1. Done(t) /\ UNCHANGED <<asleep, lightBefore>>
    BY <1>4 DEF ExitFlag
  <2> QED
    BY <1>1, <1>2, <1>3, <1>4, <2>1, DoneGives
<1>5. CASE job[t].mode \in asleep
  <2> DEFINE back == LevelBack(job[t].mode)
             s == IF back > 0 THEN "set" ELSE "call"
             k == [job[t] EXCEPT !.level = back, !.step = s]
  <2>1. /\ asleep' = asleep \ {job[t].mode}
        /\ lightBefore' = IF Other(job[t].mode) \in asleep THEN lightBefore ELSE 0
        /\ job' = [job EXCEPT ![t].level = back, ![t].step = s]
    BY <1>5 DEF ExitFlag
  <2>2. back \in Levels
    BY LevelBackTyped
  <2>3. s \in Steps
    BY DEF Steps
  <2> HIDE DEF back, s
  <2>4. k \in Job /\ k.do = "exit" /\ k.mode = job[t].mode /\ k.level = back /\ k.step = s
    BY <1>1, <1>2, <2>2, <2>3 DEF Job, Steps
  <2>5. job' = [job EXCEPT ![t] = k]
    BY <2>1, SleepTyped
  <2> HIDE DEF k
  <2>6. job' \in [Threads -> Jobs] /\ job'[t] = k /\ \A u \in Threads : u # t => job'[u] = job[u]
    BY <2>4, <2>5, SleepTyped DEF Jobs
  <2> QED
    BY <1>1, <1>2, <1>3, <1>5, <2>1, <2>4, <2>6 DEF back, s
<1> QED
  BY <1>4, <1>5

\* The light.
LEMMA LightSetGives ==
  ASSUME TypeOK, NEW t \in Threads, LightSet(t)
  PROVE  /\ job' \in [Threads -> Jobs] /\ job[t] \in Job /\ job[t].step = "set"
         /\ \A u \in Threads : u # t => job'[u] = job[u]
         /\ job'[t] \in Job /\ job'[t].do = job[t].do /\ job'[t].mode = job[t].mode
         /\ job'[t].level = job[t].level /\ job'[t].step = "record"
         /\ light' = job[t].level /\ light' \in Levels
         /\ UNCHANGED <<asleep, lightLevel, lightBefore, told, todo, want, chosen, clash>>
<1>1. job[t] # NoJob /\ job[t].step = "set" /\ Go(t, "record") /\ light' = job[t].level
  BY DEF LightSet
<1>2. job[t] \in Job
  BY <1>1, SleepTyped
<1>3. job[t].level \in Levels /\ "record" \in Steps
  BY <1>2 DEF Job, Steps
<1>4. UNCHANGED <<asleep, lightLevel, lightBefore, told, todo, want, chosen, clash>>
  BY DEF LightSet, hand
<1> QED
  BY <1>1, <1>2, <1>3, <1>4, GoGives

\* The record of the light.
LEMMA LightRecordGives ==
  ASSUME TypeOK, NEW t \in Threads, LightRecord(t)
  PROVE  /\ job' \in [Threads -> Jobs] /\ job[t] \in Job /\ job[t].step = "record"
         /\ \A u \in Threads : u # t => job'[u] = job[u]
         /\ \/ job[t].do = "brighten" /\ job'[t] = NoJob
            \/ /\ job[t].do # "brighten"
               /\ job'[t] \in Job /\ job'[t].do = job[t].do /\ job'[t].mode = job[t].mode
               /\ job'[t].level = job[t].level /\ job'[t].step = "call"
         /\ lightLevel' = job[t].level /\ lightLevel' \in Levels
         /\ UNCHANGED <<asleep, light, lightBefore, told, todo, want, chosen, clash>>
<1>1. job[t] # NoJob /\ job[t].step = "record" /\ lightLevel' = job[t].level
  BY DEF LightRecord
<1>2. job[t] \in Job
  BY <1>1, SleepTyped
<1>3. job[t].level \in Levels /\ "call" \in Steps
  BY <1>2 DEF Job, Steps
<1>4. UNCHANGED <<asleep, light, lightBefore, told, todo, want, chosen, clash>>
  BY DEF LightRecord, hand
<1>5. CASE job[t].do = "brighten"
  <2>1. Done(t)
    BY <1>5 DEF LightRecord
  <2> QED
    BY <1>1, <1>2, <1>3, <1>4, <1>5, <2>1, DoneGives
<1>6. CASE job[t].do # "brighten"
  <2>1. Go(t, "call")
    BY <1>6 DEF LightRecord
  <2> QED
    BY <1>1, <1>2, <1>3, <1>4, <1>6, <2>1, GoGives
<1> QED
  BY <1>5, <1>6

\* The word to the client.
LEMMA CallbackGives ==
  ASSUME TypeOK, NEW t \in Threads, Callback(t)
  PROVE  /\ job' \in [Threads -> Jobs] /\ job[t] \in Job /\ job[t].step = "call" /\ job'[t] = NoJob
         /\ \A u \in Threads : u # t => job'[u] = job[u]
         /\ told' = IF job[t].do = "enter" THEN told \cup {job[t].mode} ELSE told \ {job[t].mode}
         /\ UNCHANGED <<asleep, light, lightLevel, lightBefore, todo, want, chosen, clash>>
<1>1. job[t] # NoJob /\ job[t].step = "call" /\ Done(t)
      /\ told' = IF job[t].do = "enter" THEN told \cup {job[t].mode} ELSE told \ {job[t].mode}
  BY DEF Callback
<1>2. job[t] \in Job
  BY <1>1, SleepTyped
<1>3. UNCHANGED <<asleep, light, lightLevel, lightBefore, todo, want, chosen, clash>>
  BY DEF Callback, hand, lights
<1> QED
  BY <1>1, <1>2, <1>3, DoneGives

-----------------------------------------------------------------------------
\* The types, a truth value being named for what it is.
Truth(x) == x \in BOOLEAN
SleepTypes ==
  /\ asleep \subseteq Modes /\ told \subseteq Modes /\ todo \subseteq Modes
  /\ lightLevel \in Levels /\ lightBefore \in Levels /\ light \in Levels
  /\ chosen \in Levels /\ want \in Levels \cup {NoLevel}
  /\ sleepDrawn \in Modes \cup {""}
  /\ screen \in Modes \cup {"page"} /\ frame \in Modes \cup {"page"}
  /\ Truth(pageChanged) /\ Truth(plugged) /\ Truth(drained) /\ Truth(quiet) /\ Truth(hold)
  /\ switch \in {"on", "off"} /\ prev \in {"on", "off"}
  /\ pc \in {"power", "idle", "draw", "render", "show"}
  /\ job \in [Threads -> Jobs]
  /\ Truth(failed) /\ Truth(clash)

\* They are the types the run checks.
LEMMA TypesAre == TypeOK <=> SleepTypes
  BY DEF TypeOK, SleepTypes, Truth, Jobs

\* After a step, too.
LEMMA TypesAreNext == TypeOK' <=> SleepTypes'
  BY DEF TypeOK, SleepTypes, Truth, Jobs

\* A step of a thread's work.
LEMMA StepTyped ==
  ASSUME TypeOK, NEW t \in Threads, Step(t)
  PROVE  TypeOK'
<1>1. CASE EnterFlag(t)
  <2>1. /\ job' \in [Threads -> Jobs] /\ asleep' \subseteq Modes /\ lightBefore' \in Levels
    <3>1. job[t].mode \in Modes
      BY <1>1, EnterFlagGives DEF Job
    <3> QED
      BY <1>1, <3>1, EnterFlagGives, SleepTyped
  <2>2. sleepDrawn' \in Modes \cup {""}
    BY <1>1, TypesAre DEF EnterFlag, SleepTypes
  <2> QED
    BY <1>1, <2>1, <2>2, TypesAre, TypesAreNext DEF EnterFlag, SleepTypes, outside, hand
<1>2. CASE ExitFlag(t)
  <2>1. job' \in [Threads -> Jobs] /\ asleep' \subseteq Modes /\ lightBefore' \in Levels
    BY <1>2, ExitFlagGives, SleepTyped
  <2>2. /\ sleepDrawn' \in Modes \cup {""} /\ Truth(pageChanged') /\ Truth(drained')
        /\ Truth(hold')
    BY <1>2 DEF ExitFlag, TypeOK, Truth, Redraw
  <2> QED
    BY <1>2, <2>1, <2>2, TypesAre, TypesAreNext DEF ExitFlag, SleepTypes, hand
<1>3. CASE LightSet(t)
  <2>1. job' \in [Threads -> Jobs] /\ light' \in Levels
    BY <1>3, LightSetGives
  <2> QED
    BY <1>3, <2>1, TypesAre, TypesAreNext DEF LightSet, SleepTypes, drawing, outside, hand
<1>4. CASE LightRecord(t)
  <2>1. job' \in [Threads -> Jobs] /\ lightLevel' \in Levels
    BY <1>4, LightRecordGives
  <2> QED
    BY <1>4, <2>1, TypesAre, TypesAreNext DEF LightRecord, SleepTypes, drawing, outside, hand
<1>5. CASE Callback(t)
  <2>1. job' \in [Threads -> Jobs] /\ told' \subseteq Modes
    <3>1. job[t].mode \in Modes
      BY <1>5, CallbackGives DEF Job
    <3> QED
      BY <1>5, <3>1, CallbackGives, SleepTyped
  <2> QED
    BY <1>5, <2>1, TypesAre, TypesAreNext DEF Callback, SleepTypes, lights, drawing, outside, hand
<1> QED
  BY <1>1, <1>2, <1>3, <1>4, <1>5 DEF Step

\* The two ticks.
LEMMA TicksTyped ==
  ASSUME TypeOK, powerTick \/ idleTick
  PROVE  TypeOK'
<1>1. "loop" \in Threads /\ "nopower" \in Modes /\ "idle" \in Modes
  BY DEF Threads, Modes
<1>2. job' \in [Threads -> Jobs]
  <2>1. \/ \E d \in {"enter", "exit"}, m \in Modes : Start("loop", d, m)
        \/ UNCHANGED job
    BY <1>1 DEF powerTick, idleTick
  <2> QED
    BY <1>1, <2>1, StartGives, SleepTyped
<1>3. Truth(clash')
  BY DEF powerTick, idleTick, LoopGoes, TypeOK, Truth
<1>4. CASE powerTick
  <2>1. Truth(drained') /\ pc' = "idle"
    BY <1>4 DEF powerTick, TypeOK, Truth
  <2> QED
    BY <1>2, <1>3, <1>4, <2>1, TypesAre, TypesAreNext DEF powerTick, SleepTypes, lights, drawing, hand
<1>5. CASE idleTick
  <2>1. Truth(hold') /\ prev' \in {"on", "off"} /\ pc' = "draw"
    BY <1>5 DEF idleTick, TypeOK, Truth
  <2> QED
    BY <1>2, <1>3, <1>5, <2>1, TypesAre, TypesAreNext DEF idleTick, SleepTypes, lights, drawing, outside, hand
<1> QED
  BY <1>4, <1>5

\* The drawing.
LEMMA DrawingTyped ==
  ASSUME TypeOK, Draw \/ Render \/ Show
  PROVE  TypeOK'
<1>1. Kind \in Modes \cup {""} /\ Picture \in Modes \cup {"page"}
  BY DEF Kind, Picture, Modes
<1>2. CASE Draw
  <2>1. pc' \in {"power", "render"} /\ sleepDrawn' \in Modes \cup {""} /\ Truth(pageChanged')
    BY <1>1, <1>2 DEF Draw, TypeOK, Truth
  <2> QED
    BY <1>2, <2>1, TypesAre, TypesAreNext DEF Draw, SleepTypes, lights, outside, hand
<1>3. CASE Render
  BY <1>1, <1>3, TypesAre, TypesAreNext DEF Render, SleepTypes, lights, outside, hand
<1>4. CASE Show
  <2>1. pc' = "power" /\ frame' = "page"
    BY <1>4 DEF Show
  <2>2. screen' \in Modes \cup {"page"}
    BY <1>4 DEF Show, TypeOK
  <2>3. Truth(failed')
    BY <1>4 DEF Show, Truth
  <2>4. UNCHANGED <<asleep, lights, told, sleepDrawn, pageChanged, outside, prev,
                    hold, job, hand, clash>>
    BY <1>4 DEF Show
  <2> QED
    BY <2>1, <2>2, <2>3, <2>4, TypesAre, TypesAreNext DEF SleepTypes, lights, outside, hand
<1> QED
  BY <1>2, <1>3, <1>4

\* A hand.
LEMMA HandTyped ==
  ASSUME TypeOK,
         \/ Touch \/ Brighten
         \/ \E n \in Levels : SetBrightness(n)
         \/ \E m \in Modes : WakeUp(m)
  PROVE  TypeOK'
<1>1. CASE Touch
  <2>1. Truth(clash') /\ Truth(quiet') /\ todo' \subseteq Modes
    BY <1>1 DEF Touch, Activity, TypeOK, Truth
  <2> QED
    BY <1>1, <2>1, TypesAre, TypesAreNext DEF Touch, SleepTypes, lights, drawing
<1>2. ASSUME NEW n \in Levels, SetBrightness(n)
      PROVE  TypeOK'
  <2>1. Truth(clash') /\ Truth(quiet') /\ todo' \subseteq Modes /\ want' = n /\ chosen' = n
    BY <1>2 DEF SetBrightness, Activity, TypeOK, Truth
  <2> QED
    BY <1>2, <2>1, TypesAre, TypesAreNext DEF SetBrightness, SleepTypes, lights, drawing
<1>3. ASSUME NEW m \in Modes, WakeUp(m)
      PROVE  TypeOK'
  <2>1. Start("hand", "exit", m) /\ todo' = todo \ {m}
    BY <1>3 DEF WakeUp
  <2>2. job' \in [Threads -> Jobs]
    BY <2>1, StartGives DEF Threads
  <2> QED
    BY <1>3, <2>1, <2>2, TypesAre, TypesAreNext DEF WakeUp, SleepTypes, lights, drawing, outside
<1>4. CASE Brighten
  <2>1. want \in Levels /\ "hand" \in Threads /\ "set" \in Steps /\ "idle" \in Modes
    BY <1>4 DEF Brighten, TypeOK, Threads, Steps, Modes
  <2>2. job' = [job EXCEPT !["hand"] = [do |-> "brighten", mode |-> "idle", step |-> "set", level |-> want]]
        /\ want' = NoLevel
    BY <1>4 DEF Brighten
  <2>3. job' \in [Threads -> Jobs]
    BY <2>1, <2>2, GivenJob
  <2> QED
    BY <1>4, <2>2, <2>3, TypesAre, TypesAreNext DEF Brighten, SleepTypes, lights, drawing, outside
<1> QED
  BY <1>1, <1>2, <1>3, <1>4

\* The boat.
LEMMA BoatTyped ==
  ASSUME TypeOK, Plug \/ (\E v \in {"on", "off"} : Flip(v)) \/ TimePasses
  PROVE  TypeOK'
<1>1. CASE Plug
  <2>1. Truth(plugged')
    BY <1>1 DEF Plug, TypeOK, Truth
  <2>2. UNCHANGED <<asleep, lights, told, drawing, drained, switch, quiet, prev,
                    hold, pc, job, hand, clash>>
    BY <1>1 DEF Plug
  <2> QED
    BY <2>1, <2>2, TypesAre, TypesAreNext DEF SleepTypes, lights, drawing, hand
<1>2. ASSUME NEW v \in {"on", "off"}, Flip(v)
      PROVE  TypeOK'
  BY <1>2, TypesAre, TypesAreNext DEF Flip, SleepTypes, lights, drawing, hand
<1>3. CASE TimePasses
  <2>1. Truth(quiet') /\ Truth(drained') /\ Truth(hold')
    BY <1>3 DEF TimePasses, TypeOK, Truth
  <2> QED
    BY <1>3, <2>1, TypesAre, TypesAreNext DEF TimePasses, SleepTypes, lights, drawing, hand
<1> QED
  BY <1>1, <1>2, <1>3

\* Every step keeps the types.
LEMMA SleepTypeStep ==
  ASSUME TypeOK, [Next]_vars
  PROVE  TypeOK'
<1>1. CASE UNCHANGED vars
  BY <1>1, TypesAre, TypesAreNext DEF vars, lights, drawing, outside, hand, SleepTypes
<1> QED
  BY <1>1, StepTyped, TicksTyped, DrawingTyped, HandTyped, BoatTyped DEF Next

\* They hold at the start.
LEMMA SleepTypeInit ==
  ASSUME Init
  PROVE  TypeOK
<1>1. NoJob \in Jobs
  BY DEF Jobs
<1>2. job \in [Threads -> Jobs]
  BY <1>1 DEF Init
<1>3. /\ Truth(pageChanged) /\ Truth(plugged) /\ Truth(drained) /\ Truth(quiet) /\ Truth(hold)
      /\ Truth(failed) /\ Truth(clash)
  BY DEF Init, Truth
<1>4. 0 \in Levels
  BY SleepAssumption DEF Levels
<1>5. SleepTypes
  BY <1>2, <1>3, <1>4 DEF Init, SleepTypes
<1> QED
  BY <1>5, TypesAre

\* Type correctness of the two modes and of the two threads that change them.
THEOREM SleepTypeCorrect == Spec => []TypeOK
<1>1. TypeOK /\ [Next]_vars => TypeOK'
  BY SleepTypeStep
<1> QED
  BY <1>1, SleepTypeInit, PTL DEF Spec

-----------------------------------------------------------------------------
\* The light where it is to be when nothing is under way.
LightsRight ==
  /\ light = lightLevel
  /\ asleep # {} => light = 0 /\ (want = NoLevel => lightBefore = chosen)
  /\ asleep = {} => lightBefore = 0 /\ (want = NoLevel => light = chosen)

\* Nothing is under way, and everything is as it should be.
Calm == told = asleep /\ LightsRight

\* What is so in the middle of each kind of work.
Beginning(j) == j \in Job /\ j.do \in {"enter", "exit"} /\ j.step = "flag" /\ j.level = 0 /\ Calm

Entering(j) ==
  /\ j \in Job /\ j.do = "enter" /\ j.step # "flag"
  /\ j.mode \in asleep /\ told = asleep \ {j.mode} /\ j.level = 0
  /\ want = NoLevel => lightBefore = chosen
  /\ j.step \in {"record", "call"} => light = 0
  /\ j.step = "call" => lightLevel = 0

Leaving(j) ==
  /\ j \in Job /\ j.do = "exit" /\ j.step # "flag"
  /\ j.mode \notin asleep /\ told = asleep \cup {j.mode}
  /\ j.step \in {"set", "record"} =>
       asleep = {} /\ lightBefore = 0 /\ (want = NoLevel => j.level = chosen)
  /\ j.step = "record" => light = j.level
  /\ j.step = "call" => LightsRight

Brightening(j) ==
  /\ j \in Job /\ j.do = "brighten"
  /\ told = {} /\ asleep = {} /\ lightBefore = 0 /\ want = NoLevel /\ j.level = chosen
  /\ j.step \in {"set", "record"} /\ (j.step = "record" => light = j.level)

InJob(j) ==
  \/ j = NoJob /\ Calm
  \/ Beginning(j) \/ Entering(j) \/ Leaving(j) \/ Brightening(j)

\* The mode the hand is about to leave.
HandLeaves == {m \in Modes : /\ job["hand"] # NoJob /\ job["hand"].do = "exit"
                             /\ job["hand"].step = "flag" /\ job["hand"].mode = m}

\* The two threads keep apart; a hand that is at work leaves every mode that is on.
Apart ==
  /\ job["hand"] # NoJob => job["hand"].do # "enter"
  /\ job["loop"] # NoJob => HandIdle
  /\ ~HandIdle => asleep \subseteq todo \cup HandLeaves
  /\ want # NoLevel => chosen = want

\* The work that is under way, if any.
Current == IF Free("loop") THEN job["hand"] ELSE job["loop"]

SleepInv == ~clash => Apart /\ InJob(Current)

\* A step of a thread takes its work from one point to the next.
LEMMA EnterFlagKeeps ==
  ASSUME TypeOK, NEW t \in Threads, EnterFlag(t), InJob(job[t]), want = NoLevel
  PROVE  InJob(job[t])'
<1> DEFINE j == job[t]
<1>1. j \in Job /\ j.do = "enter" /\ j.step = "flag"
  BY EnterFlagGives
<1>2. Calm /\ j.level = 0
  BY <1>1, JobsDiffer DEF InJob, Beginning, Entering, Leaving, Brightening
<1>3. UNCHANGED <<lightLevel, light, told, want, chosen>>
  BY EnterFlagGives
<1>4. CASE job'[t] = NoJob /\ UNCHANGED <<asleep, lightBefore>>
  BY <1>2, <1>3, <1>4 DEF InJob, Calm, LightsRight
<1>5. CASE /\ j.mode \notin asleep /\ asleep' = asleep \cup {j.mode}
           /\ lightBefore' = IF lightLevel > 0 THEN lightLevel ELSE lightBefore
           /\ job'[t] \in Job /\ job'[t].do = "enter" /\ job'[t].mode = j.mode
           /\ job'[t].level = j.level
           /\ job'[t].step = IF lightLevel > 0 THEN "set" ELSE "call"
  <2> DEFINE k == job'[t]
  <2>1. k.mode \in asleep' /\ told' = asleep' \ {k.mode} /\ k.level = 0
    BY <1>2, <1>3, <1>5 DEF Calm
  <2>2. lightLevel \in Nat /\ lightLevel = light
    BY <1>2, SleepTyped, SleepAssumption DEF Levels, Calm, LightsRight
  <2>3. lightBefore' = chosen'
    BY <1>2, <1>3, <1>5, <2>2 DEF Calm, LightsRight
  <2>4. k.step # "flag" /\ (k.step \in {"record", "call"} => light' = 0 /\ lightLevel' = 0)
    BY <1>3, <1>5, <2>2
  <2> QED
    BY <1>5, <2>1, <2>3, <2>4 DEF InJob, Entering
<1> QED
  BY <1>4, <1>5, EnterFlagGives

\* On the way out.
LEMMA ExitFlagKeeps ==
  ASSUME TypeOK, NEW t \in Threads, ExitFlag(t), InJob(job[t])
  PROVE  InJob(job[t])'
<1> DEFINE j == job[t]
<1>1. j \in Job /\ j.do = "exit" /\ j.step = "flag"
  BY ExitFlagGives
<1>2. Calm
  BY <1>1, JobsDiffer DEF InJob, Beginning, Entering, Leaving, Brightening
<1>3. UNCHANGED <<lightLevel, light, told, want, chosen>>
  BY ExitFlagGives
<1>4. CASE job'[t] = NoJob /\ UNCHANGED <<asleep, lightBefore>>
  BY <1>2, <1>3, <1>4 DEF InJob, Calm, LightsRight
<1>5. CASE /\ j.mode \in asleep /\ asleep' = asleep \ {j.mode}
           /\ lightBefore' = IF Other(j.mode) \in asleep THEN lightBefore ELSE 0
           /\ job'[t] \in Job /\ job'[t].do = "exit" /\ job'[t].mode = j.mode
           /\ job'[t].level = LevelBack(j.mode)
           /\ job'[t].step = IF LevelBack(j.mode) > 0 THEN "set" ELSE "call"
  <2> DEFINE k == job'[t]
  <2>1. k.mode \notin asleep' /\ told' = asleep' \cup {k.mode} /\ k.step # "flag"
    BY <1>2, <1>3, <1>5 DEF Calm
  <2>2. light = 0 /\ lightLevel = 0 /\ (want = NoLevel => lightBefore = chosen)
    BY <1>2, <1>5 DEF Calm, LightsRight
  <2>3. CASE Other(j.mode) \in asleep
    <3>1. Other(j.mode) # j.mode
      BY <1>1 DEF Job, Other, Modes
    <3>2. asleep' # {} /\ lightBefore' = lightBefore
      BY <1>5, <2>3, <3>1
    <3>3. LightsRight'
      BY <1>3, <2>2, <3>2 DEF LightsRight, NoLevel
    <3>4. k.step = "call"
      BY <1>5, <2>3 DEF LevelBack
    <3> QED
      BY <1>5, <2>1, <3>3, <3>4 DEF InJob, Leaving
  <2>4. CASE Other(j.mode) \notin asleep
    <3>1. asleep' = {}
      BY <1>1, <1>5, <2>4, SleepTyped DEF Job, Other, Modes
    <3>2. lightBefore' = 0 /\ k.level = lightBefore /\ lightBefore \in Nat
      BY <1>5, <2>4, SleepTyped, SleepAssumption DEF LevelBack, Levels
    <3>3. CASE lightBefore > 0
      <4>1. k.step = "set"
        BY <1>5, <3>2, <3>3
      <4> QED
        BY <1>3, <1>5, <2>1, <2>2, <3>1, <3>2, <4>1 DEF InJob, Leaving, NoLevel
    <3>4. CASE lightBefore = 0
      <4>1. k.step = "call"
        BY <1>5, <3>2, <3>4
      <4>2. LightsRight'
        BY <1>3, <2>2, <3>1, <3>2, <3>4 DEF LightsRight, NoLevel
      <4> QED
        BY <1>5, <2>1, <4>1, <4>2 DEF InJob, Leaving
    <3> QED
      BY <3>2, <3>3, <3>4
  <2> QED
    BY <2>3, <2>4
<1> QED
  BY <1>4, <1>5, ExitFlagGives

\* At the light.
LEMMA LightSetKeeps ==
  ASSUME TypeOK, NEW t \in Threads, LightSet(t), InJob(job[t])
  PROVE  InJob(job[t])'
<1> DEFINE j == job[t]
           k == job'[t]
<1>1. j \in Job /\ j # NoJob /\ j.step = "set"
  BY LightSetGives, JobsDiffer
<1>2. /\ k \in Job /\ k.do = j.do /\ k.mode = j.mode /\ k.level = j.level /\ k.step = "record"
      /\ light' = j.level
      /\ UNCHANGED <<asleep, lightLevel, lightBefore, told, want, chosen>>
  BY LightSetGives
<1>3. Entering(j) \/ Leaving(j) \/ Brightening(j)
  BY <1>1 DEF InJob, Beginning
<1>4. CASE Entering(j)
  BY <1>1, <1>2, <1>4 DEF InJob, Entering, NoLevel
<1>5. CASE Leaving(j)
  BY <1>1, <1>2, <1>5 DEF InJob, Leaving, NoLevel
<1>6. CASE Brightening(j)
  BY <1>1, <1>2, <1>6 DEF InJob, Brightening, NoLevel
<1> QED
  BY <1>3, <1>4, <1>5, <1>6

\* At its record.
LEMMA LightRecordKeeps ==
  ASSUME TypeOK, NEW t \in Threads, LightRecord(t), InJob(job[t])
  PROVE  InJob(job[t])'
<1> DEFINE j == job[t]
           k == job'[t]
<1>1. j \in Job /\ j # NoJob /\ j.step = "record"
  BY LightRecordGives, JobsDiffer
<1>2. lightLevel' = j.level /\ UNCHANGED <<asleep, light, lightBefore, told, want, chosen>>
  BY LightRecordGives
<1>3. \/ j.do = "brighten" /\ k = NoJob
      \/ /\ j.do # "brighten" /\ k \in Job /\ k.do = j.do /\ k.mode = j.mode
         /\ k.level = j.level /\ k.step = "call"
  BY LightRecordGives
<1>4. Entering(j) \/ Leaving(j) \/ Brightening(j)
  BY <1>1 DEF InJob, Beginning
<1>5. CASE Entering(j)
  BY <1>1, <1>2, <1>3, <1>5 DEF InJob, Entering, NoLevel
<1>6. CASE Leaving(j)
  <2>1. LightsRight'
    BY <1>1, <1>2, <1>6 DEF Leaving, LightsRight, NoLevel
  <2> QED
    BY <1>1, <1>2, <1>3, <1>6, <2>1 DEF InJob, Leaving
<1>7. CASE Brightening(j)
  <2>1. Calm'
    BY <1>1, <1>2, <1>7 DEF Brightening, Calm, LightsRight, NoLevel
  <2> QED
    BY <1>3, <1>7, <2>1 DEF InJob, Brightening
<1> QED
  BY <1>4, <1>5, <1>6, <1>7

\* At the word to the client, which ends it.
LEMMA CallbackKeeps ==
  ASSUME TypeOK, NEW t \in Threads, Callback(t), InJob(job[t])
  PROVE  InJob(job[t])'
<1> DEFINE j == job[t]
<1>1. j \in Job /\ j # NoJob /\ j.step = "call" /\ job'[t] = NoJob
  BY CallbackGives, JobsDiffer
<1>2. /\ told' = IF j.do = "enter" THEN told \cup {j.mode} ELSE told \ {j.mode}
      /\ UNCHANGED <<asleep, light, lightLevel, lightBefore, want, chosen>>
  BY CallbackGives
<1>3. Entering(j) \/ Leaving(j)
  BY <1>1 DEF InJob, Beginning, Brightening
<1>4. CASE Entering(j)
  <2>1. told' = asleep'
    BY <1>2, <1>4 DEF Entering
  <2>2. LightsRight'
    BY <1>1, <1>2, <1>4 DEF Entering, LightsRight, NoLevel
  <2> QED
    BY <1>1, <2>1, <2>2 DEF InJob, Calm
<1>5. CASE Leaving(j)
  <2>1. told' = asleep'
    BY <1>2, <1>5 DEF Leaving
  <2>2. LightsRight'
    BY <1>1, <1>2, <1>5 DEF Leaving, LightsRight, NoLevel
  <2> QED
    BY <1>1, <2>1, <2>2 DEF InJob, Calm
<1> QED
  BY <1>3, <1>4, <1>5

\* A step of a thread takes its work on, and leaves the other's.
LEMMA StepKeeps ==
  ASSUME TypeOK, NEW t \in Threads, Step(t), InJob(job[t]), job[t].do = "enter" => want = NoLevel
  PROVE  /\ InJob(job[t])' /\ job[t] # NoJob
         /\ \A u \in Threads : u # t => job'[u] = job[u]
         /\ UNCHANGED <<todo, want, chosen, clash>>
         /\ job'[t] # NoJob => job'[t].do = job[t].do
<1>1. CASE EnterFlag(t)
  <2>1. job[t].do = "enter"
    BY <1>1 DEF EnterFlag
  <2> QED
    BY <1>1, <2>1, EnterFlagGives, EnterFlagKeeps, JobsDiffer
<1>2. CASE ExitFlag(t)
  BY <1>2, ExitFlagGives, ExitFlagKeeps, JobsDiffer
<1>3. CASE LightSet(t)
  BY <1>3, LightSetGives, LightSetKeeps, JobsDiffer
<1>4. CASE LightRecord(t)
  BY <1>4, LightRecordGives, LightRecordKeeps, JobsDiffer
<1>5. CASE Callback(t)
  BY <1>5, CallbackGives, CallbackKeeps, JobsDiffer
<1> QED
  BY <1>1, <1>2, <1>3, <1>4, <1>5 DEF Step

\* A step of the hand is on its way out of the mode, and past it.
LEMMA HandStepLeaves ==
  ASSUME TypeOK, Step("hand"), job["hand"].do # "enter", asleep \subseteq todo \cup HandLeaves
  PROVE  asleep' \subseteq todo
<1>1. "hand" \in Threads
  BY DEF Threads
<1> DEFINE j == job["hand"]
<1>2. CASE ExitFlag("hand")
  <2>1. j \in Job /\ j.do = "exit" /\ j.step = "flag"
    BY <1>1, <1>2, ExitFlagGives
  <2>2. HandLeaves \subseteq {j.mode}
    BY DEF HandLeaves
  <2>3. asleep' \subseteq asleep \ {j.mode}
    <3>1. (j.mode \notin asleep /\ asleep' = asleep) \/ asleep' = asleep \ {j.mode}
      BY <1>1, <1>2, ExitFlagGives
    <3> QED
      BY <3>1
  <2> QED
    BY <2>2, <2>3
<1>3. CASE LightSet("hand")
  <2>1. asleep' = asleep /\ j.step = "set"
    BY <1>1, <1>3, LightSetGives
  <2> QED
    BY <2>1 DEF HandLeaves
<1>4. CASE LightRecord("hand")
  <2>1. asleep' = asleep /\ j.step = "record"
    BY <1>1, <1>4, LightRecordGives
  <2> QED
    BY <2>1 DEF HandLeaves
<1>5. CASE Callback("hand")
  <2>1. asleep' = asleep /\ j.step = "call"
    BY <1>1, <1>5, CallbackGives
  <2> QED
    BY <2>1 DEF HandLeaves
<1> QED
  BY <1>2, <1>3, <1>4, <1>5 DEF Step, EnterFlag

\* The loop's work is the only work.
LEMMA LoopStepInv ==
  ASSUME TypeOK, SleepInv, Step("loop")
  PROVE  SleepInv'
<1> SUFFICES ASSUME ~clash'
             PROVE  Apart' /\ InJob(Current)'
  BY DEF SleepInv
<1>1. "loop" \in Threads /\ "hand" \in Threads /\ "loop" # "hand"
  BY DEF Threads
<1>2. clash' = clash /\ job["loop"] # NoJob
  BY EnterFlagGives, ExitFlagGives, LightSetGives, LightRecordGives, CallbackGives, JobsDiffer, <1>1
  DEF Step
<1>3. Apart /\ InJob(job["loop"]) /\ HandIdle
  BY <1>2 DEF SleepInv, Current, Free, Apart
<1>4. want = NoLevel
  BY <1>3 DEF HandIdle
<1>5. /\ InJob(job["loop"])' /\ job'["hand"] = job["hand"] /\ UNCHANGED <<todo, want, chosen>>
  BY <1>1, <1>3, <1>4, StepKeeps
<1>6. HandIdle'
  BY <1>3, <1>5 DEF HandIdle, Free
<1>7. Apart'
  BY <1>6 DEF Apart, HandIdle, Free
<1>8. InJob(Current)'
  BY <1>5, <1>6 DEF Current, HandIdle, Free
<1> QED
  BY <1>7, <1>8

\* The hand's work, while the loop has none.
LEMMA HandStepInv ==
  ASSUME TypeOK, SleepInv, Step("hand")
  PROVE  SleepInv'
<1> SUFFICES ASSUME ~clash'
             PROVE  Apart' /\ InJob(Current)'
  BY DEF SleepInv
<1>1. "loop" \in Threads /\ "hand" \in Threads /\ "loop" # "hand"
  BY DEF Threads
<1>2. clash' = clash /\ job["hand"] # NoJob
  BY EnterFlagGives, ExitFlagGives, LightSetGives, LightRecordGives, CallbackGives, JobsDiffer, <1>1
  DEF Step
<1>3. Apart /\ ~HandIdle /\ job["loop"] = NoJob
  BY <1>2 DEF SleepInv, Apart, HandIdle, Free
<1>4. InJob(job["hand"]) /\ job["hand"].do # "enter"
  BY <1>2, <1>3 DEF SleepInv, Current, Free, Apart
<1>5. /\ InJob(job["hand"])' /\ job'["loop"] = NoJob /\ UNCHANGED <<todo, want, chosen>>
      /\ job'["hand"] # NoJob => job'["hand"].do # "enter"
  BY <1>1, <1>3, <1>4, StepKeeps
<1>6. asleep' \subseteq todo'
  BY <1>3, <1>4, <1>5, HandStepLeaves DEF Apart
<1>7. Apart'
  BY <1>3, <1>5, <1>6 DEF Apart, NoLevel
<1>8. InJob(Current)'
  BY <1>5 DEF Current, Free
<1> QED
  BY <1>7, <1>8

\* A tick begins work when there is none, or the two have clashed.
LEMMA TicksInv ==
  ASSUME TypeOK, SleepInv, powerTick \/ idleTick
  PROVE  SleepInv'
<1> SUFFICES ASSUME ~clash'
             PROVE  Apart' /\ InJob(Current)'
  BY DEF SleepInv
<1>1. "loop" \in Threads /\ "hand" \in Threads /\ "loop" # "hand"
      /\ "nopower" \in Modes /\ "idle" \in Modes
  BY DEF Threads, Modes
<1>2. Free("loop") /\ LoopGoes
  BY DEF powerTick, idleTick, LoopAt
<1>3. ~clash /\ (job' = job \/ HandIdle)
  BY <1>2 DEF LoopGoes
<1>4. UNCHANGED <<asleep, light, lightLevel, lightBefore, told, todo, want, chosen>>
  BY DEF powerTick, idleTick, lights, hand
<1>5. Apart /\ InJob(job["hand"])
  BY <1>2, <1>3 DEF SleepInv, Current
<1>6. CASE job' = job
  <2>1. Apart'
    BY <1>4, <1>5, <1>6 DEF Apart, HandIdle, HandLeaves, Free, NoLevel
  <2>2. Free("loop")' /\ Current' = job["hand"]
    BY <1>2, <1>6 DEF Current, Free
  <2>3. InJob(job["hand"])'
    BY <1>4, <1>5, <1>6 DEF InJob, Beginning, Entering, Leaving, Brightening, Calm, LightsRight, NoLevel
  <2> QED
    BY <1>6, <2>1, <2>2, <2>3
<1>7. CASE job' # job
  <2>1. HandIdle
    BY <1>3, <1>7
  <2>2. PICK d \in {"enter", "exit"}, m \in Modes : Start("loop", d, m)
    BY <1>1, <1>7 DEF powerTick, idleTick
  <2>3. /\ job'["loop"] \in Job /\ job'["loop"].do = d /\ job'["loop"].step = "flag"
        /\ job'["loop"].level = 0 /\ job'["hand"] = job["hand"]
    BY <1>1, <2>2, StartGives
  <2>4. HandIdle'
    BY <1>4, <2>1, <2>3 DEF HandIdle, Free
  <2>5. Apart'
    BY <2>4 DEF Apart, HandIdle, Free
  <2>6. Calm
    BY <1>5, <2>1, JobsDiffer DEF HandIdle, Free, InJob, Beginning, Entering, Leaving, Brightening
  <2>7. Calm'
    BY <1>4, <2>6 DEF Calm, LightsRight, NoLevel
  <2>8. Beginning(job["loop"])'
    BY <2>3, <2>7 DEF Beginning
  <2>9. Current' = job'["loop"]
    BY <2>3, JobsDiffer DEF Current, Free
  <2> QED
    BY <2>5, <2>8, <2>9 DEF InJob
<1> QED
  BY <1>6, <1>7

\* A touch or a command notes the modes it is to leave.
LEMMA ActivityInv ==
  ASSUME TypeOK, SleepInv, Activity, ~clash',
         UNCHANGED <<asleep, lights, told, job>>,
         \/ UNCHANGED <<want, chosen>>
         \/ want' \in Levels /\ chosen' = want'
  PROVE  Apart' /\ InJob(Current)'
<1>1. HandIdle /\ Free("loop") /\ ~clash /\ todo' = asleep
  BY DEF Activity
<1>2. Apart /\ Calm
  BY <1>1, JobsDiffer
  DEF SleepInv, Current, HandIdle, Free, InJob, Beginning, Entering, Leaving, Brightening
<1>3. job'["hand"] = NoJob /\ job'["loop"] = NoJob
  BY <1>1 DEF HandIdle, Free
<1>4. want' # NoLevel => chosen' = want'
  BY <1>1 DEF HandIdle, NoLevel
<1>5. Apart'
  BY <1>1, <1>3, <1>4 DEF Apart, NoLevel
<1>6. Calm'
  <2>1. CASE UNCHANGED <<want, chosen>>
    BY <1>2, <2>1 DEF Calm, LightsRight, NoLevel, lights
  <2>2. CASE want' \in Levels
    <3>1. want' # NoLevel
      BY <2>2, SleepAssumption DEF Levels, NoLevel
    <3> QED
      BY <1>2, <3>1 DEF Calm, LightsRight, NoLevel, lights
  <2> QED
    BY <2>1, <2>2
<1> QED
  BY <1>3, <1>5, <1>6 DEF InJob, Current, Free

\* A mode to be left by hand.
LEMMA WakeUpInv ==
  ASSUME TypeOK, SleepInv, NEW m \in Modes, WakeUp(m)
  PROVE  SleepInv'
<1> SUFFICES ASSUME ~clash'
             PROVE  Apart' /\ InJob(Current)'
  BY DEF SleepInv
<1>1. "loop" \in Threads /\ "hand" \in Threads /\ "loop" # "hand"
  BY DEF Threads
<1>2. /\ Free("hand") /\ m \in todo /\ todo' = todo \ {m} /\ Start("hand", "exit", m)
      /\ UNCHANGED <<asleep, light, lightLevel, lightBefore, told, want, chosen, clash>>
  BY DEF WakeUp, lights
<1>3. Apart /\ Free("loop")
  BY <1>2 DEF SleepInv, Apart, HandIdle, Free
<1>4. Calm
  BY <1>2, <1>3, JobsDiffer
  DEF SleepInv, Current, Free, InJob, Beginning, Entering, Leaving, Brightening
<1>5. asleep \subseteq todo
  <2>1. HandLeaves = {}
    BY <1>2 DEF HandLeaves, Free
  <2>2. ~HandIdle
    BY <1>2 DEF HandIdle
  <2> QED
    BY <1>3, <2>1, <2>2 DEF Apart
<1>6. /\ job'["hand"] \in Job /\ job'["hand"].do = "exit" /\ job'["hand"].mode = m
      /\ job'["hand"].step = "flag" /\ job'["hand"].level = 0 /\ job'["loop"] = NoJob
  <2>1. "exit" \in {"enter", "exit"}
    OBVIOUS
  <2> QED
    BY <1>1, <1>2, <1>3, <2>1, StartGives DEF Free
<1>7. job'["hand"] # NoJob
  BY <1>6, JobsDiffer
<1>8. Apart'
  <2>1. m \in HandLeaves'
    BY <1>6, <1>7 DEF HandLeaves
  <2>2. asleep' \subseteq todo' \cup HandLeaves'
    BY <1>2, <1>5, <2>1
  <2>3. want' # NoLevel => chosen' = want'
    BY <1>2, <1>3 DEF Apart
  <2> QED
    BY <1>6, <2>2, <2>3 DEF Apart, NoLevel
<1>9. Calm'
  BY <1>2, <1>4 DEF Calm, LightsRight, NoLevel
<1>10. Beginning(job["hand"])'
  BY <1>6, <1>9 DEF Beginning
<1> QED
  BY <1>6, <1>8, <1>10 DEF InJob, Current, Free

\* A brightness set by hand, once no mode is on.
LEMMA BrightenInv ==
  ASSUME TypeOK, SleepInv, Brighten
  PROVE  SleepInv'
<1> SUFFICES ASSUME ~clash'
             PROVE  Apart' /\ InJob(Current)'
  BY DEF SleepInv
<1>1. "loop" \in Threads /\ "hand" \in Threads /\ "loop" # "hand" /\ "set" \in Steps /\ "idle" \in Modes
  BY DEF Threads, Steps, Modes
<1>2. /\ Free("hand") /\ todo = {} /\ want # NoLevel /\ want' = NoLevel
      /\ job' = [job EXCEPT !["hand"] = [do |-> "brighten", mode |-> "idle", step |-> "set", level |-> want]]
      /\ UNCHANGED <<asleep, light, lightLevel, lightBefore, told, todo, chosen, clash>>
  BY DEF Brighten, lights
<1>3. Apart /\ Free("loop")
  BY <1>2 DEF SleepInv, Apart, HandIdle, Free
<1>4. Calm
  BY <1>2, <1>3, JobsDiffer
  DEF SleepInv, Current, Free, InJob, Beginning, Entering, Leaving, Brightening
<1>5. asleep = {}
  <2>1. HandLeaves = {}
    BY <1>2 DEF HandLeaves, Free
  <2>2. ~HandIdle
    BY <1>2 DEF HandIdle
  <2> QED
    BY <1>2, <1>3, <2>1, <2>2 DEF Apart
<1>6. want \in Levels /\ chosen = want
  BY <1>2, <1>3 DEF TypeOK, Apart
<1>7. /\ job'["hand"] \in Job /\ job'["hand"].do = "brighten" /\ job'["hand"].step = "set"
      /\ job'["hand"].level = want /\ job'["loop"] = NoJob
  BY <1>1, <1>2, <1>3, <1>6, GivenJob DEF Free
<1>8. Apart'
  BY <1>2, <1>5, <1>7 DEF Apart, NoLevel
<1>9. Brightening(job["hand"])'
  BY <1>2, <1>4, <1>5, <1>6, <1>7 DEF Brightening, Calm, LightsRight, NoLevel
<1> QED
  BY <1>7, <1>8, <1>9 DEF InJob, Current, Free

\* What leaves the modes, the light and the threads' work alone.
LEMMA ElsewhereInv ==
  ASSUME SleepInv, UNCHANGED <<asleep, lights, told, job, hand, clash>>
  PROVE  SleepInv'
<1>1. /\ asleep' = asleep /\ light' = light /\ lightLevel' = lightLevel /\ lightBefore' = lightBefore
      /\ told' = told /\ job' = job /\ todo' = todo /\ want' = want /\ chosen' = chosen
      /\ clash' = clash
  BY DEF lights, hand
<1>2. Apart => Apart'
  BY <1>1 DEF Apart, HandIdle, HandLeaves, Free, NoLevel
<1>3. Current' = Current
  BY <1>1 DEF Current, Free
<1>4. InJob(Current) => InJob(Current)'
  BY <1>1, <1>3
  DEF InJob, Beginning, Entering, Leaving, Brightening, Calm, LightsRight, NoLevel
<1> QED
  BY <1>1, <1>2, <1>4 DEF SleepInv

\* Every step keeps the invariant.
LEMMA SleepInvStep ==
  ASSUME TypeOK, SleepInv, [Next]_vars
  PROVE  SleepInv'
<1>1. ASSUME NEW t \in Threads, Step(t)
      PROVE  SleepInv'
  BY <1>1, LoopStepInv, HandStepInv DEF Threads
<1>2. CASE Draw \/ Render \/ Show
  BY <1>2, ElsewhereInv DEF Draw, Render, Show
<1>3. CASE Plug \/ (\E v \in {"on", "off"} : Flip(v)) \/ TimePasses
  BY <1>3, ElsewhereInv DEF Plug, Flip, TimePasses
<1>4. CASE Touch
  BY <1>4, ActivityInv DEF Touch, SleepInv
<1>5. ASSUME NEW n \in Levels, SetBrightness(n)
      PROVE  SleepInv'
  BY <1>5, ActivityInv DEF SetBrightness, SleepInv
<1>6. CASE UNCHANGED vars
  BY <1>6, ElsewhereInv DEF vars
<1> QED
  BY <1>1, <1>2, <1>3, <1>4, <1>5, <1>6, TicksInv, WakeUpInv, BrightenInv DEF Next

\* It holds at the start.
LEMMA SleepInvInit ==
  ASSUME Init
  PROVE  SleepInv
<1>1. "loop" \in Threads /\ "hand" \in Threads
  BY DEF Threads
<1>2. job["loop"] = NoJob /\ job["hand"] = NoJob /\ todo = {} /\ want = NoLevel
  BY <1>1 DEF Init
<1>3. Calm
  BY DEF Init, Calm, LightsRight
<1>4. Apart
  BY <1>2 DEF Apart, HandIdle, Free
<1> QED
  BY <1>2, <1>3, <1>4 DEF SleepInv, InJob, Current, Free

\* Whenever both threads are done, and as long as they never were in the shared
\* code at once, the client was told what is so, the light is off while a mode is
\* on and where the user put it otherwise, and the app knows where it is.
THEOREM ModesAreInForce == Spec => []ModesInForce
<1>1. TypeOK /\ SleepInv /\ [Next]_vars => TypeOK' /\ SleepInv'
  BY SleepTypeStep, SleepInvStep
<1>2. Init => TypeOK /\ SleepInv
  BY SleepTypeInit, SleepInvInit
<1>3. TypeOK /\ SleepInv => ModesInForce
  <2> SUFFICES ASSUME TypeOK, SleepInv, Settled, ~clash
               PROVE  told = asleep /\ light = (IF asleep = {} THEN chosen ELSE 0) /\ lightLevel = light
    BY DEF ModesInForce, ClientFollows, ToldRight, LightFollows, LightIsKnown
  <2>1. Calm /\ want = NoLevel
    BY JobsDiffer
    DEF SleepInv, Settled, Current, HandIdle, Free, InJob, Beginning, Entering, Leaving, Brightening
  <2> QED
    BY <2>1 DEF Calm, LightsRight
<1> QED
  BY <1>1, <1>2, <1>3, PTL DEF Spec
=============================================================================
