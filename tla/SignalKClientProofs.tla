------------------------ MODULE SignalKClientProofs ------------------------
(***************************************************************************)
(* What SignalKClient guarantees for every set of servers and of calling   *)
(* threads, and every interleaving of the calls with Run.                  *)
(***************************************************************************)
EXTENDS SignalKClient, TLAPS

\* A session that has begun can be ended: its cancel is there for the callers.
Endable == pc \in Live => cancel

\* Neither half is inductive alone: a call that changes what is wanted keeps
\* SessionFollows only because the cancel it captured is the session's.
IInv == TypeOK /\ Endable /\ SessionFollows

\* What the history variables are given are truth values.
LEMMA ClashType == TypeOK /\ [Next]_vars => clash' \in BOOLEAN
<1> SUFFICES ASSUME TypeOK, [Next]_vars PROVE clash' \in BOOLEAN
  OBVIOUS
<1>1. CASE Run \/ Lost
  <2>1. PICK p : RunAt(p)
    BY <1>1 DEF Run, Check, Resumed, Start, Dial, Open, Read, Apply, Fail, Lost, Over,
       Decide, BackOff
  <2> QED
    BY <2>1 DEF RunAt
<1>2. ASSUME NEW c \in Callers, Call(c) PROVE clash' \in BOOLEAN
  BY <1>2 DEF Call
<1>3. ASSUME NEW c \in Callers, Reset(c) \/ Cancel(c) PROVE clash' \in BOOLEAN
  BY <1>3 DEF Reset, Cancel, TypeOK
<1>4. CASE Network \/ UNCHANGED vars
  BY <1>4 DEF Network, vars, TypeOK
<1>5. ASSUME NEW c \in Callers, NEW s \in Servers, SetServer(c, s)
      PROVE  clash' \in BOOLEAN
  BY <1>2, <1>5 DEF SetServer
<1>6. ASSUME NEW c \in Callers, Reconnect(c) \/ Resync(c) PROVE clash' \in BOOLEAN
  BY <1>2, <1>6 DEF Reconnect, Resync
<1>7. ASSUME NEW c \in Callers, NEW b \in BOOLEAN, SetIdle(c, b) \/ SetPaused(c, b)
      PROVE  clash' \in BOOLEAN
  BY <1>2, <1>7 DEF SetIdle, SetPaused
<1> QED
  BY <1>1, <1>3, <1>4, <1>5, <1>6, <1>7 DEF Next

\* Only a message of an ended session is late.
LEMMA LateType == TypeOK /\ [Next]_vars => late' \in BOOLEAN
<1> SUFFICES ASSUME TypeOK, [Next]_vars PROVE late' \in BOOLEAN
  OBVIOUS
<1>1. CASE Apply
  BY <1>1 DEF Apply, TypeOK
<1>2. ASSUME late' = late PROVE late' \in BOOLEAN
  BY <1>2 DEF TypeOK
<1>3. CASE (Run /\ ~Apply) \/ Lost \/ Network \/ UNCHANGED vars
  BY <1>2, <1>3 DEF Run, Check, Resumed, Start, Dial, Open, Read, Fail, Lost, Over,
     Decide, BackOff, Network, vars
<1>4. ASSUME NEW c \in Callers, NEW s \in Servers, SetServer(c, s)
      PROVE  late' \in BOOLEAN
  BY <1>2, <1>4 DEF SetServer
<1>5. ASSUME NEW c \in Callers, Reconnect(c) \/ Resync(c) \/ Reset(c) \/ Cancel(c)
      PROVE  late' \in BOOLEAN
  BY <1>2, <1>5 DEF Reconnect, Resync, Reset, Cancel
<1>6. ASSUME NEW c \in Callers, NEW b \in BOOLEAN, SetIdle(c, b) \/ SetPaused(c, b)
      PROVE  late' \in BOOLEAN
  BY <1>2, <1>6 DEF SetIdle, SetPaused
<1> QED
  BY <1>1, <1>3, <1>4, <1>5, <1>6 DEF Next

\* Every step keeps the types.
LEMMA TypeStep == TypeOK /\ [Next]_vars => TypeOK'
<1> SUFFICES ASSUME TypeOK, [Next]_vars PROVE TypeOK'
  OBVIOUS
<1>0. clash' \in BOOLEAN /\ late' \in BOOLEAN
  BY ClashType, LateType
<1> USE <1>0 DEF TypeOK, RunAt, Call, Then, Live, NoCall, fields, session, state
<1>1. CASE Check
  <2>1. /\ pc' \in {"paused", "start"} /\ woken' \in BOOLEAN /\ connected' \in BOOLEAN
        /\ UNCHANGED <<fields, session, some, all, up, call>>
    BY <1>1 DEF Check
  <2> QED
    BY <2>1
<1>2. CASE Resumed BY <1>2 DEF Resumed
<1>3. CASE Start
  <2>1. CASE paused
    <3>1. UNCHANGED <<fields, woken, session, state, up, call>> /\ pc' = "over"
      BY <1>3, <2>1 DEF Start
    <3> QED
      BY <3>1
  <2>2. CASE ~paused
    <3>1. /\ UNCHANGED <<url, changed, paused, idle, woken, state, up, call>>
          /\ pc' = "dial"
          /\ ses' \in [server : Servers, idle : BOOLEAN]
          /\ dead' = FALSE /\ sent' = FALSE /\ cancel' = TRUE
      BY <1>3, <2>2 DEF Start
    <3> QED
      BY <3>1
  <2> QED
    BY <2>1, <2>2
<1>4. CASE Dial BY <1>4 DEF Dial
<1>5. CASE Open BY <1>5 DEF Open
<1>6. CASE Read BY <1>6 DEF Read
<1>7. CASE Apply BY <1>7 DEF Apply
<1>8. CASE Fail \/ Lost BY <1>8 DEF Fail, Lost
<1>9. CASE Over BY <1>9 DEF Over
<1>10. CASE Decide
  <2>1. /\ pc' \in {"check", "wait"} /\ changed' \in BOOLEAN
        /\ UNCHANGED <<url, paused, idle, cancel, woken, session, state, up, call>>
    BY <1>10 DEF Decide
  <2> QED
    BY <2>1
<1>11. CASE BackOff BY <1>11 DEF BackOff
<1>12. ASSUME NEW c \in Callers, NEW s \in Servers, SetServer(c, s) PROVE TypeOK'
  BY <1>12 DEF SetServer
<1>13. ASSUME NEW c \in Callers, Reconnect(c) \/ Resync(c) PROVE TypeOK'
  <2>1. CASE Reconnect(c) BY <2>1 DEF Reconnect
  <2>2. CASE Resync(c) BY <2>2 DEF Resync
  <2> QED
    BY <1>13, <2>1, <2>2
<1>14. ASSUME NEW c \in Callers, NEW b \in BOOLEAN, SetIdle(c, b) PROVE TypeOK'
  BY <1>14 DEF SetIdle
<1>15. ASSUME NEW c \in Callers, NEW b \in BOOLEAN, SetPaused(c, b) PROVE TypeOK'
  <2>1. CASE b = TRUE BY <1>15, <2>1 DEF SetPaused
  <2>2. CASE b = FALSE BY <1>15, <2>2 DEF SetPaused
  <2> QED
    BY <2>1, <2>2
<1>16. ASSUME NEW c \in Callers, Reset(c) PROVE TypeOK'
  BY <1>16 DEF Reset
<1>17. ASSUME NEW c \in Callers, Cancel(c) PROVE TypeOK'
  BY <1>17 DEF Cancel
<1>18. CASE Network BY <1>18 DEF Network
<1>19. CASE UNCHANGED vars BY <1>19 DEF vars
<1> QED
  BY <1>1, <1>2, <1>3, <1>4, <1>5, <1>6, <1>7, <1>8, <1>9, <1>10, <1>11, <1>12,
     <1>13, <1>14, <1>15, <1>16, <1>17, <1>18, <1>19 DEF Next, Run

-----------------------------------------------------------------------------
\* A call that captures the cancel of the session in use is about to end it.
LEMMA CaptureEnds ==
  ASSUME TypeOK, Endable, NEW c \in Callers, NEW step \in {"reset", "cancel"},
         Then(c, step), UNCHANGED pc
  PROVE  pc' \in Live => Ending'
<1>1. call'[c] = [step |-> step, mine |-> cancel]
  BY DEF Then, TypeOK
<1>2. pc' \in Live => cancel
  BY DEF Endable
<1> QED
  BY <1>1, <1>2 DEF Ending

\* The session in use, and what is wanted, unchanged: only Ending matters.
LEMMA SameSession ==
  ASSUME SessionFollows, UNCHANGED <<url, idle, paused, ses>>,
         pc' \in Live => pc \in Live, dead => dead', Ending => Ending' \/ dead'
  PROVE  SessionFollows'
BY DEF SessionFollows

\* The session has always begun with its cancel set, and Over alone clears it.
LEMMA EndableStep == TypeOK /\ Endable /\ [Next]_vars => Endable'
<1> SUFFICES ASSUME TypeOK, Endable, [Next]_vars PROVE Endable'
  OBVIOUS
<1> USE DEF Endable, Live, fields
<1>1. CASE Check BY <1>1 DEF Check
<1>2. CASE Start
  <2>1. CASE paused BY <1>2, <2>1 DEF Start
  <2>2. CASE ~paused BY <1>2, <2>2 DEF Start
  <2> QED
    BY <2>1, <2>2
<1>3. CASE Dial \/ Open \/ Read \/ Apply
  BY <1>3 DEF Dial, Open, Read, Apply, RunAt
<1>4. CASE Resumed \/ Fail \/ Lost \/ Over \/ BackOff
  BY <1>4 DEF Resumed, Fail, Lost, Over, BackOff
<1>5. CASE Decide BY <1>5 DEF Decide
<1>6. ASSUME NEW c \in Callers, NEW s \in Servers, SetServer(c, s) PROVE Endable'
  BY <1>6 DEF SetServer
<1>7. ASSUME NEW c \in Callers,
             Reconnect(c) \/ Resync(c) \/ Reset(c) \/ Cancel(c)
      PROVE  Endable'
  BY <1>7 DEF Reconnect, Resync, Reset, Cancel
<1>8. ASSUME NEW c \in Callers, NEW b \in BOOLEAN, SetIdle(c, b) \/ SetPaused(c, b)
      PROVE  Endable'
  BY <1>8 DEF SetIdle, SetPaused
<1>9. CASE Network \/ UNCHANGED vars BY <1>9 DEF Network, vars
<1> QED
  BY <1>1, <1>2, <1>3, <1>4, <1>5, <1>6, <1>7, <1>8, <1>9 DEF Next, Run

\* Every step keeps the session after what is wanted.
LEMMA FollowStep == IInv /\ [Next]_vars => SessionFollows'
<1> SUFFICES ASSUME TypeOK, Endable, SessionFollows, [Next]_vars
             PROVE  SessionFollows'
  BY DEF IInv
<1> USE DEF fields, session
<1>1. CASE Check
  <2>1. pc' \notin Live
    BY <1>1 DEF Check, Live
  <2> QED
    BY <2>1 DEF SessionFollows
<1>2. CASE Start
  <2>1. CASE paused
    <3>1. pc' \notin Live
      BY <1>2, <2>1 DEF Start, Live
    <3> QED
      BY <3>1 DEF SessionFollows
  <2>2. CASE ~paused
    <3>1. ses' = [server |-> url, idle |-> idle] /\ UNCHANGED <<url, idle, paused>>
      BY <1>2, <2>2 DEF Start
    <3> QED
      BY <2>2, <3>1 DEF SessionFollows
  <2> QED
    BY <2>1, <2>2
<1>3. CASE Dial \/ Open \/ Read \/ Apply
  <2>1. UNCHANGED <<url, idle, paused, ses, dead, call>> /\ pc \in Live
    BY <1>3 DEF Dial, Open, Read, Apply, RunAt, Live
  <2>2. Ending => Ending'
    BY <2>1 DEF Ending
  <2> QED
    BY <2>1, <2>2, SameSession
<1>4. CASE Resumed \/ Fail \/ Lost \/ Over \/ Decide \/ BackOff
  <2>1. pc' \notin Live
    BY <1>4 DEF Resumed, Fail, Lost, Over, Decide, BackOff, Live
  <2> QED
    BY <2>1 DEF SessionFollows
<1>5. ASSUME NEW c \in Callers, NEW s \in Servers, SetServer(c, s)
      PROVE  SessionFollows'
  <2>1. Then(c, "reset") /\ UNCHANGED pc
    BY <1>5 DEF SetServer
  <2> QED
    BY <2>1, CaptureEnds DEF SessionFollows
<1>6. ASSUME NEW c \in Callers, Reconnect(c) \/ Resync(c) PROVE SessionFollows'
  <2>1. (Then(c, "reset") \/ Then(c, "cancel")) /\ UNCHANGED pc
    BY <1>6 DEF Reconnect, Resync
  <2> QED
    BY <2>1, CaptureEnds DEF SessionFollows
<1>7. ASSUME NEW c \in Callers, NEW b \in BOOLEAN, SetIdle(c, b)
      PROVE  SessionFollows'
  <2>1. Then(c, "cancel") /\ UNCHANGED pc
    BY <1>7 DEF SetIdle
  <2> QED
    BY <2>1, CaptureEnds DEF SessionFollows
\* A pause ends the session; and while it lasts there was none to follow it.
<1>8. ASSUME NEW c \in Callers, NEW b \in BOOLEAN, SetPaused(c, b)
      PROVE  SessionFollows'
  <2>1. CASE b = TRUE
    <3>1. Then(c, "cancel") /\ UNCHANGED pc
      BY <1>8, <2>1 DEF SetPaused
    <3> QED
      BY <3>1, CaptureEnds DEF SessionFollows
  <2>2. CASE b = FALSE
    <3>1. paused /\ UNCHANGED <<pc, dead, call>>
      BY <1>8, <2>2 DEF SetPaused, TypeOK
    <3>2. Ending' = Ending
      BY <3>1 DEF Ending
    <3> QED
      BY <3>1, <3>2 DEF SessionFollows
  <2> QED
    BY <2>1, <2>2
<1>9. ASSUME NEW c \in Callers, Reset(c) PROVE SessionFollows'
  <2>1. UNCHANGED <<url, idle, paused, ses, dead, pc>>
    BY <1>9 DEF Reset
  <2>2. /\ \A d \in Callers : call'[d].mine = call[d].mine
        /\ \A d \in Callers : call[d].step # "none" => call'[d].step # "none"
    BY <1>9 DEF Reset, TypeOK
  <2>3. Ending => Ending'
    BY <2>2 DEF Ending
  <2> QED
    BY <2>1, <2>3, SameSession
<1>10. ASSUME NEW c \in Callers, Cancel(c) PROVE SessionFollows'
  <2>1. UNCHANGED <<url, idle, paused, ses, pc>> /\ dead' = (dead \/ call[c].mine)
    BY <1>10 DEF Cancel
  <2>2. \A d \in Callers \ {c} : call'[d] = call[d]
    BY <1>10 DEF Cancel, TypeOK
  <2>3. Ending => Ending' \/ dead'
    BY <2>1, <2>2 DEF Ending
  <2>4. dead => dead'
    BY <2>1
  <2> QED
    BY <2>1, <2>3, <2>4, SameSession
<1>11. CASE Network \/ UNCHANGED vars
  <2>1. UNCHANGED <<url, idle, paused, ses, dead, pc, call>>
    BY <1>11 DEF Network, vars
  <2>2. Ending' = Ending
    BY <2>1 DEF Ending
  <2> QED
    BY <2>1, <2>2, SameSession
<1> QED
  BY <1>1, <1>2, <1>3, <1>4, <1>5, <1>6, <1>7, <1>8, <1>9, <1>10, <1>11 DEF Next, Run

-----------------------------------------------------------------------------
\* What the client starts from.
LEMMA InitIInv == Init => IInv
<1> SUFFICES ASSUME Init PROVE IInv
  OBVIOUS
<1>1. call \in [Callers -> [step : {"none", "reset", "cancel"}, mine : BOOLEAN]]
  BY DEF Init, NoCall
<1>2. ses \in [server : Servers, idle : BOOLEAN]
  BY DEF Init
<1>3. TypeOK
  BY <1>1, <1>2 DEF Init, TypeOK
<1>4. Endable /\ SessionFollows
  BY DEF Init, Endable, SessionFollows, Live
<1> QED
  BY <1>3, <1>4 DEF IInv

\* Every field of the client and of Run keeps its type, whatever is called.
THEOREM TypeCorrect == Spec => []TypeOK
<1>1. Init => TypeOK
  BY InitIInv DEF IInv
<1> QED
  BY <1>1, TypeStep, PTL DEF Spec

\* However many threads call SetServer, SetIdle and SetPaused, and wherever Run
\* is meanwhile, a session nothing is about to end is the one that is wanted:
\* no address and no pause is lost between c.mu and the captured cancel.
THEOREM SessionsFollow == Spec => []SessionFollows
<1>1. IInv /\ [Next]_vars => IInv'
  BY TypeStep, EndableStep, FollowStep DEF IInv
<1>2. IInv => SessionFollows
  BY DEF IInv
<1> QED
  BY InitIInv, <1>1, <1>2, PTL DEF Spec

-----------------------------------------------------------------------------
(* What the reader of State may rely on.                                     *)

\* While nothing has clashed: the old server's values are gone or about to go, unless
\* a message came late; Run stands at a message or a new connection only between two
\* calls; a call that came during a session ends it; and between two calls a live
\* session's State is connected and, once the server has said everything, whole.
Undisturbed ==
  ~clash =>
    /\ late \/ (\E c \in Callers : call[c].step = "reset") \/ some \subseteq {url}
    /\ pc \in {"open", "apply"} => Settled
    /\ pc \in Live => \A c \in Callers : call[c].step # "none" => call[c].mine
    /\ Settled /\ pc \in Live /\ ~dead =>
         /\ sent => ses.server \in all
         /\ pc \in {"read", "apply"} => connected

\* A step of Run that clashes with nothing finds no call unfinished.
LEMMA RunAlone ==
  ASSUME TypeOK, NEW p, RunAt(p), ~clash'
  PROVE  Settled /\ ~clash /\ \A c \in Callers : call[c].step = "none"
<1>1. Settled /\ ~clash
  BY Zenon DEF RunAt, TypeOK
<1> QED
  BY <1>1 DEF Settled, NoCall

\* A call that clashes with nothing finds none unfinished, and Run elsewhere.
LEMMA CallAlone ==
  ASSUME TypeOK, NEW c \in Callers, Call(c), ~clash'
  PROVE  /\ Settled /\ ~clash /\ pc \notin {"open", "apply"}
         /\ \A d \in Callers : call[d].step = "none"
<1>1. Settled /\ ~clash /\ pc \notin {"open", "apply"}
  BY Zenon DEF Call, TypeOK
<1> QED
  BY <1>1 DEF Settled, NoCall

\* With no session left, only what is left of the old server matters.
LEMMA NoSession ==
  ASSUME Undisturbed, ~clash, Settled, pc' \notin Live, UNCHANGED <<url, some, late>>,
         \A c \in Callers : call[c].step = "none"
  PROVE  Undisturbed'
  BY DEF Undisturbed, Live

\* A call that will end the session.
LEMMA CallKeeps ==
  ASSUME IInv, Undisturbed, NEW c \in Callers, NEW step \in {"reset", "cancel"}, Call(c),
         Then(c, step), UNCHANGED <<pc, some, late>>, step = "reset" \/ UNCHANGED url
  PROVE  Undisturbed'
<1> SUFFICES ASSUME ~clash' PROVE Undisturbed'
  BY DEF Undisturbed
<1>1. /\ Settled /\ ~clash /\ pc \notin {"open", "apply"}
      /\ \A d \in Callers : call[d].step = "none"
  BY CallAlone DEF IInv
<1>2. call'[c] = [step |-> step, mine |-> cancel]
  BY DEF Then, IInv, TypeOK
<1>3. \A d \in Callers \ {c} : call'[d] = call[d]
  BY DEF Then, IInv, TypeOK
<1>4. call'[c].step = step /\ call'[c].mine = cancel
  BY <1>2
<1>5. ~Settled'
  BY <1>4 DEF Settled, NoCall
<1>6. late \/ some \subseteq {url}
  BY <1>1 DEF Undisturbed
<1>7. late' \/ (\E d \in Callers : call'[d].step = "reset") \/ some' \subseteq {url'}
  BY <1>4, <1>6
<1>8. pc \in Live => cancel
  BY DEF IInv, Endable
<1>9. pc' \in Live => \A d \in Callers : call'[d].step # "none" => call'[d].mine
  BY <1>1, <1>3, <1>4, <1>8
<1> QED
  BY <1>1, <1>5, <1>7, <1>9 DEF Undisturbed

\* Every step keeps State undisturbed.
LEMMA UndisturbedStep ==
  ASSUME IInv, Undisturbed, [Next]_vars
  PROVE  Undisturbed'
<1> SUFFICES ASSUME ~clash' PROVE Undisturbed'
  BY DEF Undisturbed
<1>0. TypeOK /\ SessionFollows
  BY DEF IInv
<1> USE DEF fields, session, state
<1>1. CASE Check \/ Resumed \/ Fail \/ Lost \/ Decide \/ BackOff
  <2>1. PICK p : RunAt(p)
    BY <1>1 DEF Check, Resumed, Fail, Lost, Decide, BackOff
  <2>2. Settled /\ ~clash /\ \A c \in Callers : call[c].step = "none"
    BY <1>0, <2>1, RunAlone
  <2>3. pc' \notin Live /\ UNCHANGED <<url, some, late>>
    BY <1>1 DEF Check, Resumed, Fail, Lost, Decide, BackOff, Live
  <2> QED
    BY <2>2, <2>3, NoSession
<1>2. CASE Over
  <2>1. Settled /\ ~clash /\ \A c \in Callers : call[c].step = "none"
    BY <1>0, <1>2, RunAlone DEF Over
  <2>2. pc' \notin Live /\ UNCHANGED <<url, some, late>>
    BY <1>2 DEF Over, Live
  <2> QED
    BY <2>1, <2>2, NoSession
<1>3. CASE Start
  <2>1. Settled /\ ~clash /\ \A c \in Callers : call[c].step = "none"
    BY <1>0, <1>3, RunAlone DEF Start
  <2>2. UNCHANGED <<url, some, call, late>>
    BY <1>3 DEF Start
  <2>3. CASE paused
    <3>1. pc' \notin Live
      BY <1>3, <2>3 DEF Start, Live
    <3> QED
      BY <2>1, <2>2, <3>1, NoSession
  <2>4. CASE ~paused
    <3>1. pc' = "dial" /\ sent' = FALSE
      BY <1>3, <2>4 DEF Start
    <3> QED
      BY <2>1, <2>2, <3>1 DEF Undisturbed
  <2> QED
    BY <2>3, <2>4
<1>4. CASE Dial
  <2>1. Settled /\ ~clash /\ \A c \in Callers : call[c].step = "none"
    BY <1>0, <1>4, RunAlone DEF Dial
  <2>2. UNCHANGED <<url, some, call, ses, sent, all, dead, connected, late>> /\ pc = "dial"
    BY <1>4 DEF Dial, RunAt
  <2>3. CASE pc' = "over"
    <3>1. pc' \notin Live
      BY <2>3 DEF Live
    <3> QED
      BY <2>1, <2>2, <3>1, NoSession
  <2>4. CASE pc' = "open"
    <3>1. ~dead => (sent => ses.server \in all)
      BY <2>1, <2>2, <2>4 DEF Undisturbed, Live
    <3>2. late \/ some \subseteq {url}
      BY <2>1 DEF Undisturbed
    <3>3. Settled'
      BY <2>1, <2>2 DEF Settled
    <3> QED
      BY <2>1, <2>2, <2>4, <3>1, <3>2, <3>3 DEF Undisturbed
  <2> QED
    BY <1>4, <2>3, <2>4 DEF Dial
<1>5. CASE Open \/ Read
  <2>1. Settled /\ ~clash /\ \A c \in Callers : call[c].step = "none"
    <3>1. PICK p : RunAt(p)
      BY <1>5 DEF Open, Read
    <3> QED
      BY <1>0, <3>1, RunAlone
  <2>2. UNCHANGED <<url, some, call, ses, sent, all, dead, late>> /\ pc \in Live
    BY <1>5 DEF Open, Read, RunAt, Live
  <2>3. CASE pc' = "over"
    <3>1. pc' \notin Live
      BY <2>3 DEF Live
    <3> QED
      BY <2>1, <2>2, <3>1, NoSession
  <2>4. CASE pc' \in {"read", "apply"}
    <3>1. ~dead => (sent => ses.server \in all)
      BY <2>1, <2>2 DEF Undisturbed
    <3>2. ~dead => connected'
      <4>1. CASE Open BY <2>4, <4>1 DEF Open
      <4>2. CASE Read
        <5>1. ~dead => connected
          BY <2>1, <2>2, <4>2 DEF Undisturbed, Read, RunAt
        <5>2. connected' = connected
          BY <4>2 DEF Read
        <5> QED
          BY <5>1, <5>2, Zenon
      <4> QED
        BY <1>5, <4>1, <4>2
    <3>3. late \/ some \subseteq {url}
      BY <2>1 DEF Undisturbed
    <3>4. Settled'
      BY <2>1, <2>2 DEF Settled
    <3> QED
      BY <2>1, <2>2, <2>4, <3>1, <3>2, <3>3, <3>4 DEF Undisturbed
  <2>5. pc' \in {"read", "apply", "over"}
    BY <1>5 DEF Open, Read
  <2> QED
    BY <2>3, <2>4, <2>5
<1>6. CASE Apply
  <2>1. Settled /\ ~clash /\ \A c \in Callers : call[c].step = "none"
    BY <1>0, <1>6, RunAlone DEF Apply
  <2>2. /\ pc = "apply" /\ pc' = "read" /\ UNCHANGED <<url, call, ses, dead, connected>>
        /\ some' = some \cup {ses.server} /\ late' = (late \/ dead)
    BY <1>6 DEF Apply, RunAt
  <2>3. ~dead => connected /\ (sent => ses.server \in all)
    BY <2>1, <2>2 DEF Undisturbed, Live
  <2>4. ~Ending
    BY <2>1 DEF Ending
  <2>5. ~dead => ses = [server |-> url, idle |-> idle]
    BY <1>0, <2>2, <2>4 DEF SessionFollows, Live
  <2>6. late' \/ some' \subseteq {url}
    <3>1. CASE late \/ dead
      BY <2>2, <3>1, Zenon
    <3>2. CASE ~late /\ ~dead
      <4>1. ses.server = url
        BY <2>5, <3>2
      <4>2. some \subseteq {url}
        BY <2>1, <3>2 DEF Undisturbed
      <4> QED
        BY <2>2, <4>1, <4>2
    <3> QED
      BY <3>1, <3>2
  <2>7. ~dead => (sent' => ses'.server \in all')
    <3>1. CASE ses.idle \/ sent
      <4>1. UNCHANGED <<sent, all>>
        BY <1>6, <3>1 DEF Apply
      <4> QED
        BY <2>2, <2>3, <4>1, Zenon
    <3>2. CASE ~(ses.idle \/ sent)
      <4>1. all' = all \cup {ses.server}
        BY <1>6, <3>2 DEF Apply
      <4> QED
        BY <2>2, <4>1
    <3> QED
      BY <3>1, <3>2
  <2>8. ~dead => connected'
    BY <2>2, <2>3, Zenon
  <2>9. Settled'
    BY <2>1, <2>2 DEF Settled
  <2> QED
    BY <2>1, <2>2, <2>6, <2>7, <2>8, <2>9 DEF Undisturbed
<1>7. ASSUME NEW c \in Callers, NEW s \in Servers, SetServer(c, s)
      PROVE  Undisturbed'
  BY <1>7, CallKeeps DEF SetServer
<1>8. ASSUME NEW c \in Callers, Reconnect(c) \/ Resync(c)
      PROVE  Undisturbed'
  BY <1>8, CallKeeps DEF Reconnect, Resync
<1>9. ASSUME NEW c \in Callers, NEW b \in BOOLEAN, SetIdle(c, b)
      PROVE  Undisturbed'
  BY <1>9, CallKeeps DEF SetIdle
<1>10. ASSUME NEW c \in Callers, NEW b \in BOOLEAN, SetPaused(c, b)
       PROVE  Undisturbed'
  <2>1. CASE b = TRUE
    BY <1>10, <2>1, CallKeeps DEF SetPaused
  <2>2. CASE b = FALSE
    <3>1. UNCHANGED <<url, pc, session, state, call, late>>
      BY <1>10, <2>2 DEF SetPaused
    <3>2. ~clash
      BY <1>0, <1>10, CallAlone DEF SetPaused
    <3>3. Settled' = Settled
      BY <3>1 DEF Settled
    <3> QED
      BY <3>1, <3>2, <3>3 DEF Undisturbed
  <2> QED
    BY <2>1, <2>2
<1>11. ASSUME NEW c \in Callers, Reset(c) \/ Cancel(c)
       PROVE  Undisturbed'
  <2>1. UNCHANGED <<url, pc, ses, sent, late>> /\ ~clash
    BY <1>11 DEF Reset, Cancel
  <2>2. call[c].step # "none"
    BY <1>11 DEF Reset, Cancel
  <2>3. ~Settled
    BY <2>2 DEF Settled, NoCall
  <2>4. pc \notin {"open", "apply"}
    BY <2>1, <2>3 DEF Undisturbed
  <2>5. pc \in Live => \A d \in Callers : call[d].step # "none" => call[d].mine
    BY <2>1 DEF Undisturbed
  <2>6. CASE Reset(c)
    <3>1. some' = {} /\ call' = [call EXCEPT ![c].step = "cancel"]
      BY <2>6 DEF Reset
    <3>2. call'[c].step = "cancel" /\ \A d \in Callers : call'[d].mine = call[d].mine
      BY <3>1 DEF IInv, TypeOK
    <3>3. \A d \in Callers : call'[d].step # "none" => call[d].step # "none"
      BY <2>2, <3>1 DEF IInv, TypeOK
    <3>4. ~Settled'
      BY <3>2 DEF Settled, NoCall
    <3> QED
      BY <2>1, <2>4, <2>5, <3>1, <3>2, <3>3, <3>4 DEF Undisturbed
  <2>7. CASE Cancel(c)
    <3>1. /\ call[c].step = "cancel" /\ call' = [call EXCEPT ![c] = NoCall]
          /\ dead' = (dead \/ call[c].mine) /\ UNCHANGED <<some, all, connected>>
      BY <2>7 DEF Cancel
    <3>2. call'[c].step = "none" /\ \A d \in Callers \ {c} : call'[d] = call[d]
      BY <3>1 DEF IInv, TypeOK, NoCall
    <3>3. pc \in Live => dead'
      BY <2>2, <2>5, <3>1, Zenon
    <3>4. late' \/ (\E d \in Callers : call'[d].step = "reset") \/ some' \subseteq {url'}
      BY <2>1, <3>1, <3>2 DEF Undisturbed
    <3>5. pc' \in Live => \A d \in Callers : call'[d].step # "none" => call'[d].mine
      BY <2>1, <2>5, <3>2
    <3> QED
      BY <2>1, <2>4, <3>3, <3>4, <3>5 DEF Undisturbed
  <2> QED
    BY <1>11, <2>6, <2>7
<1>12. CASE Network \/ UNCHANGED vars
  <2>1. UNCHANGED <<url, pc, session, state, call, clash, late>>
    BY <1>12 DEF Network, vars
  <2>2. Settled' = Settled
    BY <2>1 DEF Settled
  <2> QED
    BY <2>1, <2>2 DEF Undisturbed
<1> QED
  BY <1>1, <1>2, <1>3, <1>4, <1>5, <1>6, <1>7, <1>8, <1>9, <1>10, <1>11, <1>12 DEF Next, Run

\* As long as no call came while another, or a message, was in hand, a reader finds
\* State to hold everything of the wanted server once it has said so, and that it is
\* connected; and nothing of an earlier server, as long as no message of an ended
\* session was applied either: for all servers, callers and interleavings.
THEOREM StatesFollow == Spec => []StateFollows
<1>1. Init => Undisturbed
  BY DEF Init, Undisturbed, Live
<1>2. IInv /\ [Next]_vars => IInv'
  BY TypeStep, EndableStep, FollowStep DEF IInv
<1>3. IInv /\ Undisturbed => StateFollows
  <2> SUFFICES ASSUME IInv, Undisturbed, Reading, ~clash
               PROVE  (~late => some \subseteq {url}) /\ (sent => url \in all) /\ connected
    BY DEF StateFollows, ForgottenUnlessLate, OldServerForgotten, WholeStateHeld, WholeState, ConnectedIsShown
  <2>1. \A c \in Callers : call[c].step = "none"
    BY DEF Reading, Settled, NoCall
  <2>2. ses = [server |-> url, idle |-> idle]
    BY <2>1 DEF IInv, SessionFollows, Reading, Ending, Live
  <2>3. ses.server = url
    BY <2>2
  <2> QED
    BY <2>1, <2>3 DEF Undisturbed, Reading, Live
<1> QED
  BY InitIInv, <1>1, <1>2, <1>3, UndisturbedStep, PTL DEF Spec
=============================================================================
