---------------------------- MODULE SignalKClient ----------------------------
(***************************************************************************)
(* The paper display's connection to the SignalK server                    *)
(* (SignalKPaperDisplay/internal/signalk: client.go, state.go).  One       *)
(* thread, Run, connects, reads and reconnects; others (the touch screen,  *)
(* the web page, the main loop) call SetServer, Reconnect, Resync, SetIdle *)
(* and SetPaused at any moment.  A call changes the client's fields under  *)
(* c.mu, then, outside it, forgets the state and ends the session it found *)
(* in use.  Of the values only this is kept: from which servers there are  *)
(* some, and from which there is everything they say on connecting.        *)
(***************************************************************************)
EXTENDS Naturals

CONSTANTS Servers,  \* "host:port" of the servers there are
          Callers   \* the threads that call the client

ASSUME ClientAssumption == Servers # {}

VARIABLES
  url, changed, paused, idle,   \* fields of Client (idle: narrowed or not)
  cancel,     \* c.cancel ends the session in use
  woken,      \* the channel Run waits on while paused was closed
  pc,         \* where Run is
  ses,        \* the session: its server, and whether it is narrowed
  dead,       \* its context was cancelled
  sent,       \* its server has said everything
  connected,  \* State.connected
  some, all,  \* servers of whose values State holds some / all
  up,         \* the servers that answer
  call,       \* what each caller has still to do, and its captured cancel
  clash,      \* history: Run or a call went on while a call was unfinished
  late        \* history: a message of an ended session was applied

fields == <<url, changed, paused, idle, cancel>>
session == <<ses, dead, sent>>
state == <<connected, some, all>>
vars == <<fields, woken, pc, session, state, up, call, clash, late>>

NoCall == [step |-> "none", mine |-> FALSE]
Live == {"dial", "open", "read", "apply"}

TypeOK ==
  /\ url \in Servers
  /\ changed \in BOOLEAN /\ paused \in BOOLEAN /\ idle \in BOOLEAN
  /\ cancel \in BOOLEAN /\ woken \in BOOLEAN
  /\ pc \in Live \cup {"check", "paused", "start", "over", "decide", "wait"}
  /\ ses \in [server : Servers, idle : BOOLEAN]
  /\ dead \in BOOLEAN /\ sent \in BOOLEAN
  /\ connected \in BOOLEAN
  /\ some \subseteq Servers /\ all \subseteq Servers
  /\ up \subseteq Servers
  /\ call \in [Callers -> [step : {"none", "reset", "cancel"}, mine : BOOLEAN]]
  /\ clash \in BOOLEAN /\ late \in BOOLEAN

Init ==
  /\ url \in Servers
  /\ changed = FALSE /\ paused = FALSE /\ idle = FALSE
  /\ cancel = FALSE /\ woken = FALSE
  /\ pc = "check"
  /\ ses = [server |-> url, idle |-> FALSE] /\ dead = TRUE /\ sent = FALSE
  /\ connected = FALSE /\ some = {} /\ all = {}
  /\ up \in SUBSET Servers
  /\ call = [c \in Callers |-> NoCall]
  /\ clash = FALSE /\ late = FALSE

Settled == \A c \in Callers : call[c] = NoCall
RunAt(p) == pc = p /\ clash' = (clash \/ ~Settled)

-----------------------------------------------------------------------------
(***************************************************************************)
(* Run and session.                                                        *)
(***************************************************************************)

\* The top of Run's loop: wait while paused, else start a session.
Check ==
  /\ RunAt("check")
  /\ IF paused
     THEN pc' = "paused" /\ woken' = FALSE /\ connected' = FALSE
     ELSE pc' = "start" /\ UNCHANGED <<woken, connected>>
  /\ UNCHANGED <<fields, session, some, all, up, call, late>>

Resumed ==
  /\ RunAt("paused")
  /\ woken
  /\ pc' = "check"
  /\ UNCHANGED <<fields, woken, session, state, up, call, late>>

\* Mutant of Start: c.cancel is not set.
StartWithoutCancel ==
  /\ RunAt("start")
  /\ IF paused
     THEN pc' = "over" /\ UNCHANGED session
     ELSE /\ pc' = "dial"
          /\ ses' = [server |-> url, idle |-> idle]
          /\ dead' = FALSE /\ sent' = FALSE
  /\ UNCHANGED <<fields, woken, state, up, call, late>>

\* session, under c.mu: the address and the means of ending it, together.
Start ==
  /\ RunAt("start")
  /\ IF paused
     THEN pc' = "over" /\ UNCHANGED <<session, cancel>>
     ELSE /\ pc' = "dial"
          /\ ses' = [server |-> url, idle |-> idle]
          /\ dead' = FALSE /\ sent' = FALSE
          /\ cancel' = TRUE
  /\ UNCHANGED <<url, changed, paused, idle, woken, state, up, call, late>>

\* DialContext, and for a narrowed session the subscription.  The dial may be
\* done already when its context is cancelled.
Dial ==
  /\ RunAt("dial")
  /\ \/ ses.server \in up /\ pc' = "open"
     \/ (dead \/ ses.server \notin up) /\ pc' = "over"
  /\ UNCHANGED <<fields, woken, session, state, up, call, late>>

Open ==
  /\ RunAt("open")
  /\ \/ pc' = "read" /\ connected' = TRUE
     \/ dead /\ ses.idle /\ pc' = "over" /\ UNCHANGED connected
  /\ UNCHANGED <<fields, woken, session, some, all, up, call, late>>

\* ReadMessage.  cancel() only wakes the goroutine that closes the connection:
\* until it has, and from what was buffered by then, messages are still read.
Read ==
  /\ RunAt("read")
  /\ pc' = "apply"
  /\ UNCHANGED <<fields, woken, session, state, up, call, late>>

\* handle: what the server says when it changes, or everything, the first time.
Apply ==
  /\ RunAt("apply")
  /\ pc' = "read"
  /\ some' = some \cup {ses.server}
  /\ IF ses.idle \/ sent
     THEN UNCHANGED <<sent, all>>
     ELSE sent' = TRUE /\ all' = all \cup {ses.server}
  /\ late' = (late \/ dead)
  /\ UNCHANGED <<fields, woken, ses, dead, connected, up, call>>

\* The connection ends: closed, with nothing buffered, or else timed out or lost.
Fail ==
  /\ RunAt("read")
  /\ dead
  /\ pc' = "over"
  /\ UNCHANGED <<fields, woken, session, state, up, call, late>>

Lost ==
  /\ RunAt("read")
  /\ ~dead
  /\ pc' = "over"
  /\ UNCHANGED <<fields, woken, session, state, up, call, late>>

\* Back in Run: c.cancel, and whoever captured it, has nothing to end now.
Over ==
  /\ RunAt("over")
  /\ pc' = "decide"
  /\ connected' = FALSE
  /\ cancel' = FALSE
  /\ call' = [c \in Callers |-> [call[c] EXCEPT !.mine = FALSE]]
  /\ UNCHANGED <<url, changed, paused, idle, woken, session, some, all, up, late>>

\* Stopped on purpose, wanted anew, or failed: only a failure is waited on.
Decide ==
  /\ RunAt("decide")
  /\ pc' = IF paused \/ changed THEN "check" ELSE "wait"
  /\ changed' = (changed /\ paused)
  /\ UNCHANGED <<url, paused, idle, cancel, woken, session, state, up, call, late>>

BackOff ==
  /\ RunAt("wait")
  /\ pc' = "check"
  /\ UNCHANGED <<fields, woken, session, state, up, call, late>>

Run ==
  \/ Check \/ Resumed \/ Start \/ Dial \/ Open \/ Read \/ Apply \/ Fail
  \/ Over \/ Decide \/ BackOff

-----------------------------------------------------------------------------
(***************************************************************************)
(* The calls: the part under c.mu, then Reset, then the captured cancel.   *)
(***************************************************************************)
Call(c) ==
  /\ call[c] = NoCall
  /\ clash' = (clash \/ ~Settled \/ pc \in {"open", "apply"})

Then(c, step) == call' = [call EXCEPT ![c] = [step |-> step, mine |-> cancel]]

SetServer(c, s) ==
  /\ Call(c)
  /\ url' = s
  /\ changed' = TRUE
  /\ Then(c, "reset")
  /\ UNCHANGED <<paused, idle, cancel, woken, pc, session, state, up, late>>

Reconnect(c) ==
  /\ Call(c)
  /\ changed' = TRUE
  /\ Then(c, "reset")
  /\ UNCHANGED <<url, paused, idle, cancel, woken, pc, session, state, up, late>>

Resync(c) ==
  /\ Call(c)
  /\ changed' = TRUE
  /\ Then(c, "cancel")
  /\ UNCHANGED <<url, paused, idle, cancel, woken, pc, session, state, up, late>>

SetIdle(c, on) ==
  /\ Call(c)
  /\ on # idle
  /\ idle' = on
  /\ changed' = TRUE
  /\ Then(c, "cancel")
  /\ UNCHANGED <<url, paused, cancel, woken, pc, session, state, up, late>>

\* Mutant of SetPaused: the waiting Run is not woken.
SetPausedNoWake(c, p) ==
  /\ Call(c)
  /\ p # paused
  /\ paused' = p
  /\ IF p THEN Then(c, "cancel") ELSE UNCHANGED call
  /\ UNCHANGED <<url, changed, idle, cancel, woken, pc, session, state, up, late>>

SetPaused(c, p) ==
  /\ Call(c)
  /\ p # paused
  /\ paused' = p
  /\ IF p
     THEN Then(c, "cancel") /\ UNCHANGED woken
     ELSE woken' = TRUE /\ UNCHANGED call
  /\ UNCHANGED <<url, changed, idle, cancel, pc, session, state, up, late>>

\* Mutant of Reset: the session goes on.
ResetOnly(c) ==
  /\ call[c].step = "reset"
  /\ some' = {} /\ all' = {}
  /\ connected' = FALSE
  /\ call' = [call EXCEPT ![c] = NoCall]
  /\ UNCHANGED <<fields, woken, pc, session, up, clash, late>>

\* State.Reset.
Reset(c) ==
  /\ call[c].step = "reset"
  /\ some' = {} /\ all' = {}
  /\ connected' = FALSE
  /\ call' = [call EXCEPT ![c].step = "cancel"]
  /\ UNCHANGED <<fields, woken, pc, session, up, clash, late>>

\* cancel(): the session it belongs to may be over by now.
Cancel(c) ==
  /\ call[c].step = "cancel"
  /\ dead' = (dead \/ call[c].mine)
  /\ call' = [call EXCEPT ![c] = NoCall]
  /\ UNCHANGED <<fields, woken, pc, ses, sent, state, up, clash, late>>

\* A server appears or disappears.
Network ==
  /\ up' \in SUBSET Servers
  /\ UNCHANGED <<fields, woken, pc, session, state, call, clash, late>>

Next ==
  \/ Run
  \/ Lost
  \/ \E c \in Callers :
       \/ \E s \in Servers : SetServer(c, s)
       \/ Reconnect(c) \/ Resync(c)
       \/ \E b \in BOOLEAN : SetIdle(c, b) \/ SetPaused(c, b)
       \/ Reset(c) \/ Cancel(c)
  \/ Network

Spec == Init /\ [][Next]_vars

\* Run runs, and a call that was begun is finished; the connection of a cancelled
\* session is closed in the end, and what was buffered by then is finite.
Fairness ==
  /\ WF_vars(Run)
  /\ SF_vars(Fail)
  /\ \A c \in Callers : WF_vars(Reset(c) \/ Cancel(c))

FairSpec == Spec /\ Fairness

-----------------------------------------------------------------------------
\* A call is about to end the session in use.
Ending == \E c \in Callers : call[c].step # "none" /\ call[c].mine

\* "A SetServer that comes after this point is sure to end it": a session that
\* nothing is about to end is to the server that is wanted, as wide as it is
\* wanted, and wanted at all, however the calls and Run interleave.
SessionFollows ==
  pc \in Live /\ ~dead /\ ~Ending
    => ses = [server |-> url, idle |-> idle] /\ ~paused

\* The reader's view once nothing is under way.
Reading == Settled /\ pc = "read" /\ ~dead

\* "Everything learned from the old server is forgotten": the promise of
\* SetServer, which the messages still read from the old session break.
OldServerForgotten == Reading => some \subseteq {url}

\* It is kept as long as no call came while another, or a message, was in hand,
\* and no message of an ended session was applied.
ForgottenUnlessLate == ~clash /\ ~late => OldServerForgotten

\* Once a server has said everything, it is all there: what seldom changes is
\* said only then.
WholeState == Reading /\ sent => url \in all
WholeStateHeld == ~clash => WholeState

\* The display says it is connected while it is.
ConnectedIsShown == Reading /\ ~clash => connected

\* So the state is whole once the server has said everything, says that it is
\* connected, and is that server's alone but for the messages named above.
StateFollows == ForgottenUnlessLate /\ WholeStateHeld /\ ConnectedIsShown

\* A pause that lasts ends every session, and every attempt to make one.
PauseHolds == <>[]paused => <>[](pc = "paused")

\* A server that stays wanted and up is connected to, again and again if the
\* connection is lost, whatever was called before.
Connects ==
  \A s \in Servers :
    <>[](Settled /\ url = s /\ ~paused /\ s \in up)
      => []<>(pc = "read" /\ ses.server = s)
=============================================================================
