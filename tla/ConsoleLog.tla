----------------------------- MODULE ConsoleLog -----------------------------
(***************************************************************************)
(* The console of every TOBE firmware (TobeLog): what the tasks print goes *)
(* to the serial port, a bare LF as CR LF, and into a ring whose contents  *)
(* the web page shows.  The ring has a lock; the port and the note of the  *)
(* last byte printed (last_) have none, nor has the switch that keeps the  *)
(* dump of the log out of the log.                                         *)
(***************************************************************************)
EXTENDS Integers, Sequences

CONSTANTS
    Tasks,      \* the tasks that print
    Texts,      \* the runs of bytes they print, each one call of write()
    Size,       \* TOBE_LOG_SIZE
    Drops       \* whether the port can be full: a USB port nobody reads

CR == "CR"
LF == "LF"
Bytes == (UNION {{t[i] : i \in DOMAIN t} : t \in Texts}) \cup {CR}

ASSUME ConsoleAssumption ==
    /\ Size \in Nat \ {0} /\ Drops \in BOOLEAN
    /\ \A t \in Texts : t \in Seq(Bytes) /\ t # <<>>

VARIABLES
    console_ring, console_at, wrapped,  \* s_ring, s_pos, s_wrapped
    capture,    \* capture_
    last,       \* last_
    call,       \* per task: the call of write() it is in, [buf, i, start, cr]
    wire,       \* the byte sent last
    bare,       \* ghost: an LF was sent without a CR before it
    tail        \* ghost: the last Size bytes printed while capture was on

keptText == <<console_ring, console_at, wrapped, tail>>
consoleVars == <<keptText, capture, last, call, wire, bare>>

Idle == [buf |-> <<>>, i |-> 0, start |-> 0, cr |-> FALSE]

ConsoleTypeOK ==
    /\ console_ring \in [0..(Size - 1) -> Bytes \cup {""}] /\ console_at \in 0..(Size - 1) /\ wrapped \in BOOLEAN
    /\ capture \in BOOLEAN
    /\ last \in Bytes \cup {""} /\ wire \in Bytes \cup {""} /\ bare \in BOOLEAN
    /\ tail \in Seq(Bytes) /\ Len(tail) <= Size
    /\ \A t \in Tasks : (call[t] # Idle) =>
          (call[t].buf \in Texts /\ call[t].i \in 1..(Len(call[t].buf) + 1))

ConsoleInit ==
    /\ console_ring = [i \in 0..(Size - 1) |-> ""] /\ console_at = 0 /\ wrapped = FALSE
    /\ capture = TRUE
    /\ last = "" /\ call = [t \in Tasks |-> Idle] /\ wire = "" /\ bare = FALSE /\ tail = <<>>

-----------------------------------------------------------------------------
(* ringAdd(): all of the text under the lock.                               *)
NewestOf(s, n) == SubSeq(s, 1 + (IF Len(s) > n THEN Len(s) - n ELSE 0), Len(s))

RingAddLate(buf) ==
    /\ console_ring' = [i \in DOMAIN console_ring |->
                 LET written == {j \in DOMAIN buf : (console_at + j - 1) % Size = i}
                 IN IF written = {} THEN console_ring[i] ELSE buf[CHOOSE j \in written : \A k \in written : j >= k]]
    /\ console_at' = (console_at + Len(buf)) % Size
    /\ wrapped' = (wrapped \/ console_at + Len(buf) > Size)
    /\ tail' = NewestOf(tail \o buf, Size)

RingAdd(buf) ==
    /\ console_ring' = [i \in DOMAIN console_ring |->
                 LET written == {j \in DOMAIN buf : (console_at + j - 1) % Size = i}
                 IN IF written = {} THEN console_ring[i] ELSE buf[CHOOSE j \in written : \A k \in written : j >= k]]
    /\ console_at' = (console_at + Len(buf)) % Size
    /\ wrapped' = (wrapped \/ console_at + Len(buf) >= Size)
    /\ tail' = NewestOf(tail \o buf, Size)

(* logCopy(): the newest bytes that fit beside the NUL, oldest first.       *)
Copy(cap) ==
    IF wrapped
    THEN LET total == IF Size > cap - 1 THEN cap - 1 ELSE Size
         IN [i \in 1..total |-> console_ring[(console_at + Size - total + i - 1) % Size]]
    ELSE LET n == IF console_at > cap - 1 THEN cap - 1 ELSE console_at
         IN [i \in 1..n |-> console_ring[console_at - n + i - 1]]

-----------------------------------------------------------------------------
(* write(): into the ring, then all of it to the port, or, where the port   *)
(* has no room for it, none of it.                                          *)
WriteCall(t, buf) ==
    /\ call[t] = Idle
    /\ IF capture THEN RingAdd(buf) ELSE UNCHANGED keptText
    /\ \/ call' = [call EXCEPT ![t] = [buf |-> buf, i |-> 1, start |-> 1, cr |-> FALSE]] /\ UNCHANGED last
       \/ Drops /\ last' = buf[Len(buf)] /\ UNCHANGED call
    /\ UNCHANGED <<wire, bare>>

(* A run of bytes sent: only its first can be an LF with no CR before it.   *)
SendBytes(bytes) ==
    IF bytes = <<>> THEN UNCHANGED <<wire, bare>>
    ELSE /\ wire' = bytes[Len(bytes)]
         /\ bare' = \/ bare
                    \/ (bytes[1] = LF /\ wire # CR)
                    \/ \E j \in 2..Len(bytes) : bytes[j] = LF /\ bytes[j - 1] # CR

(* One byte looked at.  Before a bare LF what was held back goes out, and   *)
(* the CR; the LF itself goes with what follows it.                         *)
Bare(t) == call[t].buf[call[t].i] = LF /\ last # CR

LookAt(t) ==
    /\ call[t] # Idle /\ call[t].i <= Len(call[t].buf) /\ ~call[t].cr
    /\ IF Bare(t)
       THEN /\ SendBytes(SubSeq(call[t].buf, call[t].start, call[t].i - 1))
            /\ call' = [call EXCEPT ![t].cr = TRUE, ![t].start = call[t].i]
            /\ UNCHANGED last
       ELSE /\ last' = call[t].buf[call[t].i]
            /\ call' = [call EXCEPT ![t].i = @ + 1]
            /\ UNCHANGED <<wire, bare>>
    /\ UNCHANGED keptText

SendCr(t) ==
    /\ call[t].cr /\ SendBytes(<<CR>>)
    /\ last' = LF
    /\ call' = [call EXCEPT ![t].cr = FALSE, ![t].i = @ + 1]
    /\ UNCHANGED keptText

Rest(t) ==
    /\ call[t] # Idle /\ call[t].i > Len(call[t].buf)
    /\ SendBytes(SubSeq(call[t].buf, call[t].start, Len(call[t].buf)))
    /\ call' = [call EXCEPT ![t] = Idle]
    /\ UNCHANGED <<keptText, last>>

(* cmdLog(): off before the dump and on after it, for every task's output.  *)
SetCapture == capture' = ~capture /\ UNCHANGED <<keptText, last, call, wire, bare>>

ConsoleNext ==
    \/ SetCapture
    \/ /\ \E t \in Tasks : \/ \E buf \in Texts : WriteCall(t, buf)
                            \/ LookAt(t) \/ SendCr(t) \/ Rest(t)
       /\ UNCHANGED capture

ConsoleSpec == ConsoleInit /\ [][ConsoleNext]_consoleVars

-----------------------------------------------------------------------------
(* logCopy() gives the web page the newest captured output, oldest first,   *)
(* whatever the size of its buffer and wherever the ring has wrapped.       *)
PageIsTheTail == \A cap \in 1..(Size + 2) : Copy(cap) = NewestOf(tail, cap - 1)

(* TobeLog.h: "ends every line with CR LF (a bare LF makes picocom/minicom  *)
(* show a staircase)".                                                      *)
NoStaircase == ~bare

=============================================================================
