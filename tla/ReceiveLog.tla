----------------------------- MODULE ReceiveLog -----------------------------
(***************************************************************************)
(* The bridge's log of what it has received (rx_log.cpp): a ring for each  *)
(* bus, added to from any task, and the page that walks them newest first  *)
(* while more arrives.  An entry is its number, counted over all the buses.*)
(***************************************************************************)
EXTENDS Naturals, Sequences, FiniteSets

CONSTANTS
    Sources,    \* the buses
    PerSource,  \* kPerSource
    Limit,      \* the most lines the page shows
    MaxSeq      \* bound: messages received

ASSUME LogAssumption == PerSource \in Nat \ {0} /\ Limit \in Nat \ {0} /\ MaxSeq \in Nat

Slots == 0..(PerSource - 1)

VARIABLES
    rings,       \* s_rings[s].e: the numbers in the slots, 0 for an unused one
    heads,       \* s_rings[s].head
    seq,        \* s_seq
    mask,       \* the buses the page asks for; none when no page is being made
    before,     \* the number the page has come down to
    listed_rows,      \* the page so far
    heard,      \* ghost: all that each bus delivered, in order
    newest      \* ghost: s_seq when the page was asked for

page == <<mask, before, listed_rows, newest>>
logVars == <<rings, heads, seq, page, heard>>

LogTypeOK ==
    /\ rings \in [Sources -> [Slots -> 0..MaxSeq]] /\ heads \in [Sources -> Slots]
    /\ seq \in 0..MaxSeq /\ newest \in 0..MaxSeq
    /\ mask \subseteq Sources /\ before \in 0..(MaxSeq + 1)
    /\ listed_rows \in Seq(1..MaxSeq) /\ heard \in [Sources -> Seq(1..MaxSeq)]

LogInit ==
    /\ rings = [s \in Sources |-> [i \in Slots |-> 0]] /\ heads = [s \in Sources |-> 0]
    /\ seq = 0 /\ mask = {} /\ before = 0 /\ listed_rows = <<>> /\ newest = 0
    /\ heard = [s \in Sources |-> <<>>]

-----------------------------------------------------------------------------
(* add(), under the lock.                                                   *)
Add(s) ==
    /\ seq < MaxSeq /\ seq' = seq + 1
    /\ rings' = [rings EXCEPT ![s][heads[s]] = seq']
    /\ heads' = [heads EXCEPT ![s] = (@ + 1) % PerSource]
    /\ heard' = [heard EXCEPT ![s] = Append(@, seq')]
    /\ UNCHANGED page

(* findOlder(): the newest one below the number given, of the buses given.  *)
Older == {rings[s][i] : s \in mask, i \in Slots} \cap 1..(before - 1)
FindOldest == CHOOSE q \in Older : \A r \in Older : q <= r
FindOlder == CHOOSE q \in Older : \A r \in Older : q >= r

(* streamMessages(): one bus or all of them; one line at a time, the lock   *)
(* let go in between.                                                       *)
Asked == {{s} : s \in Sources} \cup {Sources}

Ask(wanted) ==
    /\ mask = {} /\ mask' = wanted
    /\ before' = MaxSeq + 1 /\ listed_rows' = <<>> /\ newest' = seq
    /\ UNCHANGED <<rings, heads, seq, heard>>

Show ==
    /\ mask # {} /\ Len(listed_rows) < Limit /\ Older # {}
    /\ before' = FindOlder /\ listed_rows' = Append(listed_rows, before')
    /\ UNCHANGED <<rings, heads, seq, mask, newest, heard>>

FinishPage ==
    /\ mask # {} /\ (Len(listed_rows) = Limit \/ Older = {})
    /\ mask' = {}
    /\ UNCHANGED <<rings, heads, seq, before, listed_rows, newest, heard>>

LogNext ==
    \/ \E s \in Sources : Add(s)
    \/ \E wanted \in Asked : Ask(wanted)
    \/ Show \/ FinishPage

LogSpec == LogInit /\ [][LogNext]_logVars

-----------------------------------------------------------------------------
(* rx_log.h: "a chatty NMEA2000 bus cannot push the SeaTalk lines out: each *)
(* bus keeps its own last kPerSource messages", and the page merges them:   *)
(* newest first, and however many arrive while it is made, it has not       *)
(* passed over one that was there and is still among its bus's last ones.   *)
Last(s) == {heard[s][i] : i \in {j \in DOMAIN heard[s] : j > Len(heard[s]) - PerSource}}
PageIsWhole ==
    mask # {} =>
    /\ \A i \in 1..(Len(listed_rows) - 1) : listed_rows[i] > listed_rows[i + 1]
    /\ \A s \in mask : \A q \in Last(s) :
           before <= q /\ q <= newest => \E i \in DOMAIN listed_rows : listed_rows[i] = q

=============================================================================
