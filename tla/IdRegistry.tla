----------------------------- MODULE IdRegistry -----------------------------
(***************************************************************************)
(* What bus enrollment promises (the ENROLLMENT section of                 *)
(* EngineControl/common/can_protocol.h), with no bus, no table in RAM and  *)
(* no power cuts: an index is granted once, to one board, for ever; a      *)
(* board holds either nothing or the one index granted to it.              *)
(***************************************************************************)

CONSTANTS Boards,    \* MAC addresses of the slave nodes
          Ids,       \* the working indexes of all the pools
          Pool,      \* Pool[b]: the indexes of the pool of b's kind
          NoBoard,   \* the owner of an index nobody was granted
          NoId       \* what a board without an index holds

VARIABLES owner,     \* owner[i]: the board index i was granted to
          holds      \* holds[b]: the index board b works under

vars == <<owner, holds>>

TypeOK ==
  /\ owner \in [Ids -> Boards \cup {NoBoard}]
  /\ holds \in [Boards -> Ids \cup {NoId}]

Init ==
  /\ owner = [i \in Ids |-> NoBoard]
  /\ holds = [b \in Boards |-> NoId]

\* A board the master never saw is granted an index nobody else was granted.
Grant(b, i) ==
  /\ i \in Pool[b]
  /\ owner[i] = NoBoard
  /\ \A j \in Ids : owner[j] # b
  /\ owner' = [owner EXCEPT ![i] = b]
  /\ UNCHANGED holds

\* The board starts to work under its own index.
Take(b, i) ==
  /\ owner[i] = b
  /\ holds[b] = NoId
  /\ holds' = [holds EXCEPT ![b] = i]
  /\ UNCHANGED owner

\* The board loses power; the grant stays.
Drop(b) ==
  /\ holds' = [holds EXCEPT ![b] = NoId]
  /\ UNCHANGED owner

Next ==
  \E b \in Boards :
    \/ \E i \in Ids : Grant(b, i) \/ Take(b, i)
    \/ Drop(b)

Spec == Init /\ [][Next]_vars
=============================================================================
