---------------------------- MODULE MCEnrollment ----------------------------
(* Instances of Enrollment: two or three engine controllers and an alarmer. *)
EXTENDS Enrollment, TLC

CONSTANTS e1, e2, e3, al, loop, radio

MCKinds == {"engine", "alarmer"}
MCKindOf == [b \in Boards |-> IF b = al THEN "alarmer" ELSE "engine"]
TwoEngineSlots == [k \in MCKinds |-> IF k = "engine" THEN 2 ELSE 1]

EngineBoards == Permutations({e1, e2, e3})
=============================================================================
