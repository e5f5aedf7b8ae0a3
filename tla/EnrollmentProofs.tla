-------------------------- MODULE EnrollmentProofs --------------------------
(***************************************************************************)
(* Enrollment, for any number of boards and any pools: with one dispatching *)
(* task and no factory reset, an index belongs to one board, and the        *)
(* protocol implements IdRegistry.                                          *)
(***************************************************************************)
EXTENDS Enrollment, TLAPS

\* What the source relies on without saying so: all frames are dispatched by
\* one task, and nobody wipes the flash.
OneContext == \A c, d \in Contexts : c = d

\* No board is in two slots, and it is in a slot of its own kind.
TableRight ==
  /\ \A s, t \in Slots : slots[s] = slots[t] /\ slots[s] # NoBoard => s = t
  /\ \A s \in Slots : slots[s] # NoBoard => s \in SlotsOf(KindOf[slots[s]])

\* RAM runs ahead of flash only in the slot that is being stored.
FlashFollows ==
  \A s \in Slots :
    slots[s] # nvs[s] =>
      /\ nvs[s] = NoBoard
      /\ \E c \in Contexts : work[c].step = "store" /\ work[c].slot = s

\* What the HELM tells board b, or told it: its slot is on record, or the pool
\* is on record as full of other boards.
Truth(b, s) ==
  IF s = NoSlot
  THEN \A t \in SlotsOf(KindOf[b]) : nvs[t] \notin {b, NoBoard}
  ELSE nvs[s] = b

WorkRight ==
  \A c \in Contexts :
    LET w == work[c] IN
    /\ w.step = "claim" =>
         /\ w.slot \in SlotsOf(KindOf[w.mac])
         /\ slots[w.slot] = NoBoard
         /\ \A s \in Slots : slots[s] # w.mac
    /\ w.step = "store" =>
         /\ w.slot \in Slots
         /\ slots[w.slot] = w.mac
         /\ nvs[w.slot] = NoBoard
    /\ w.step = "send" => Truth(w.mac, w.slot)

AnswersRight == \A m \in assigns : Truth(m.mac, m.slot)

BoardsRight ==
  \A b \in Boards :
    /\ enrolled[b] => idx[b] \in Slots /\ nvs[idx[b]] = b
    /\ refused[b] => Truth(b, NoSlot)
    /\ given[b] # NoSlot => nvs[given[b]] = b

\* The inductive invariant.
Inv ==
  /\ TypeOK
  /\ TableRight
  /\ FlashFollows
  /\ WorkRight
  /\ AnswersRight
  /\ BoardsRight
-----------------------------------------------------------------------------
\* A board's pool is part of the index space, and "no slot" is not.
LEMMA PoolInSlots ==
  \A b \in Boards : SlotsOf(KindOf[b]) \subseteq Slots
  BY EnrollAssumption DEF Slots

\* Every handler of either side leaves the variables in their types.
LEMMA TypeStep == TypeOK /\ [Next]_vars => TypeOK'
<1> SUFFICES ASSUME TypeOK, [Next]_vars PROVE TypeOK'
  OBVIOUS
<1> USE DEF TypeOK
<1>1. ASSUME NEW b \in Boards, Request(b) \/ PowerCut(b) \/ LoseRequest(b)
      PROVE TypeOK'
  <2>1. CASE Request(b) \/ LoseRequest(b)
    BY <2>1 DEF Request, LoseRequest, helm, board
  <2>2. CASE PowerCut(b)
    <3>1. cuts' \in [Boards -> 0 .. MaxPowerCuts]
      BY <2>2, EnrollAssumption DEF PowerCut
    <3> QED
      BY <2>2, <3>1 DEF PowerCut, helm
  <2> QED
    BY <1>1, <2>1, <2>2
<1>2. ASSUME NEW c \in Contexts, NEW b \in Boards, Scan(c, b)
      PROVE TypeOK'
  <2>1. PICK w \in Work : work' = [work EXCEPT ![c] = w]
    BY <1>2 DEF Scan, Work
  <2> QED
    BY <1>2, <2>1 DEF Scan, board
<1>3. ASSUME NEW c \in Contexts, Claim(c)
      PROVE TypeOK'
  <2>1. work' = [work EXCEPT ![c] = [work[c] EXCEPT !.step = "store"]]
    BY <1>3 DEF Claim
  <2>2. [work[c] EXCEPT !.step = "store"] \in Work
    BY <1>3 DEF Claim, Work, Idle
  <2>3. work' \in [Contexts -> Work]
    BY <2>1, <2>2
  <2>4. work[c].mac \in Boards
    BY <1>3 DEF Claim, Work, Idle
  <2> QED
    BY <1>3, <2>3, <2>4 DEF Claim, board
<1>4. ASSUME NEW c \in Contexts, Store(c)
      PROVE TypeOK'
  <2>1. work' = [work EXCEPT ![c] = [work[c] EXCEPT !.step = "send"]]
    BY <1>4 DEF Store
  <2>2. [work[c] EXCEPT !.step = "send"] \in Work
    BY <1>4 DEF Store, Work, Idle
  <2>3. work' \in [Contexts -> Work]
    BY <2>1, <2>2
  <2>4. work[c].mac \in Boards
    BY <1>4 DEF Store, Work, Idle
  <2> QED
    BY <1>4, <2>3, <2>4 DEF Store, board
<1>5. ASSUME NEW c \in Contexts, Send(c)
      PROVE TypeOK'
  BY <1>5 DEF Send, board, Work, Assign, Idle
<1>6. ASSUME NEW m \in assigns, Adopt(m) \/ Refuse(m) \/ LoseAssign(m)
      PROVE TypeOK'
  BY <1>6 DEF Adopt, Refuse, LoseAssign, helm, board, Assign
<1>7. CASE HelmRestart
  BY <1>7, EnrollAssumption DEF HelmRestart, board, Work, Idle
<1>8. CASE FactoryReset
  BY <1>8 DEF FactoryReset, board, Empty
<1>9. CASE UNCHANGED vars
  BY <1>9 DEF vars
<1> QED
  BY <1>1, <1>2, <1>3, <1>4, <1>5, <1>6, <1>7, <1>8, <1>9 DEF Next

\* The variables keep their types, whatever is lost, repeated or restarted.
THEOREM TypeCorrect == Spec => []TypeOK
<1>1. Init => TypeOK
  BY EnrollAssumption
  DEF Init, TypeOK, Work, Idle, Assign, Empty
<1> QED
  BY <1>1, TypeStep, PTL DEF Spec

-----------------------------------------------------------------------------
\* While flash only fills up, what the HELM told a board stays true.
LEMMA TruthStays ==
  ASSUME NEW b \in Boards, NEW s \in Slots \cup {NoSlot},
         \A t \in Slots : nvs[t] # NoBoard => nvs'[t] = nvs[t],
         Truth(b, s)
  PROVE  Truth(b, s)'
<1>1. CASE s = NoSlot
  BY <1>1, PoolInSlots DEF Truth
<1>2. CASE s # NoSlot
  BY <1>2, EnrollAssumption DEF Truth
<1> QED
  BY <1>1, <1>2

\* No handler writes over a slot on record: flash only fills up.
LEMMA FlashOnlyFills ==
  ASSUME Inv, ~MayFactoryReset, [Next]_vars
  PROVE  \A t \in Slots : nvs[t] # NoBoard => nvs'[t] = nvs[t]
<1>1. CASE \E c \in Contexts : Store(c)
  BY <1>1 DEF Inv, TypeOK, WorkRight, Store
<1>2. CASE UNCHANGED nvs
  BY <1>2
<1> QED
  BY <1>1, <1>2 DEF Next, vars, Request, PowerCut, LoseRequest, Scan, Claim,
     Send, Adopt, Refuse, LoseAssign, HelmRestart, FactoryReset, helm

\* Every handler preserves the invariant.
LEMMA InvStep ==
  ASSUME OneContext, ~MayFactoryReset, Inv, [Next]_vars
  PROVE  Inv'
<1>1. TypeOK'
  BY TypeStep DEF Inv
<1>2. \A t \in Slots : nvs[t] # NoBoard => nvs'[t] = nvs[t]
  BY FlashOnlyFills
<1>3. \A b \in Boards, s \in Slots \cup {NoSlot} : Truth(b, s) => Truth(b, s)'
  BY <1>2, TruthStays
<1> USE DEF Inv
<1>4. ASSUME NEW b \in Boards, Request(b) \/ LoseRequest(b)
      PROVE Inv'
  BY <1>1, <1>4 DEF Request, LoseRequest, helm, board, TableRight,
     FlashFollows, WorkRight, AnswersRight, BoardsRight, Truth
<1>5. ASSUME NEW b \in Boards, PowerCut(b)
      PROVE Inv'
  <2>1. BoardsRight'
    BY <1>5 DEF PowerCut, helm, BoardsRight, Truth, TypeOK
  <2> QED
    BY <1>1, <1>5, <2>1 DEF PowerCut, helm, TableRight, FlashFollows,
       WorkRight, AnswersRight, Truth
<1>6. ASSUME NEW c \in Contexts, NEW b \in Boards, Scan(c, b)
      PROVE Inv'
  <2>1. UNCHANGED <<slots, nvs, enrolled, idx, refused, given, assigns>>
    BY <1>6 DEF Scan, board
  <2>2. \A d \in Contexts : work[d].step = "idle"
    BY <1>6 DEF Scan, OneContext
  <2>3. \A s \in Slots : slots[s] = nvs[s]
    BY <2>2 DEF FlashFollows
  <2>4. WorkRight'
    <3>1. CASE \E s \in Slots :
                 /\ Lowest(s, Owned(b))
                 /\ work' = [work EXCEPT ![c] = [step |-> "send", mac |-> b, slot |-> s]]
      <4>1. PICK s \in Slots :
              /\ slots[s] = b
              /\ work' = [work EXCEPT ![c] = [step |-> "send", mac |-> b, slot |-> s]]
        BY <3>1 DEF Lowest, Owned
      <4>2. Truth(b, s)'
        BY <4>1, <2>1, <2>3, NoSlotAssumption DEF Truth
      <4> QED
        BY <4>1, <4>2, <2>1, <2>2 DEF WorkRight, OneContext, TypeOK
    <3>2. CASE \E s \in Slots :
                 /\ Owned(b) = {}
                 /\ Lowest(s, Free(b))
                 /\ work' = [work EXCEPT ![c] = [step |-> "claim", mac |-> b, slot |-> s]]
      <4>1. PICK s \in SlotsOf(KindOf[b]) :
              /\ slots[s] = NoBoard
              /\ work' = [work EXCEPT ![c] = [step |-> "claim", mac |-> b, slot |-> s]]
        BY <3>2 DEF Lowest, Free
      <4>2. \A t \in Slots : slots[t] # b
        BY <3>2, EnrollAssumption DEF TableRight, Owned
      <4> QED
        BY <4>1, <4>2, <2>1, <2>2 DEF WorkRight, OneContext, TypeOK
    <3>3. CASE /\ Owned(b) = {}
               /\ Free(b) = {}
               /\ work' = [work EXCEPT ![c] = [step |-> "send", mac |-> b, slot |-> NoSlot]]
      <4>1. Truth(b, NoSlot)'
        BY <3>3, <2>1, <2>3, PoolInSlots DEF Truth, Owned, Free
      <4> QED
        BY <3>3, <4>1, <2>1, <2>2 DEF WorkRight, OneContext, TypeOK
    <3> QED
      BY <1>6, <3>1, <3>2, <3>3 DEF Scan
  <2> QED
    BY <1>1, <2>1, <2>3, <2>4 DEF TableRight, FlashFollows, AnswersRight,
       BoardsRight, Truth
<1>7. ASSUME NEW c \in Contexts, Claim(c)
      PROVE Inv'
  <2> DEFINE w == work[c]
  <2>1. /\ w.mac \in Boards
        /\ w.slot \in SlotsOf(KindOf[w.mac])
        /\ w.slot \in Slots
        /\ slots[w.slot] = NoBoard
        /\ \A s \in Slots : slots[s] # w.mac
    BY <1>7, PoolInSlots DEF Claim, WorkRight, TypeOK, Work, Idle
  <2>2. /\ slots' = [slots EXCEPT ![w.slot] = w.mac]
        /\ work'[c].step = "store"
        /\ work'[c].mac = w.mac
        /\ work'[c].slot = w.slot
        /\ UNCHANGED <<nvs, enrolled, idx, refused, given, assigns>>
    BY <1>7 DEF Claim, board, TypeOK, Work, Idle
  <2>3. nvs[w.slot] = NoBoard
    BY <1>7, <2>1 DEF Claim, FlashFollows
  <2>4. TableRight'
    BY <2>1, <2>2 DEF TableRight, TypeOK
  <2>5. FlashFollows'
    BY <1>7, <2>1, <2>2, <2>3 DEF Claim, FlashFollows, TypeOK, OneContext
  <2>6. WorkRight'
    BY <2>1, <2>2, <2>3 DEF WorkRight, TypeOK, OneContext
  <2> QED
    BY <1>1, <2>2, <2>4, <2>5, <2>6 DEF AnswersRight, BoardsRight, Truth
<1>8. ASSUME NEW c \in Contexts, Store(c)
      PROVE Inv'
  <2> DEFINE w == work[c]
  <2>1. /\ w.mac \in Boards
        /\ w.slot \in Slots
        /\ slots[w.slot] = w.mac
        /\ nvs[w.slot] = NoBoard
    BY <1>8 DEF Store, WorkRight, TypeOK, Work, Idle
  <2>2. /\ nvs' = [nvs EXCEPT ![w.slot] = w.mac]
        /\ work'[c].step = "send"
        /\ work'[c].mac = w.mac
        /\ work'[c].slot = w.slot
        /\ UNCHANGED <<slots, enrolled, idx, refused, given, assigns>>
    BY <1>8 DEF Store, board, TypeOK, Work, Idle
  <2>3. FlashFollows'
    BY <1>8, <2>1, <2>2 DEF Store, FlashFollows, TypeOK, OneContext
  <2>4. Truth(w.mac, w.slot)'
    BY <2>1, <2>2, NoSlotAssumption DEF Truth, TypeOK
  <2>5. WorkRight'
    BY <2>1, <2>2, <2>4 DEF WorkRight, TypeOK, OneContext
  <2>6. AnswersRight'
    BY <1>3, <2>2 DEF AnswersRight, TypeOK, Assign
  <2>7. BoardsRight'
    BY <1>2, <1>3, <2>2, EnrollAssumption DEF BoardsRight, TypeOK
  <2> QED
    BY <1>1, <2>2, <2>3, <2>5, <2>6, <2>7 DEF TableRight
<1>9. ASSUME NEW c \in Contexts, Send(c)
      PROVE Inv'
  <2>1. /\ assigns' = assigns \cup {[mac |-> work[c].mac, slot |-> work[c].slot]}
        /\ work' = [work EXCEPT ![c] = Idle]
        /\ UNCHANGED <<slots, nvs, enrolled, idx, refused, given>>
    BY <1>9 DEF Send, board
  <2>2. AnswersRight'
    BY <1>9, <2>1 DEF Send, WorkRight, AnswersRight, Truth
  <2>3. WorkRight'
    BY <2>1 DEF WorkRight, TypeOK, OneContext, Idle
  <2>4. FlashFollows'
    BY <1>9, <2>1 DEF FlashFollows, TypeOK, OneContext, Send
  <2> QED
    BY <1>1, <2>1, <2>2, <2>3, <2>4 DEF TableRight, BoardsRight, Truth
<1>10. ASSUME NEW m \in assigns, Adopt(m)
       PROVE Inv'
  <2>1. BoardsRight'
    BY <1>10, NoSlotAssumption
    DEF Adopt, helm, BoardsRight, AnswersRight, Truth, TypeOK, Assign
  <2> QED
    BY <1>1, <1>10, <2>1 DEF Adopt, helm, TableRight, FlashFollows,
       WorkRight, AnswersRight, Truth
<1>11. ASSUME NEW m \in assigns, Refuse(m)
       PROVE Inv'
  <2>1. BoardsRight'
    BY <1>11 DEF Refuse, helm, BoardsRight, AnswersRight, Truth, TypeOK
  <2> QED
    BY <1>1, <1>11, <2>1 DEF Refuse, helm, TableRight, FlashFollows,
       WorkRight, AnswersRight, Truth
<1>12. ASSUME NEW m \in assigns, LoseAssign(m)
       PROVE Inv'
  BY <1>1, <1>12 DEF LoseAssign, helm, board, TableRight, FlashFollows,
     WorkRight, AnswersRight, BoardsRight, Truth
<1>13. CASE HelmRestart
  <2>1. TableRight'
    BY <1>13 DEF HelmRestart, TableRight, FlashFollows, TypeOK
  <2>2. FlashFollows' /\ WorkRight'
    BY <1>13 DEF HelmRestart, FlashFollows, WorkRight, Idle
  <2> QED
    BY <1>1, <1>13, <2>1, <2>2 DEF HelmRestart, board, AnswersRight,
       BoardsRight, Truth
<1>14. CASE FactoryReset
  BY <1>14 DEF FactoryReset
<1>15. CASE UNCHANGED vars
  BY <1>1, <1>15 DEF vars, TableRight, FlashFollows, WorkRight,
     AnswersRight, BoardsRight, Truth
<1> QED
  BY <1>4, <1>5, <1>6, <1>7, <1>8, <1>9, <1>10, <1>11, <1>12, <1>13, <1>14,
     <1>15 DEF Next

\* The invariant holds throughout.
LEMMA InvAlways ==
  ASSUME OneContext, ~MayFactoryReset
  PROVE  Spec => []Inv
<1>1. Init => Inv
  BY EnrollAssumption
  DEF Init, Inv, TypeOK, Work, Idle, Assign, Empty, TableRight,
      FlashFollows, WorkRight, AnswersRight, BoardsRight, Truth
<1>2. Inv /\ [Next]_vars => Inv'
  BY InvStep
<1> QED
  BY <1>1, <1>2, PTL DEF Spec

-----------------------------------------------------------------------------
\* No index is ever in use by two boards, for any number of boards, pools and
\* restarts, when one task dispatches the frames and flash is never wiped.
THEOREM IndexIsUnique ==
  ASSUME OneContext, ~MayFactoryReset
  PROVE  Spec => [](UniqueIndex /\ InUseIsOnRecord)
<1>1. Inv => UniqueIndex /\ InUseIsOnRecord
  BY DEF Inv, BoardsRight, UniqueIndex, InUseIsOnRecord
<1> QED
  BY <1>1, InvAlways, PTL

\* A board is told "no slot" only when its pool really is full.
THEOREM RefusalIsTrue ==
  ASSUME OneContext, ~MayFactoryReset
  PROVE  Spec => []RefusedOnlyWhenFull
<1>1. Inv => RefusedOnlyWhenFull
  <2> SUFFICES ASSUME Inv, NEW b \in Boards, refused[b],
                      NEW s \in SlotsOf(KindOf[b])
               PROVE  slots[s] \notin {b, NoBoard}
    BY DEF RefusedOnlyWhenFull
  <2>1. s \in Slots
    BY PoolInSlots
  <2>2. nvs[s] \notin {b, NoBoard}
    BY DEF Inv, BoardsRight, Truth
  <2> QED
    BY <2>1, <2>2 DEF Inv, FlashFollows
<1> QED
  BY <1>1, InvAlways, PTL

\* A board that comes back gets the index it had the first time.
THEOREM IndexComesBack ==
  ASSUME OneContext, ~MayFactoryReset
  PROVE  Spec => SameIndexBack
<1>1. Inv /\ Inv' /\ [Next]_vars =>
        \A b \in Boards :
          enrolled'[b] /\ given[b] # NoSlot => idx'[b] = given[b]
  <2> SUFFICES ASSUME Inv, Inv', [Next]_vars, ~MayFactoryReset,
                      NEW b \in Boards, enrolled'[b], given[b] # NoSlot
               PROVE  idx'[b] = given[b]
    OBVIOUS
  <2>1. /\ idx'[b] \in Slots
        /\ nvs'[idx'[b]] = b
    BY DEF Inv, BoardsRight
  <2>2. /\ given[b] \in Slots
        /\ nvs'[given[b]] = b
    BY FlashOnlyFills, EnrollAssumption DEF Inv, BoardsRight, TypeOK
  <2>3. /\ slots'[idx'[b]] = b
        /\ slots'[given[b]] = b
    BY <2>1, <2>2, EnrollAssumption DEF Inv, FlashFollows
  <2> QED
    BY <2>1, <2>2, <2>3, EnrollAssumption DEF Inv, TableRight
<1> QED
  BY <1>1, InvAlways, PTL DEF Spec, SameIndexBack

\* The protocol, with its lossy bus, its volatile table and its restarts, is
\* an implementation of the registry.
THEOREM RegistryImplemented ==
  ASSUME OneContext, ~MayFactoryReset
  PROVE  Spec => ImplementsRegistry
<1>1. Init => Registry!Init
  BY DEF Init, Registry!Init, Empty
<1>2. Inv /\ [Next]_vars => [Registry!Next]_(Registry!vars)
  <2> SUFFICES ASSUME Inv, [Next]_vars
               PROVE  Registry!Next \/ UNCHANGED Registry!vars
    OBVIOUS
  <2> USE DEF Registry!vars
  <2>1. CASE UNCHANGED <<nvs, enrolled, idx>>
    BY <2>1
  <2>2. ASSUME NEW c \in Contexts, Store(c)
        PROVE Registry!Next
    <3> DEFINE b == work[c].mac
               s == work[c].slot
    <3>1. /\ b \in Boards
          /\ s \in Slots
          /\ slots[s] = b
          /\ nvs[s] = NoBoard
      BY <2>2 DEF Inv, Store, WorkRight, TypeOK, Work, Idle
    <3>2. s \in SlotsOf(KindOf[b])
      BY <3>1, EnrollAssumption DEF Inv, TableRight
    <3>3. \A t \in Slots : nvs[t] # b
      BY <3>1, EnrollAssumption DEF Inv, TableRight, FlashFollows
    <3>4. /\ nvs' = [nvs EXCEPT ![s] = b]
          /\ UNCHANGED <<enrolled, idx>>
      BY <2>2 DEF Store, board
    <3>5. Registry!Grant(b, s)
      BY <3>1, <3>2, <3>3, <3>4 DEF Registry!Grant
    <3> QED
      BY <3>1, <3>5 DEF Registry!Next
  <2>3. ASSUME NEW m \in assigns, Adopt(m)
        PROVE Registry!Next
    <3>1. /\ m.mac \in Boards
          /\ m.slot \in Slots
          /\ nvs[m.slot] = m.mac
      BY <2>3 DEF Inv, Adopt, AnswersRight, Truth, TypeOK, Assign
    <3>2. Registry!Take(m.mac, m.slot)
      BY <2>3, <3>1 DEF Adopt, helm, Registry!Take, Inv, TypeOK
    <3> QED
      BY <3>1, <3>2 DEF Registry!Next
  <2>4. ASSUME NEW b \in Boards, PowerCut(b)
        PROVE Registry!Next
    <3>1. Registry!Drop(b)
      BY <2>4 DEF PowerCut, helm, Registry!Drop, Inv, TypeOK
    <3> QED
      BY <3>1 DEF Registry!Next
  <2> QED
    BY <2>1, <2>2, <2>3, <2>4 DEF Next, vars, Request, LoseRequest, Scan,
       Claim, Send, Refuse, LoseAssign, HelmRestart, FactoryReset, helm, board
<1> QED
  BY <1>1, <1>2, InvAlways, PTL DEF Spec, ImplementsRegistry, Registry!Spec
=============================================================================
