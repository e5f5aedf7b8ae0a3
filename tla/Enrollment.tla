----------------------------- MODULE Enrollment -----------------------------
(***************************************************************************)
(* Dynamic addressing on the engine bus: the HELM (bus master) hands out   *)
(* working indexes by MAC address, over a bus that loses, repeats and      *)
(* delays frames, while the HELM and the boards may restart at any time.   *)
(*   master: EngineControl/engine_display/src/engine_display.ino           *)
(*   slaves: EngineControl/can_sim/src/can_sim.ino                         *)
(* A frame once sent may be received any number of times, in any order,    *)
(* until it is lost.  The retry timers are left out: an unenrolled board   *)
(* may ask again at any moment.                                            *)
(***************************************************************************)
EXTENDS Naturals, FiniteSets

CONSTANTS Boards,          \* MAC addresses of the slave nodes
          Kinds,           \* node types that own a pool of indexes
          KindOf,          \* KindOf[b]: the node type board b announces
          Size,            \* Size[k]: MD_MAX_ENGINES, MD_MAX_ALARMERS
          Contexts,        \* the HELM's tasks that dispatch received frames
          MayFactoryReset, \* the operator may use Settings -> Factory Reset
          MaxRestarts,     \* bound on the restarts of the HELM
          MaxPowerCuts,    \* bound on the power cuts of each board
          NoBoard, NoSlot

ASSUME EnrollAssumption ==
  /\ KindOf \in [Boards -> Kinds]
  /\ Size \in [Kinds -> Nat]
  /\ NoBoard \notin Boards
  /\ MayFactoryReset \in BOOLEAN
  /\ MaxRestarts \in Nat
  /\ MaxPowerCuts \in Nat

SlotsOf(k) == {k} \X (0 .. Size[k] - 1)
Slots == UNION {SlotsOf(k) : k \in Kinds}

ASSUME NoSlotAssumption == NoSlot \notin Slots

VARIABLES
  slots,     \* engine_slots / alarmer_slots in the HELM's RAM: slot -> MAC
  nvs,       \* the same table in flash ("encM%d" / "almM%d")
  work,      \* per context: where it is in enroll_find_or_assign()
  requests,  \* ENROLL_REQUEST frames on the bus (the MAC asking)
  assigns,   \* ENROLL_ASSIGN frames on the bus
  enrolled,  \* the slave's enrolled flag
  idx,       \* the slave's working index
  refused,   \* the slave's last_assign_none
  given,     \* history: the first index the slave ever adopted
  restarts,  \* restarts of the HELM so far (bounded)
  cuts       \* power cuts of each board so far (bounded)

helm == <<slots, nvs, work>>
board == <<enrolled, idx, refused, given>>
vars == <<slots, nvs, work, requests, assigns, enrolled, idx, refused,
          given, restarts, cuts>>

Idle == [step |-> "idle", mac |-> NoBoard, slot |-> NoSlot]
Work == {Idle} \cup
        [step : {"claim", "store", "send"}, mac : Boards, slot : Slots \cup {NoSlot}]
Assign == [mac : Boards, slot : Slots \cup {NoSlot}]
Empty == [s \in Slots |-> NoBoard]

TypeOK ==
  /\ slots \in [Slots -> Boards \cup {NoBoard}]
  /\ nvs \in [Slots -> Boards \cup {NoBoard}]
  /\ work \in [Contexts -> Work]
  /\ requests \subseteq Boards
  /\ assigns \subseteq Assign
  /\ enrolled \in [Boards -> BOOLEAN]
  /\ idx \in [Boards -> Slots \cup {NoSlot}]
  /\ refused \in [Boards -> BOOLEAN]
  /\ given \in [Boards -> Slots \cup {NoSlot}]
  /\ restarts \in 0 .. MaxRestarts
  /\ cuts \in [Boards -> 0 .. MaxPowerCuts]

Init ==
  /\ slots = Empty
  /\ nvs = Empty
  /\ work = [c \in Contexts |-> Idle]
  /\ requests = {}
  /\ assigns = {}
  /\ enrolled = [b \in Boards |-> FALSE]
  /\ idx = [b \in Boards |-> NoSlot]
  /\ refused = [b \in Boards |-> FALSE]
  /\ given = [b \in Boards |-> NoSlot]
  /\ restarts = 0
  /\ cuts = [b \in Boards |-> 0]

(***************************************************************************)
(* The slave boards.                                                       *)
(***************************************************************************)

\* sim_engine_enroll_tick / alarmer_enroll_tick: an unenrolled node asks.
Request(b) ==
  /\ ~enrolled[b]
  /\ requests' = requests \cup {b}
  /\ UNCHANGED <<helm, board, assigns, restarts, cuts>>

\* sim_engine_handle_enroll_assign: NONE only slows the retries down.
Refuse(m) ==
  /\ m.slot = NoSlot
  /\ ~enrolled[m.mac]
  /\ refused' = [refused EXCEPT ![m.mac] = TRUE]
  /\ UNCHANGED <<helm, requests, assigns, enrolled, idx, given, restarts, cuts>>

\* sim_engine_handle_enroll_assign: the index is adopted.
Adopt(m) ==
  /\ m.slot # NoSlot
  /\ ~enrolled[m.mac]
  /\ enrolled' = [enrolled EXCEPT ![m.mac] = TRUE]
  /\ idx' = [idx EXCEPT ![m.mac] = m.slot]
  /\ given' = [given EXCEPT ![m.mac] = IF @ = NoSlot THEN m.slot ELSE @]
  /\ UNCHANGED <<helm, requests, assigns, refused, restarts, cuts>>

\* The board loses power: its index lives in RAM only.
PowerCut(b) ==
  /\ cuts[b] < MaxPowerCuts
  /\ cuts' = [cuts EXCEPT ![b] = @ + 1]
  /\ enrolled' = [enrolled EXCEPT ![b] = FALSE]
  /\ idx' = [idx EXCEPT ![b] = NoSlot]
  /\ refused' = [refused EXCEPT ![b] = FALSE]
  /\ UNCHANGED <<helm, requests, assigns, given, restarts>>

(***************************************************************************)
(* The HELM: enroll_find_or_assign() and send_enroll_assign(), called from *)
(* can_handle_rx().  The context is the loop task (CAN and the wired link) *)
(* or the radio's task (ESP-NOW): there is no lock between them.           *)
(***************************************************************************)

\* Mutant of Owned: the MAC is not looked up.
OwnedUnchecked(b) == {}

Owned(b) == {s \in SlotsOf(KindOf[b]) : slots[s] = b}

\* Mutant of Free: the scan ignores has_mac.
FreeAnyway(b) == SlotsOf(KindOf[b])

Free(b) == {s \in SlotsOf(KindOf[b]) : slots[s] = NoBoard}
Lowest(s, S) == s \in S /\ \A t \in S : s[2] <= t[2]

\* Mutant of Scan: a board that is on the table is not answered again.
ScanNewOnly(c, b) ==
  /\ b \in requests
  /\ work[c].step = "idle"
  /\ Owned(b) = {}
  /\ \/ \E s \in Slots :
          /\ Lowest(s, Free(b))
          /\ work' = [work EXCEPT ![c] = [step |-> "claim", mac |-> b, slot |-> s]]
     \/ /\ Free(b) = {}
        /\ work' = [work EXCEPT ![c] = [step |-> "send", mac |-> b, slot |-> NoSlot]]
  /\ UNCHANGED <<slots, nvs, board, requests, assigns, restarts, cuts>>

\* The two scans of the table: this MAC's slot, or else the first free one.
Scan(c, b) ==
  /\ b \in requests
  /\ work[c].step = "idle"
  /\ \/ \E s \in Slots :
          /\ Lowest(s, Owned(b))
          /\ work' = [work EXCEPT ![c] = [step |-> "send", mac |-> b, slot |-> s]]
     \/ \E s \in Slots :
          /\ Owned(b) = {}
          /\ Lowest(s, Free(b))
          /\ work' = [work EXCEPT ![c] = [step |-> "claim", mac |-> b, slot |-> s]]
     \/ /\ Owned(b) = {}
        /\ Free(b) = {}
        /\ work' = [work EXCEPT ![c] = [step |-> "send", mac |-> b, slot |-> NoSlot]]
  /\ UNCHANGED <<slots, nvs, board, requests, assigns, restarts, cuts>>

\* has_mac = true; memcpy(mac): the slot is taken in RAM.
Claim(c) ==
  /\ work[c].step = "claim"
  /\ slots' = [slots EXCEPT ![work[c].slot] = work[c].mac]
  /\ work' = [work EXCEPT ![c].step = "store"]
  /\ UNCHANGED <<nvs, board, requests, assigns, restarts, cuts>>

\* prefs.putString: the claim reaches flash.
Store(c) ==
  /\ work[c].step = "store"
  /\ nvs' = [nvs EXCEPT ![work[c].slot] = work[c].mac]
  /\ work' = [work EXCEPT ![c].step = "send"]
  /\ UNCHANGED <<slots, board, requests, assigns, restarts, cuts>>

\* send_enroll_assign: the answer goes out on every live transport.
Send(c) ==
  /\ work[c].step = "send"
  /\ assigns' = assigns \cup {[mac |-> work[c].mac, slot |-> work[c].slot]}
  /\ work' = [work EXCEPT ![c] = Idle]
  /\ UNCHANGED <<slots, nvs, board, requests, restarts, cuts>>

\* Mutant of HelmRestart: the table is not loaded.
RestartForgetful ==
  /\ restarts < MaxRestarts
  /\ restarts' = restarts + 1
  /\ slots' = Empty
  /\ work' = [c \in Contexts |-> Idle]
  /\ UNCHANGED <<nvs, board, requests, assigns, cuts>>

\* Power cycle or ESP.restart(): setup() runs enroll_load_from_nvs().
HelmRestart ==
  /\ restarts < MaxRestarts
  /\ restarts' = restarts + 1
  /\ slots' = nvs
  /\ work' = [c \in Contexts |-> Idle]
  /\ UNCHANGED <<nvs, board, requests, assigns, cuts>>

\* factory_reset_do_cb: prefs.clear(); the restart it arms is a HelmRestart.
FactoryReset ==
  /\ MayFactoryReset
  /\ nvs' = Empty
  /\ UNCHANGED <<slots, work, board, requests, assigns, restarts, cuts>>

(***************************************************************************)
(* The bus.                                                                *)
(***************************************************************************)

LoseRequest(b) ==
  /\ b \in requests
  /\ requests' = requests \ {b}
  /\ UNCHANGED <<helm, board, assigns, restarts, cuts>>

LoseAssign(m) ==
  /\ m \in assigns
  /\ assigns' = assigns \ {m}
  /\ UNCHANGED <<helm, board, requests, restarts, cuts>>

Next ==
  \/ \E b \in Boards : Request(b) \/ PowerCut(b) \/ LoseRequest(b)
  \/ \E c \in Contexts, b \in Boards : Scan(c, b)
  \/ \E c \in Contexts : Claim(c) \/ Store(c) \/ Send(c)
  \/ \E m \in assigns : Adopt(m) \/ Refuse(m) \/ LoseAssign(m)
  \/ HelmRestart
  \/ FactoryReset

Spec == Init /\ [][Next]_vars

\* The answer to b, whatever it says, is heard by b.
Hear(b) == \E m \in assigns : m.mac = b /\ (Adopt(m) \/ Refuse(m))

\* The firmware's loops run, and of the frames sent again and again some get
\* through.  A board retries once a second and a frame is handled in far less,
\* so the retries do not all fall while the HELM is busy with another board.
Fairness ==
  /\ \A b \in Boards : SF_vars(Hear(b))
  /\ \A c \in Contexts :
       /\ WF_vars(Claim(c)) /\ WF_vars(Store(c)) /\ WF_vars(Send(c))
       /\ \A b \in Boards :
            /\ SF_vars(Scan(c, b))
            /\ SF_vars(work[c].step = "idle" /\ Request(b))

FairSpec == Spec /\ Fairness

-----------------------------------------------------------------------------
(***************************************************************************)
(* Properties.                                                             *)
(***************************************************************************)

\* Two boards of one kind never work under the same index: a command to
\* engine e (crank, stop) reaches exactly one control board.
UniqueIndex ==
  \A a, b \in Boards :
    /\ a # b
    /\ enrolled[a]
    /\ enrolled[b]
    => idx[a] # idx[b]

\* A board that lost power, or whose master restarted, comes back under the
\* index it had the first time.
SameIndexBack ==
  [][\A b \in Boards :
       enrolled'[b] /\ given[b] # NoSlot => idx'[b] = given[b]]_vars

\* A board is refused only while its pool is full of other boards.
RefusedOnlyWhenFull ==
  \A b \in Boards :
    refused[b] => \A s \in SlotsOf(KindOf[b]) : slots[s] \notin {b, NoBoard}

\* An index in use is on record in flash, so no restart can hand it out again.
InUseIsOnRecord ==
  \A b \in Boards : enrolled[b] => nvs[idx[b]] = b

\* The protocol implements the registry: the grant is the write to flash.
Registry == INSTANCE IdRegistry WITH
  Ids <- Slots,
  Pool <- [b \in Boards |-> SlotsOf(KindOf[b])],
  NoId <- NoSlot,
  owner <- nvs,
  holds <- [b \in Boards |-> IF enrolled[b] THEN idx[b] ELSE NoSlot]

ImplementsRegistry == Registry!Spec

\* Every board that finds room ends up enrolled, however many frames are
\* lost, once the restarts are over.
EveryBoardEnrolls == \A b \in Boards : <>[](enrolled[b])
=============================================================================
