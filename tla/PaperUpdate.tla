---------------------------- MODULE PaperUpdate ----------------------------
(***************************************************************************)
(* How the paper display replaces its own program: update.Apply, run by    *)
(* the periodic check (autoUpdate) and by "Update now" (UpdateNow), two    *)
(* threads of the same process; and the launcher startpaper.sh, which cron *)
(* runs every minute: it starts the program, counts its crashes, goes back *)
(* to the previous version, gives up, and hands the screen back.           *)
(*                                                                         *)
(* A file is an inode with a content; a name may be moved to another inode *)
(* while a thread still writes to the first. A content is what was last    *)
(* written to each of its parts: a version, 0, or Unwritten. Apply does    *)
(* not sync what it writes: until the kernel has, a power cut may lose it. *)
(* The kernel is done within a minute, before the next download; renames   *)
(* are taken to reach the disk in their order. Faults (a failed or damaged *)
(* download, a failed rename, a crash of a good version, a power cut, at   *)
(* any step) are bounded by MaxFaults, published versions by the size of   *)
(* Versions. TwoAtOnce admits "Update now" while the periodic check is at  *)
(* work, or the other way round, which no lock prevents.                   *)
(***************************************************************************)
EXTENDS Integers, FiniteSets

CONSTANTS Versions,      \* released versions, 1 is the first installed
          Bad,           \* those that exit with an error as soon as they start
          RollbackAfter, \* ROLLBACK_AFTER
          GiveUpAfter,   \* GIVE_UP_AFTER
          MaxFaults, TwoAtOnce

ASSUME UpdateAssumption ==
    /\ Versions \subseteq Nat \ {0} /\ 1 \in Versions
    /\ Bad \subseteq Versions \ {1}
    /\ RollbackAfter \in Nat /\ GiveUpAfter \in Nat
    /\ MaxFaults \in Nat /\ TwoAtOnce \in BOOLEAN

VARIABLES published,  \* what the manifest names
          name,       \* exe, exe.prev, exe.new: an inode, or None
          disk,       \* inode -> content
          unsynced,   \* the inode whose content the disk does not have yet, or None
          program,        \* up: running; runs: the version that was started
          thread,     \* the two updaters of the running process
          launch,     \* exit: what the wrapper noted; crashes; moved: halfway a rollback
          box,        \* the files `disable` and `pause`, and whether the stock UI has the screen
          faults

programVars == <<published, name, disk, unsynced, program, thread, launch, box, faults>>

Parts == 1..2
Inodes == 1..5
None == 0
Unwritten == -1
BrokenContent == 0                      \* runs: a content that is no whole version
Updaters == {"auto", "hand"}

Contents == [Parts -> Versions \union {0, Unwritten}]
Whole(c) == c[1] = c[2] /\ c[1] \in Versions
VersionOf(c) == IF Whole(c) THEN c[1] ELSE BrokenContent
Runs == program.up /\ program.runs \in Versions \ Bad

UpdateSteps == {"idle", "fetch", "hash", "chmod", "prev", "out", "in", "resting"}
IdleThread == [pc |-> "idle", rel |-> 0, ino |-> None, part |-> 1, ok |-> TRUE]
NoThreads == [t \in Updaters |-> IdleThread]

ProgramTypeOK ==
    /\ published \in Versions
    /\ name \in [{"exe", "prev", "new"} -> Inodes \union {None}]
    /\ disk \in [Inodes -> Contents] /\ unsynced \in Inodes \union {None}
    /\ program \in [up : BOOLEAN, runs : Versions \union {BrokenContent}]
    /\ thread \in [Updaters -> [pc : UpdateSteps, rel : Versions \union {0}, ino : Inodes \union {None},
                               part : 1..3, ok : BOOLEAN]]
    /\ launch \in [exit : {"none", "clean", "error"}, crashes : Nat, moved : BOOLEAN]
    /\ box \in [disable : BOOLEAN, pause : BOOLEAN, stock : BOOLEAN]
    /\ faults \in 0..MaxFaults

(* Version 1 has just been deployed; cron has not run yet. *)
ProgramInit ==
    /\ published = 1
    /\ name = [exe |-> 1, prev |-> None, new |-> None]
    /\ disk = [i \in Inodes |-> [p \in Parts |-> IF i = 1 THEN 1 ELSE 0]]
    /\ unsynced = None
    /\ program = [up |-> FALSE, runs |-> 1]
    /\ thread = NoThreads
    /\ launch = [exit |-> "none", crashes |-> 0, moved |-> FALSE]
    /\ box = [disable |-> FALSE, pause |-> FALSE, stock |-> TRUE]
    /\ faults = 0

Fault == faults < MaxFaults /\ faults' = faults + 1

-----------------------------------------------------------------------------
(* update.Apply, one step for each thing it does to the disk. *)

OtherUpdater(t) == CHOOSE u \in Updaters : u # t

(* A check is begun (a due periodic one, or a tap): the manifest is read.  *)
(* A newer release is opened for writing: exe.new, emptied if it is there. *)
Used == {name[n] : n \in DOMAIN name} \union {thread[t].ino : t \in Updaters}
Spare == CHOOSE i \in Inodes : i \notin Used /\ \A j \in Inodes \ Used : i <= j

MayBegin(t) ==
    /\ thread[t].pc = "idle" \/ (TwoAtOnce /\ t = "hand" /\ thread[t].pc = "resting")
    /\ TwoAtOnce \/ thread[OtherUpdater(t)].pc = "idle"

Begin(t) ==
    /\ Runs /\ MayBegin(t)
    /\ published > program.runs
    /\ unsynced = None
    /\ LET i == IF name.new = None THEN Spare ELSE name.new IN
       /\ name' = [name EXCEPT !.new = i]
       /\ disk' = [disk EXCEPT ![i] = [p \in Parts |-> 0]]
       /\ unsynced' = i
       /\ thread' = [thread EXCEPT ![t] =
                        [pc |-> "fetch", rel |-> published, ino |-> i, part |-> 1, ok |-> TRUE]]
    /\ UNCHANGED <<published, program, launch, box, faults>>

At(t, step) == Runs /\ thread[t].pc = step
Goes(t, step) == thread' = [thread EXCEPT ![t].pc = step]
Ends(t) == thread' = [thread EXCEPT ![t] = IdleThread]
Keep == UNCHANGED <<published, unsynced, program, launch, box>>

(* The next part arrives: it is written to the file and to the hash. *)
Fetch(t) ==
    /\ At(t, "fetch")
    /\ LET th == thread[t] IN
       /\ \/ /\ disk' = [disk EXCEPT ![th.ino][th.part] = th.rel]
             /\ thread' = [thread EXCEPT ![t].part = @ + 1,
                                         ![t].pc = IF th.part = Cardinality(Parts) THEN "hash" ELSE "fetch"]
             /\ UNCHANGED faults
          \/ /\ Fault                                              \* damaged on its way
             /\ disk' = [disk EXCEPT ![th.ino][th.part] = 0]
             /\ thread' = [thread EXCEPT ![t].part = @ + 1, ![t].ok = FALSE,
                                         ![t].pc = IF th.part = Cardinality(Parts) THEN "hash" ELSE "fetch"]
    /\ Keep /\ UNCHANGED name

RemoveNew == name' = [name EXCEPT !.new = None]

FetchFails(t) ==
    /\ At(t, "fetch") /\ Fault
    /\ RemoveNew /\ Ends(t)
    /\ Keep /\ UNCHANGED disk

HashUnseen(t) ==
    /\ At(t, "hash")
    /\ Goes(t, "chmod") /\ UNCHANGED name
    /\ Keep /\ UNCHANGED <<disk, faults>>

(* The hash of what was received against the manifest's. *)
Hash(t) ==
    /\ At(t, "hash")
    /\ IF thread[t].ok THEN Goes(t, "chmod") /\ UNCHANGED name
                       ELSE Ends(t) /\ RemoveNew
    /\ Keep /\ UNCHANGED <<disk, faults>>

Chmod(t) ==
    /\ At(t, "chmod")
    /\ IF name.new # None THEN Goes(t, "prev") ELSE Ends(t)
    /\ Keep /\ UNCHANGED <<name, disk, faults>>

RemovePrev(t) ==
    /\ At(t, "prev")
    /\ name' = [name EXCEPT !.prev = None] /\ Goes(t, "out")
    /\ Keep /\ UNCHANGED <<disk, faults>>

MoveOut(t) ==
    /\ At(t, "out")
    /\ \/ /\ name.exe # None
          /\ name' = [name EXCEPT !.prev = name.exe, !.exe = None]
          /\ Goes(t, "in") /\ UNCHANGED faults
       \/ /\ (name.exe = None /\ UNCHANGED faults) \/ Fault
          /\ RemoveNew /\ Ends(t)
    /\ Keep /\ UNCHANGED disk

(* exe.new becomes exe; if that fails the old one is put back. The         *)
(* periodic check restarts the program at once, "Update now" after 4 s.    *)
PutBack == [name EXCEPT !.exe = IF name.prev # None THEN name.prev ELSE name.exe,
                        !.prev = None, !.new = None]

MoveIn(t) ==
    /\ At(t, "in")
    /\ \/ /\ name.new # None
          /\ name' = [name EXCEPT !.exe = name.new, !.new = None]
          /\ thread' = [thread EXCEPT ![t] = [IdleThread EXCEPT !.pc = "resting"]]
          /\ UNCHANGED faults
       \/ /\ (name.new = None /\ UNCHANGED faults) \/ Fault
          /\ name' = PutBack /\ Ends(t)
    /\ Keep /\ UNCHANGED disk

(* The process ends: with status 0, or 1 when it took longer than 2 s      *)
(* (forceExitAfterCancel). Its threads end wherever they are.              *)
Exits(status) ==
    /\ program' = [program EXCEPT !.up = FALSE] /\ thread' = NoThreads
    /\ launch' = [launch EXCEPT !.exit = status]

RestartProgram ==
    /\ Runs /\ \E t \in Updaters : thread[t].pc = "resting"
    /\ \E status \in {"clean", "error"} : Exits(status)
    /\ UNCHANGED <<published, name, disk, unsynced, box, faults>>

-----------------------------------------------------------------------------
(* The program dies: a bad or broken one as soon as it is started. *)
Dies ==
    /\ program.up /\ program.runs \notin Versions \ Bad
    /\ Exits("error")
    /\ UNCHANGED <<published, name, disk, unsynced, box, faults>>

Crash ==
    /\ Runs /\ Fault
    /\ Exits("error")
    /\ UNCHANGED <<published, name, disk, unsynced, box>>

(* The counts are in tmpfs; the stock UI comes up with the device. What    *)
(* was written and not synced may be lost, or a part of it.                *)
PowerCut ==
    /\ Fault
    /\ IF unsynced = None
       THEN UNCHANGED disk
       ELSE \E lost \in SUBSET Parts :
                disk' = [disk EXCEPT ![unsynced] =
                            [p \in Parts |-> IF p \in lost THEN Unwritten ELSE @[p]]]
    /\ unsynced' = None
    /\ program' = [program EXCEPT !.up = FALSE] /\ thread' = NoThreads
    /\ launch' = [exit |-> "none", crashes |-> 0, moved |-> FALSE]
    /\ box' = [box EXCEPT !.stock = TRUE]
    /\ UNCHANGED <<published, name>>

(* The kernel writes back what it holds, within a minute. *)
Writeback ==
    /\ unsynced # None
    /\ \A t \in Updaters : thread[t].pc # "fetch"
    /\ unsynced' = None
    /\ UNCHANGED <<published, name, disk, program, thread, launch, box, faults>>

-----------------------------------------------------------------------------
(* startpaper.sh, once a minute. *)

Disabled ==
    /\ ~launch.moved /\ ~box.pause /\ box.disable
    /\ box' = [box EXCEPT !.stock = TRUE]
    /\ IF program.up THEN \E status \in {"clean", "error"} : Exits(status)
                 ELSE UNCHANGED <<program, thread, launch>>
    /\ UNCHANGED <<published, name, disk, unsynced, faults>>

Wanted == ~launch.moved /\ ~box.pause /\ ~box.disable /\ ~program.up /\ name.exe # None

Counted == launch.crashes + (IF launch.exit = "error" THEN 1 ELSE 0)
RollsBack == Counted >= RollbackAfter /\ name.prev # None
GivesUp == ~RollsBack /\ Counted >= GiveUpAfter

(* The two `mv` of a rollback. *)
RollBack ==
    /\ Wanted /\ RollsBack
    /\ name' = [name EXCEPT !.exe = None]
    /\ launch' = [exit |-> "none", crashes |-> Counted, moved |-> TRUE]
    /\ UNCHANGED <<published, disk, unsynced, program, thread, box, faults>>

Started(n) ==
    /\ program' = [up |-> TRUE, runs |-> VersionOf(disk[n])]
    /\ box' = [box EXCEPT !.stock = FALSE]

RolledBack ==
    /\ launch.moved
    /\ name' = [name EXCEPT !.exe = name.prev, !.prev = None]
    /\ launch' = [exit |-> "none", crashes |-> 0, moved |-> FALSE]
    /\ Started(name.prev)
    /\ UNCHANGED <<published, disk, unsynced, thread, faults>>

GiveUp ==
    /\ Wanted /\ GivesUp
    /\ launch' = [launch EXCEPT !.exit = "none", !.crashes = Counted]
    /\ box' = [box EXCEPT !.stock = TRUE]
    /\ UNCHANGED <<published, name, disk, unsynced, program, thread, faults>>

StartUncounted ==
    /\ Wanted /\ ~RollsBack /\ ~GivesUp
    /\ launch' = [launch EXCEPT !.exit = "none"]
    /\ Started(name.exe)
    /\ UNCHANGED <<published, name, disk, unsynced, thread, faults>>

StartProgram ==
    /\ Wanted /\ ~RollsBack /\ ~GivesUp
    /\ launch' = [launch EXCEPT !.exit = "none", !.crashes = Counted]
    /\ Started(name.exe)
    /\ UNCHANGED <<published, name, disk, unsynced, thread, faults>>

(* Crashes older than WINDOW are forgotten. Those of a program that dies   *)
(* on every start follow each other within it.                             *)
Age ==
    /\ launch.crashes > 0 /\ ~launch.moved
    /\ Runs \/ GivesUp \/ ~(Wanted \/ program.up)
    /\ launch' = [launch EXCEPT !.crashes = @ - 1]
    /\ UNCHANGED <<published, name, disk, unsynced, program, thread, box, faults>>

-----------------------------------------------------------------------------
(* The owner publishes the next version, and uses the two switches. *)
Publish ==
    /\ published + 1 \in Versions
    /\ published' = published + 1
    /\ UNCHANGED <<name, disk, unsynced, program, thread, launch, box, faults>>

Switch ==
    /\ \/ box' = [box EXCEPT !.disable = ~@]
       \/ box' = [box EXCEPT !.pause = ~@]
    /\ UNCHANGED <<published, name, disk, unsynced, program, thread, launch, faults>>

ApplyStep(t) ==
    \/ Fetch(t) \/ Hash(t) \/ Chmod(t) \/ RemovePrev(t) \/ MoveOut(t) \/ MoveIn(t)

Launcher == Disabled \/ RollBack \/ RolledBack \/ GiveUp \/ StartProgram

ProgramNext ==
    \/ \E t \in Updaters : Begin(t) \/ ApplyStep(t) \/ FetchFails(t)
    \/ RestartProgram \/ Dies \/ Crash \/ PowerCut \/ Writeback
    \/ Launcher \/ Age
    \/ Publish \/ Switch

ProgramFairness ==
    /\ WF_programVars(Begin("auto"))
    /\ \A t \in Updaters : WF_programVars(ApplyStep(t))
    /\ WF_programVars(RestartProgram) /\ WF_programVars(Dies) /\ WF_programVars(Writeback)
    /\ WF_programVars(Launcher) /\ WF_programVars(Age)

ProgramSpec == ProgramInit /\ [][ProgramNext]_programVars
ProgramFairSpec == ProgramSpec /\ ProgramFairness

-----------------------------------------------------------------------------
(* What is installed is a whole version, unless a power cut lost what was  *)
(* just written; and whatever is cut short, and wherever, one whole version *)
(* is left: the installed one, or the one kept as exe.prev.                *)
LostIn(c) == \E p \in Parts : c[p] = Unwritten
WholeVersionLeft ==
    /\ name.exe # None => Whole(disk[name.exe]) \/ LostIn(disk[name.exe])
    /\ \/ name.exe # None /\ Whole(disk[name.exe])
       \/ name.prev # None /\ Whole(disk[name.prev])

(* The program is missing, and no rename is about to bring it back: the    *)
(* launcher does nothing more ("missing or not executable").               *)
Between == launch.moved \/ \E t \in Updaters : thread[t].pc = "in"
Missing == name.exe = None /\ ~Between

(* "On any failure the running binary is left untouched".                  *)
BinaryLeft == ~Missing

(* Whatever is published, the display works again and again: a release     *)
(* that dies on every start, or of which a power cut lost a part, is rolled *)
(* back by the launcher; unless the program is missing.                    *)
Off == box.disable \/ box.pause
ComesBack == []<>(Runs \/ Off \/ Missing)

(* A good newest release is in the end the one that runs, through failed   *)
(* downloads, crashes and power cuts; unless the program is missing.       *)
Newest == CHOOSE v \in Versions : \A w \in Versions : v >= w
UpToDate ==
    <>[](published = Newest /\ ~Off /\ ~Missing) => <>[](Runs /\ program.runs = Newest)

(* A display that is switched off gives the screen back to the Kindle. *)
ScreenGivenBack == (box.disable /\ ~box.pause) ~> (box.stock \/ ~box.disable \/ box.pause)
=============================================================================
