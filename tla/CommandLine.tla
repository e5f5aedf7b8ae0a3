----------------------------- MODULE CommandLine ----------------------------
(***************************************************************************)
(* The serial command line of every TOBE firmware (TobeCli): the line being*)
(* typed, its history, completion, and what the terminal shows of it.  The *)
(* arguments of a secret command are shown as stars and not remembered.    *)
(***************************************************************************)
EXTENDS Naturals, Sequences, FiniteSets

CONSTANTS
    Letters,    \* the characters typed, besides the space
    Plain,      \* the names of the commands, sequences of letters
    Secret,     \* the names of the secret commands among them
    WithArgs,   \* those that take arguments
    LineMax,    \* kLineMax - 1: the longest line
    History     \* kHistory

ASSUME CommandAssumption ==
    /\ Secret \subseteq WithArgs /\ WithArgs \subseteq Plain /\ Plain \subseteq Seq(Letters)
    /\ LineMax \in Nat /\ History \in Nat \ {0}

Space == " "
Star == "*"

VARIABLES
    line,       \* s_line
    hist,       \* s_hist, oldest first
    pos,        \* s_histPos, counted from 1; 0 for the live line
    saved,      \* s_saved
    shown,      \* the terminal, right of the prompt
    ran         \* the name of the command run last, if it was one

lineVars == <<line, hist, pos, saved, shown, ran>>

Lines == UNION {[1..n -> Letters \cup {Space}] : n \in 0..LineMax}

LineTypeOK ==
    /\ line \in Lines /\ saved \in Lines
    /\ hist \in Seq(Lines) /\ Len(hist) <= History
    /\ pos \in 0..Len(hist)
    /\ ran \in Plain \cup {<<>>}
    /\ shown \in Seq(Letters \cup {Space, Star}) /\ Len(shown) <= LineMax

-----------------------------------------------------------------------------
(* commandOf(), isSecret(): the first word, once a space ends it.           *)
Spaces(l) == {i \in DOMAIN l : l[i] = Space}
FirstSpace(l) == CHOOSE i \in Spaces(l) : \A j \in Spaces(l) : i <= j
Word(l) == SubSeq(l, 1, FirstSpace(l) - 1)
IsSecret(l) == Spaces(l) # {} /\ Word(l) \in Secret

(* redraw(): what follows the space is shown as stars.                      *)
Masked(l) ==
    [i \in DOMAIN l |-> IF IsSecret(l) /\ i > FirstSpace(l) THEN Star ELSE l[i]]

(* run(): leading spaces are skipped before the command is looked up.       *)
Trimmed(l) ==
    LET letters == {i \in DOMAIN l : l[i] # Space}
    IN IF letters = {} THEN <<>>
       ELSE SubSeq(l, CHOOSE i \in letters : \A j \in letters : i <= j, Len(l))
Name(l) == IF Spaces(l) = {} THEN l ELSE Word(l)
Run(l) == IF Name(Trimmed(l)) \in Plain THEN Name(Trimmed(l)) ELSE <<>>

(* histAdd(): not the same line twice running; the oldest makes room.       *)
HistAdd(l) ==
    IF hist # <<>> /\ hist[Len(hist)] = l THEN hist
    ELSE Append(IF Len(hist) = History THEN Tail(hist) ELSE hist, l)

LineInit ==
    /\ line = <<>> /\ hist = <<>> /\ pos = 0 /\ saved = <<>> /\ shown = <<>>
    /\ ran = <<>>

SetLine(l) == line' = l /\ shown' = Masked(l)

-----------------------------------------------------------------------------
(* A character: shown as typed unless the line is by then a secret one.     *)
TypeShown(c) ==
    /\ Len(line) < LineMax /\ line' = Append(line, c) /\ shown' = Append(shown, c)
    /\ UNCHANGED <<hist, pos, saved, ran>>

Type(c) ==
    /\ Len(line) < LineMax /\ line' = Append(line, c)
    /\ shown' = Append(shown, IF IsSecret(line') /\ Len(line') > FirstSpace(line') THEN Star ELSE c)
    /\ UNCHANGED <<hist, pos, saved, ran>>

Backspace ==
    /\ line # <<>>
    /\ line' = SubSeq(line, 1, Len(line) - 1) /\ shown' = SubSeq(shown, 1, Len(shown) - 1)
    /\ UNCHANGED <<hist, pos, saved, ran>>

(* Ctrl-C and Ctrl-U empty the line, and leave the recall where it was.     *)
Abandon ==
    /\ SetLine(<<>>)
    /\ UNCHANGED <<hist, pos, saved, ran>>

Enter ==
    /\ hist' = IF line # <<>> /\ ~IsSecret(line) THEN HistAdd(line) ELSE hist
    /\ pos' = 0 /\ SetLine(<<>>)
    /\ ran' = IF line # <<>> THEN Run(line) ELSE ran
    /\ UNCHANGED saved

Up ==
    /\ hist # <<>>
    /\ IF pos = 0
       THEN saved' = line /\ pos' = Len(hist)
       ELSE pos' = (IF pos > 1 THEN pos - 1 ELSE 1) /\ UNCHANGED saved
    /\ SetLine(hist[pos'])
    /\ UNCHANGED <<hist, ran>>

Down ==
    /\ pos # 0
    /\ IF pos < Len(hist)
       THEN pos' = pos + 1 /\ SetLine(hist[pos'])
       ELSE pos' = 0 /\ SetLine(saved)
    /\ UNCHANGED <<hist, saved, ran>>

(* complete(): one match is filled in, if it and a space fit, the space for *)
(* its arguments; several are extended to what they share.                  *)
IsPrefix(p, l) == Len(p) <= Len(l) /\ SubSeq(l, 1, Len(p)) = p
Matches == {w \in Plain : IsPrefix(line, w)}
Shared == CHOOSE p \in Lines : /\ \A w \in Matches : IsPrefix(p, w)
                               /\ \A q \in Lines : (\A w \in Matches : IsPrefix(q, w)) => Len(q) <= Len(p)
Completed ==
    IF Cardinality(Matches) > 1 THEN Shared
    ELSE IF Len(Shared) + 1 >= LineMax THEN line
    ELSE IF Shared \in WithArgs THEN Append(Shared, Space) ELSE Shared

Complete ==
    /\ Spaces(line) = {} /\ Matches # {}
    /\ SetLine(Completed)
    /\ UNCHANGED <<hist, pos, saved, ran>>

LineNext ==
    \/ \E c \in Letters \cup {Space} : Type(c)
    \/ Backspace \/ Abandon \/ Enter \/ Up \/ Down \/ Complete

LineSpec == LineInit /\ [][LineNext]_lineVars

-----------------------------------------------------------------------------
(* TobeCli.h: the arguments of a secret command "are echoed as '*'" and a   *)
(* line of one "is never remembered".  True of a line that starts with the  *)
(* command: the terminal always shows exactly the line being typed, its     *)
(* secret part as stars, and no such line is in the history.                *)
ShownIsTheLine ==
    /\ shown = Masked(line)
    /\ \A i \in DOMAIN hist : ~IsSecret(hist[i])

=============================================================================
