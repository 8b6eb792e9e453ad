----------------------------- MODULE LineEditor -----------------------------
(* What whoever calls keyboard_readline expects of it: a line that is typed, *)
(* erased from its end and submitted, and the last lines submitted, recalled *)
(* one by one, older or newer.  A line that fills the buffer is submitted as *)
(* it is, typed or recalled.                                                 *)
EXTENDS Integers, Sequences

CONSTANTS
    Char,      \* what can be typed
    LineMax,   \* the size of the buffer, its final 0 included
    HistMax    \* how many lines can be recalled

VARIABLES
    reading,   \* whether a line is being edited
    line,      \* the line so far, or the one just submitted
    recent,    \* the lines that can be recalled, the newest last
    back       \* how many lines back the editor is, 0 for the new line

vars == <<reading, line, recent, back>>

Init ==
    /\ reading = TRUE
    /\ line = <<>>
    /\ recent = <<>>
    /\ back = 0

Newest(s) == IF Len(s) > HistMax THEN Tail(s) ELSE s

Submit(l) ==
    /\ reading' = FALSE
    /\ line' = l
    /\ recent' = IF l = <<>> THEN recent ELSE Newest(Append(recent, l))
    /\ back' = 0

\* The line becomes l, b lines back.
Edit(l, b) ==
    IF Len(l) >= LineMax - 1
    THEN Submit(l)
    ELSE /\ line' = l
         /\ back' = b
         /\ UNCHANGED <<reading, recent>>

Recall(b) == Edit(IF b = 0 THEN <<>> ELSE recent[Len(recent) - b + 1], b)

Type == \E c \in Char : Edit(Append(line, c), back)

Erase == line # <<>> /\ Edit(SubSeq(line, 1, Len(line) - 1), back)

Older == back < Len(recent) /\ Recall(back + 1)

Newer == back > 0 /\ Recall(back - 1)

Begin ==
    /\ ~reading
    /\ reading' = TRUE
    /\ line' = <<>>
    /\ back' = 0
    /\ UNCHANGED recent

Next ==
    \/ reading /\ (Type \/ Erase \/ Older \/ Newer \/ Submit(line))
    \/ Begin

Spec == Init /\ [][Next]_vars
=============================================================================
