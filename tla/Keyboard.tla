------------------------------ MODULE Keyboard ------------------------------
(* The line editor of drivers/keyboard.c on the terminal, called in a loop   *)
(* by the shell: one step is one scan code, one blink of the cursor, or what *)
(* a command prints before the next line is read.  Scan codes come in any    *)
(* order, as they do after a mode that read some of them and not others.     *)
EXTENDS Terminal

CONSTANTS
    Codes,     \* the scan codes the controller delivers
    Lo, Up,    \* the tables of characters, by scan code
    Nul,       \* no character
    LineMax,   \* size of the line, 256; HIST_LEN is the same
    HistMax,   \* HIST_MAX, 16
    Prompt,    \* what the shell prints before it reads a line
    Outputs,   \* what commands print
    MaxLines   \* bound on the lines submitted

Char == ({Lo[sc] : sc \in DOMAIN Lo} \cup {Up[sc] : sc \in DOMAIN Up}) \ {Nul, NL, BS}

ASSUME KeyboardAssumption ==
    /\ Width \in Nat /\ Width >= 3 /\ Height \in Nat /\ Height >= 5
    /\ Codes \subseteq 0 .. 255
    /\ DOMAIN Lo = DOMAIN Up
    /\ Nul # NL /\ Nul # BS
    /\ LineMax \in Nat /\ LineMax >= 2
    /\ HistMax \in Nat \ {0}
    /\ Prompt \in Seq(STRING) /\ \A k \in DOMAIN Prompt : Prompt[k] \notin {NL, BS}
    /\ Outputs \subseteq Seq(STRING)
    /\ MaxLines \in Nat

\* Scan codes.
EXTENDED == 224   \* 0xE0
UP_KEY   == 72    \* 0x48
DOWN_KEY == 80    \* 0x50
SHIFTS   == {42, 54}
UNSHIFTS == {170, 182}
CAPS     == 58

VARIABLES
    term,         \* the terminal
    reading,      \* in keyboard_readline, or in the shell
    buf,          \* the characters of the line: buf[0 .. i-1] of the code
    shift, caps, extended, hist_pos, cursor_vis,   \* the other locals
    history, hist_head, hist_count,                \* the statics
    torn          \* ghost: an erasure met the left edge of the screen

statics == <<history, hist_head, hist_count>>
keyboard_vars == <<term, reading, buf, shift, caps, extended, hist_pos, cursor_vis,
                   history, hist_head, hist_count, torn>>

\* The shell prints its prompt and calls keyboard_readline.
Prompted(t) == CursorDrawn(Printed(Anchored(t), Prompt), TRUE)

KeyboardInit ==
    /\ term = Prompted(TerminalOff)
    /\ reading = TRUE
    /\ buf = <<>>
    /\ shift = FALSE /\ caps = FALSE /\ extended = FALSE
    /\ hist_pos = 0 /\ cursor_vis = TRUE
    /\ history = [s \in 0 .. HistMax - 1 |-> <<>>]
    /\ hist_head = 0 /\ hist_count = 0
    /\ torn = FALSE

-----------------------------------------------------------------------------
(* The end of a step.                                                        *)

\* hist_add.
HistAdd(line) ==
    IF line = <<>>
    THEN UNCHANGED statics
    ELSE /\ history' = [history EXCEPT ![hist_head % HistMax] = line]
         /\ hist_head' = hist_head + 1
         /\ hist_count' = IF hist_count < HistMax THEN hist_count + 1 ELSE hist_count

\* keyboard_readline returns the line.
Return(t, line) ==
    /\ reading' = FALSE
    /\ buf' = line
    /\ HistAdd(line)
    /\ term' = CursorDrawn(t, FALSE)

\* The label next and the test of the loop: a full line is returned as it is.
NextCode(t, line) ==
    /\ cursor_vis' = TRUE
    /\ IF Len(line) < LineMax - 1
       THEN /\ buf' = line
            /\ term' = CursorDrawn(t, TRUE)
            /\ UNCHANGED <<reading, history, hist_head, hist_count>>
       ELSE Return(CursorDrawn(t, TRUE), line)

\* Faulty variant: a scan code is handled with the cursor on the screen.
HiddenNot == term

\* The terminal when a scan code has arrived: the cursor is taken off first.
Hidden == CursorDrawn(term, FALSE)

Erased(t, n) == Printed(t, [k \in 1 .. n |-> BS])

\* What erasing n characters does to the ghost.
Tears(n) == torn' = (torn \/ n >= term.x)

\* A scan code that changes a flag of the editor, or nothing.
Ignore ==
    /\ NextCode(Hidden, buf)
    /\ UNCHANGED <<hist_pos, torn>>

-----------------------------------------------------------------------------
(* One scan code.                                                            *)

Prefix(sc) ==
    /\ sc = EXTENDED
    /\ extended' = TRUE
    /\ Ignore
    /\ UNCHANGED <<shift, caps>>

\* The line becomes the one at position p of the history.
Recall(p, line) ==
    /\ hist_pos' = p
    /\ Tears(Len(buf))
    /\ NextCode(Printed(Erased(Hidden, Len(buf)), line), line)

\* Faulty variant: one line too far back.
OlderTooFar(sc) ==
    /\ extended /\ sc = UP_KEY
    /\ extended' = FALSE
    /\ IF hist_pos < hist_head - hist_count
       THEN Ignore
       ELSE Recall(hist_pos - 1, history[(hist_pos - 1) % HistMax])
    /\ UNCHANGED <<shift, caps>>

Older(sc) ==
    /\ extended /\ sc = UP_KEY
    /\ extended' = FALSE
    /\ IF hist_pos - 1 < hist_head - hist_count
       THEN Ignore
       ELSE Recall(hist_pos - 1, history[(hist_pos - 1) % HistMax])
    /\ UNCHANGED <<shift, caps>>

Newer(sc) ==
    /\ extended /\ sc = DOWN_KEY
    /\ extended' = FALSE
    /\ IF hist_pos + 1 > hist_head
       THEN Ignore
       ELSE Recall(hist_pos + 1,
                   IF hist_pos + 1 = hist_head
                   THEN <<>> ELSE history[(hist_pos + 1) % HistMax])
    /\ UNCHANGED <<shift, caps>>

OtherExtended(sc) ==
    /\ extended /\ sc \notin {EXTENDED, UP_KEY, DOWN_KEY}
    /\ extended' = FALSE
    /\ Ignore
    /\ UNCHANGED <<shift, caps>>

Modifier(sc) ==
    /\ ~extended /\ sc \in SHIFTS \cup UNSHIFTS \cup {CAPS}
    /\ shift' = IF sc \in SHIFTS THEN TRUE ELSE IF sc \in UNSHIFTS THEN FALSE ELSE shift
    /\ caps' = IF sc = CAPS THEN ~caps ELSE caps
    /\ Ignore
    /\ UNCHANGED extended

KeyReleased(sc) ==
    /\ ~extended /\ sc >= 128 /\ sc \notin {EXTENDED} \cup UNSHIFTS
    /\ Ignore
    /\ UNCHANGED <<shift, caps, extended>>

\* The character of a key.  A code past the tables reads memory behind them:
\* whatever byte is there.
CharsOf(sc) ==
    IF sc \in DOMAIN Lo
    THEN {IF shift # caps THEN Up[sc] ELSE Lo[sc]}
    ELSE Char \cup {Nul, NL, BS}

Key(sc, c) ==
    /\ ~extended /\ sc < 128 /\ sc \notin SHIFTS \cup {CAPS}
    /\ c \in CharsOf(sc)
    /\ UNCHANGED <<shift, caps, extended, hist_pos>>

\* Faulty variant: the terminal erases whatever is left of the cursor.
EraseAlways(sc) ==
    /\ Key(sc, BS)
    /\ Tears(1)
    /\ NextCode(Erased(Hidden, 1), IF buf = <<>> THEN buf ELSE SubSeq(buf, 1, Len(buf) - 1))

Erase(sc) ==
    /\ Key(sc, BS)
    /\ IF buf = <<>>
       THEN /\ NextCode(Hidden, buf)
            /\ UNCHANGED torn
       ELSE /\ NextCode(Erased(Hidden, 1), SubSeq(buf, 1, Len(buf) - 1))
            /\ Tears(1)

Nothing(sc) ==
    /\ Key(sc, Nul)
    /\ NextCode(Hidden, buf)
    /\ UNCHANGED torn

Enter(sc) ==
    /\ Key(sc, NL)
    /\ Return(Putchar(Hidden, NL), buf)
    /\ UNCHANGED <<cursor_vis, torn>>

Type(sc) ==
    \E c \in Char :
        /\ Key(sc, c)
        /\ NextCode(Putchar(Hidden, c), Append(buf, c))
        /\ UNCHANGED torn

Scan(sc) ==
    /\ reading
    /\ \/ Prefix(sc)
       \/ Older(sc) \/ Newer(sc) \/ OtherExtended(sc)
       \/ Modifier(sc) \/ KeyReleased(sc)
       \/ Erase(sc) \/ Nothing(sc) \/ Enter(sc) \/ Type(sc)

\* Half a blink period without a scan code.
Blink ==
    /\ reading
    /\ cursor_vis' = ~cursor_vis
    /\ term' = CursorDrawn(term, cursor_vis')
    /\ UNCHANGED <<reading, buf, shift, caps, extended, hist_pos, history, hist_head, hist_count, torn>>

-----------------------------------------------------------------------------
(* The shell.                                                                *)

\* The next turn of the loop of shell_run, on the terminal a command left.
ReadLine(t) ==
    /\ ~reading
    /\ hist_head < MaxLines
    /\ reading' = TRUE
    /\ buf' = <<>>
    /\ shift' = FALSE /\ caps' = FALSE /\ extended' = FALSE
    /\ hist_pos' = hist_head /\ cursor_vis' = TRUE
    /\ torn' = FALSE
    /\ term' = Prompted(t)
    /\ UNCHANGED statics

Silent == buf = <<>> /\ ReadLine(term)

Prints == \E s \in Outputs : buf # <<>> /\ ReadLine(Printed(term, s))

ClearScreen == buf # <<>> /\ ReadLine(Cleared)

KeyboardNext ==
    \/ \E sc \in Codes : Scan(sc)
    \/ Blink
    \/ Silent
    \/ Prints
    \/ ClearScreen

KeyboardSpec == KeyboardInit /\ [][KeyboardNext]_keyboard_vars

-----------------------------------------------------------------------------
(* Properties.                                                               *)

\* What stands on the screen from the prompt to the cursor is the prompt and
\* the line, through scrolling, wrapping, erasing and recalling, unless an
\* erasure met the left edge: the terminal does not go back to the row above,
\* and the editor does not know (terminal.c:56).
ScreenShowsLine ==
    reading /\ ~torn /\ term.from # Gone
        => Shows(term, Prompt \o buf)

\* There is one underline, at the cursor, when the editor believes the cursor
\* visible, and none otherwise: no key, recall, wrap or scroll leaves one
\* behind, and none is drawn over, or takes a bite out of, a glyph.
OneCursor ==
    /\ term.marks = IF reading /\ cursor_vis THEN {At(term)} ELSE {}
    /\ reading => term.screen[term.y][term.x] = Blank

\* The history, oldest first.
Recent ==
    [k \in 1 .. hist_count |-> history[(hist_head - hist_count + k - 1) % HistMax]]

\* The editor promises a line and the last lines submitted; where they lie in
\* the ring, the keys that are ignored and the screen do not show.
Abstract ==
    INSTANCE LineEditor WITH
        line <- buf,
        recent <- Recent,
        back <- IF reading THEN hist_head - hist_pos ELSE 0

ImplementsLineEditor == Abstract!Spec
=============================================================================
