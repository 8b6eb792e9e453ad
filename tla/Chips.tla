------------------------------- MODULE Chips --------------------------------
(* The chips that keep time, as kernel/pit.c and drivers/rtc.c see them: the *)
(* interval timer that counts down, the counter of processor cycles, and the *)
(* calendar clock.  All follow one real time, counted in ticks of the        *)
(* interval timer; it passes between two accesses, never by itself.          *)
EXTENDS Integers, Sequences

CONSTANTS
    Reload,     \* where the interval timer starts to count down, 65535
    TickHz,     \* its ticks in a second, 1193182
    Rates,      \* cycles a tick may have, one of them for each machine
    Slack,      \* most ticks between two accesses
    Stall,      \* ticks between two when the machine is held up in between
    Lead,       \* ticks before the calendar changes in which it announces it
    Dates,      \* what the calendar may show at power-on
    Horizon     \* bound: the last tick of the model, which no run gets to

DaysIn(month, year) ==
    CASE month = 2 -> IF year % 4 = 0 THEN 29 ELSE 28
      [] month \in {4, 6, 9, 11} -> 30
      [] OTHER -> 31

\* <<second, minute, hour, day, month, year>>, the years of a century counted.
ValidDates ==
    {c \in [1 .. 6 -> 0 .. 99] :
        /\ c[1] <= 59 /\ c[2] <= 59 /\ c[3] <= 23
        /\ c[4] \in 1 .. DaysIn(c[5], c[6])
        /\ c[5] \in 1 .. 12}

ASSUME ChipsAssumption ==
    /\ {Reload, TickHz, Slack, Stall} \subseteq Nat \ {0}
    /\ Rates \subseteq Nat \ {0}
    /\ Slack <= Stall /\ Stall < Reload /\ Stall < TickHz
    /\ Lead \in 1 .. TickHz - 1
    /\ \A c \in Dates : c \in ValidDates
    /\ Horizon \in Nat

VARIABLES
    now,        \* ticks since power-on
    counter,    \* the interval timer
    rate,       \* cycles a tick, for good
    phase,      \* ticks since the calendar last changed
    civil,      \* the date and time it shows
    binary      \* the calendar keeps numbers in binary, not in BCD

chips == <<now, counter, rate, phase, civil, binary>>

Delays == (0 .. Slack) \cup {Stall}

ChipsInit ==
    /\ now = 0
    /\ counter \in {1, Reload}
    /\ rate \in Rates
    /\ phase \in {0, TickHz - Lead}
    /\ civil \in Dates
    /\ binary \in BOOLEAN

-----------------------------------------------------------------------------
(* The calendar.                                                             *)

\* The date and time a second later: the fields before the first that does not
\* carry start again.
NextSecond(c) ==
    LET first == <<0, 0, 0, 1, 1, 0>>
        last  == <<59, 59, 23, DaysIn(c[5], c[6]), 12, 99>>
        carry == {i \in 1 .. 6 : \A j \in 1 .. i - 1 : c[j] = last[j]}
    IN  [i \in 1 .. 6 |->
            IF i \notin carry THEN c[i]
            ELSE IF c[i] = last[i] THEN first[i] ELSE c[i] + 1]

Bcd(n) == 16 * (n \div 10) + (n % 10)

\* What the register of a field with value n reads as.
Register(n) == IF binary THEN n ELSE Bcd(n)

\* Bit 7 of register 0x0A.
UpdateInProgress == phase >= TickHz - Lead

-----------------------------------------------------------------------------

Tsc == rate * now

\* Time passes without a new count for the interval timer.
Elapses(d) ==
    /\ now + d <= Horizon
    /\ now' = now + d
    /\ phase' = (phase + d) % TickHz
    /\ civil' = IF phase + d >= TickHz THEN NextSecond(civil) ELSE civil
    /\ UNCHANGED <<rate, binary>>

\* The interval timer counts down to 1 and starts again at Reload.
Passes(d) ==
    /\ Elapses(d)
    /\ counter' = IF counter > d THEN counter - d ELSE counter - d + Reload
=============================================================================
