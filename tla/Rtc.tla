-------------------------------- MODULE Rtc ---------------------------------
(* drivers/rtc.c: the calendar clock is read one register after another      *)
(* while it runs; the flag that announces a change is looked at once.        *)
EXTENDS Chips

\* Six accesses take less time than the calendar announces a change ahead.
ASSUME RtcAssumption == 6 * Slack <= Lead

VARIABLES
    step,      \* 0: no reading; 1: the flag; 2 .. 7: the fields; 8: the format
    raw,       \* the registers read so far
    seen,      \* ghost: the calendar when the flag was found clear
    held       \* ghost: the machine was held up since

rtc == <<step, raw, seen, held>>

Nothing == <<>>

RtcInit ==
    /\ step = 0
    /\ raw = Nothing /\ seen = Nothing
    /\ held = FALSE

StartReading ==
    /\ step = 0
    /\ step' = 1
    /\ UNCHANGED <<raw, seen, held, chips>>

\* Faulty variant: the registers are read whatever the flag says.
NotUpdatingIgnored == TRUE

NotUpdating == ~UpdateInProgress

\* while (rtc_updating())
WaitFlag(d) ==
    /\ step = 1
    /\ Passes(d)
    /\ IF NotUpdating'
       THEN /\ step' = 2
            /\ seen' = civil'
       ELSE UNCHANGED <<step, seen>>
    /\ UNCHANGED <<raw, held>>

\* rtc_reg, for the fields in turn.
ReadField(d) ==
    /\ step \in 2 .. 7
    /\ Passes(d)
    /\ raw' = Append(raw, Register(civil'[step - 1]))
    /\ held' = (held \/ d > Slack)
    /\ step' = step + 1
    /\ UNCHANGED seen

Bcd2bin(bcd) == (bcd % 16) + (bcd \div 16) * 10

\* The six fields as rtc_read returns them; the century is the 21st.
Reading ==
    [i \in 1 .. 6 |->
        (IF binary THEN raw[i] ELSE Bcd2bin(raw[i])) + (IF i = 6 THEN 2000 ELSE 0)]

ReadFormat(d) ==
    /\ step = 8
    /\ Passes(d)
    /\ step' = 0
    /\ raw' = Nothing /\ seen' = Nothing
    /\ held' = FALSE
=============================================================================
