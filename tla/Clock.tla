------------------------------- MODULE Clock --------------------------------
(* The kernel and time: calibration at boot, then uptime, sleep and date as  *)
(* the shell runs them, one at a time, on the chips of Chips.                *)
EXTENDS Timer, Rtc

CONSTANT MaxNow    \* bound: no command starts later

VARIABLE shown     \* what the last command printed: <<uptime>>, a date or none

vars == <<chips, timer, rtc, shown>>

Init == ChipsInit /\ TimerInit /\ RtcInit /\ shown = Nothing

\* The shell waits for a command; time passes there as well.
Ready == pc = "shell" /\ step = 0 /\ now < MaxNow

Boot(d) == Calibrate(d) /\ UNCHANGED <<rtc, shown>>

Uptime(d) ==
    /\ Ready
    /\ Passes(d)
    /\ shown' = <<UptimeMs(Tsc')>>
    /\ UNCHANGED <<timer, rtc>>

GoToSleep(ms, d) ==
    /\ Ready
    /\ StartSleep(ms, d)
    /\ shown' = Nothing
    /\ UNCHANGED rtc

Sleeping(d) == (Sleep(d) \/ Wake(d)) /\ UNCHANGED <<rtc, shown>>

Date ==
    /\ Ready
    /\ StartReading
    /\ shown' = Nothing
    /\ UNCHANGED timer

ReadRegisters(d) ==
    \/ (WaitFlag(d) \/ ReadField(d)) /\ UNCHANGED <<timer, shown>>
    \/ ReadFormat(d) /\ shown' = Reading /\ UNCHANGED timer

\* The accesses of a command that runs.
Access(d) == Boot(d) \/ Sleeping(d) \/ ReadRegisters(d)

Next ==
    \/ Date
    \/ \E d \in Delays :
        \/ Access(d)
        \/ Uptime(d)
        \/ \E ms \in Naps : GoToSleep(ms, d)

\* A busy loop goes on, and time with it.
Fairness == WF_vars(\E d \in Delays \ {0} : Access(d))

Spec == Init /\ [][Next]_vars /\ Fairness

-----------------------------------------------------------------------------
(* Properties.                                                               *)

\* However the counter stands when calibration begins and whatever holds it up
\* between two accesses, it measures Span ticks up to a delay before t0 is read
\* and two after the count was reached: the count neither wraps below the target
\* nor is the target missed for a round of the counter.
CalibrationBounded ==
    tsc_hz # 0 => \E ticks \in (Span - Stall) .. (Span + 2 * Stall - 1) :
                    tsc_hz = Hz(rate * ticks)

\* The least and the greatest result of a calibration, times Span, give or take
\* the rounding; a machine that is not believed is too slow for the bound.
Slowest == rate * (Span - Stall) * TickHz - Span
Fastest == rate * (Span + 2 * Stall - 1) * TickHz

\* A sleep lasts the milliseconds asked for in real time, up to the error of the
\* calibration, and ends within a delay of them.
SleepBounded ==
    [][\A d \in Delays :
        Wake(d) =>
            LET slept == now' - begun
            IN  /\ (rate * slept + 1) * MsPerS * Span > Slowest * nap
                /\ tsc_hz # DefaultHz =>
                     rate * (slept - Stall) * MsPerS * Span <= Fastest * nap]_vars

\* The uptime is the real time since boot up to the error of the calibration,
\* until the product of cycles and 1000 leaves its 64 bits.
UptimeTrue ==
    [][\A d \in Delays :
        Uptime(d) /\ (Tsc' - boot_tsc) * MsPerS < Mod =>
            LET ms == shown'[1]
                elapsed == (Tsc' - boot_tsc) * MsPerS * Span
            IN  /\ Slowest * ms <= elapsed
                /\ tsc_hz # DefaultHz => elapsed < Fastest * (ms + 1)]_vars

\* A date that was read without being held up is the one the calendar showed
\* when the flag was found clear, no matter how many fields it was about to
\* carry: six accesses fit into the time for which the flag announces a change.
ReadingWhole ==
    [][step = 8 /\ step' = 0 /\ ~held =>
        shown' = [seen EXCEPT ![6] = @ + 2000]]_vars

\* Calibration, every sleep and every reading come to an end: no loop waits for
\* a moment that the delays can skip each time.
ReturnsToShell == []<>(pc = "shell" /\ step = 0)
=============================================================================
