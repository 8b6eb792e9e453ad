------------------------------- MODULE Timer --------------------------------
(* kernel/pit.c: the cycles of a second are measured once against the        *)
(* interval timer; the uptime and every sleep are computed from them.  Each  *)
(* access to a chip is a step, some time after the one before it.            *)
EXTENDS Chips

CONSTANTS
    High,        \* calibration waits for a count this high, 60000
    Span,        \* the ticks it measures, 10000
    MsPerS,      \* 1000
    MinHz,       \* a result below this is not believed, 100 MHz
    DefaultHz,   \* what is assumed instead, 1 GHz
    Mod,         \* 2^64
    Naps         \* milliseconds callers sleep

ASSUME TimerAssumption ==
    /\ {Span, MsPerS, MinHz} \subseteq Nat \ {0}
    /\ DefaultHz \in Nat /\ DefaultHz >= MinHz
    /\ Stall < Span
    /\ High \in Nat /\ Span + 2 * Stall <= High /\ High <= Reload
    /\ Mod \in Nat \ {0}
    /\ Naps \subseteq Nat

VARIABLES
    pc,         \* the access the processor makes next, or "shell"
    tsc_hz, boot_tsc,
    target, t0, \* locals of tsc_calibrate
    end,        \* local of sleep_ms
    nap,        \* its argument
    begun       \* ghost: when the measurement or the sleep began

timer == <<pc, tsc_hz, boot_tsc, target, t0, end, nap, begun>>

TimerInit ==
    /\ pc = "boot"
    /\ tsc_hz = 0 /\ boot_tsc = 0
    /\ target = 0 /\ t0 = 0 /\ end = 0 /\ nap = 0 /\ begun = 0

\* The next access is one of the step called here, after a delay; then there.
At(here, there) == pc = here /\ pc' = there

-----------------------------------------------------------------------------
(* tsc_calibrate.                                                            *)

ProgramPit(d) ==
    /\ At("boot", "high")
    /\ Elapses(d)
    /\ counter' = Reload
    /\ UNCHANGED <<tsc_hz, boot_tsc, target, t0, end, nap, begun>>

\* The first loop of two.
WaitHigh(d) ==
    /\ pc = "high"
    /\ Passes(d)
    /\ pc' = IF counter' < High THEN "high" ELSE "high again"
    /\ UNCHANGED <<tsc_hz, boot_tsc, target, t0, end, nap, begun>>

WaitHighAgain(d) ==
    /\ pc = "high again"
    /\ Passes(d)
    /\ pc' = IF counter' < High THEN "high again" ELSE "start"
    /\ UNCHANGED <<tsc_hz, boot_tsc, target, t0, end, nap, begun>>

\* Faulty variant: half the span.
TargetHalf(start) == (start - Span \div 2) % (Reload + 1)

\* Faulty variant: the count is awaited to run out; it never shows 0.
TargetOut(start) == 0

\* A count of 16 bits: below Span the target would wrap.
Target(start) == (start - Span) % (Reload + 1)

ReadStart(d) ==
    /\ At("start", "t0")
    /\ Passes(d)
    /\ target' = Target(counter')
    /\ begun' = now'
    /\ UNCHANGED <<tsc_hz, boot_tsc, t0, end, nap>>

ReadT0(d) ==
    /\ At("t0", "span")
    /\ Passes(d)
    /\ t0' = Tsc'
    /\ UNCHANGED <<tsc_hz, boot_tsc, target, end, nap, begun>>

WaitSpan(d) ==
    /\ pc = "span"
    /\ Passes(d)
    /\ pc' = IF counter' > target THEN "span" ELSE "cycles"
    /\ UNCHANGED <<tsc_hz, boot_tsc, target, t0, end, nap, begun>>

\* The frequency that so many cycles in the Span amount to.
Measured(cycles) == ((cycles * TickHz) % Mod) \div Span
Hz(cycles) == IF Measured(cycles) < MinHz THEN DefaultHz ELSE Measured(cycles)

ReadCycles(d) ==
    /\ At("cycles", "boot tsc")
    /\ Passes(d)
    /\ tsc_hz' = Hz(Tsc' - t0)
    /\ target' = 0 /\ t0' = 0 /\ begun' = 0
    /\ UNCHANGED <<boot_tsc, end, nap>>

ReadBoot(d) ==
    /\ At("boot tsc", "shell")
    /\ Passes(d)
    /\ boot_tsc' = Tsc'
    /\ UNCHANGED <<tsc_hz, target, t0, end, nap, begun>>

Calibrate(d) ==
    ProgramPit(d) \/ WaitHigh(d) \/ WaitHighAgain(d) \/ ReadStart(d) \/ ReadT0(d)
        \/ WaitSpan(d) \/ ReadCycles(d) \/ ReadBoot(d)

-----------------------------------------------------------------------------
(* uptime_ms and sleep_ms.                                                   *)

\* Faulty variant: the time before the calibration counts as well.
UptimeSincePower(tsc) == ((tsc * MsPerS) % Mod) \div tsc_hz

\* The product has 64 bits.
UptimeMs(tsc) ==
    IF tsc_hz = 0 THEN 0 ELSE (((tsc - boot_tsc) * MsPerS) % Mod) \div tsc_hz

\* Faulty variant: the sleep is counted from the last calibration.
EndFromBoot(tsc, ms) == boot_tsc + ((tsc_hz * ms) % Mod) \div MsPerS

End(tsc, ms) == (tsc + ((tsc_hz * ms) % Mod) \div MsPerS) % Mod

StartSleep(ms, d) ==
    /\ At("shell", "sleep")
    /\ Passes(d)
    /\ end' = End(Tsc', ms)
    /\ nap' = ms
    /\ begun' = now'
    /\ UNCHANGED <<tsc_hz, boot_tsc, target, t0>>

Over(tsc) == tsc >= end

Sleep(d) ==
    /\ pc = "sleep"
    /\ Passes(d)
    /\ ~Over(Tsc')
    /\ UNCHANGED timer

Wake(d) ==
    /\ At("sleep", "shell")
    /\ Passes(d)
    /\ Over(Tsc')
    /\ end' = 0 /\ nap' = 0 /\ begun' = 0
    /\ UNCHANGED <<tsc_hz, boot_tsc, target, t0>>
=============================================================================
