--------------------------- MODULE MachineProofs ----------------------------
(* The timers and the exceptions.  For every interval timer, span, delay and *)
(* rate that the assumptions allow, the calibration is as exact as the       *)
(* delays let it be, and a date that was read without being held up is one   *)
(* the calendar showed; for every set of vectors and every program, an       *)
(* exception leaves the program as it was.                                   *)
EXTENDS Clock, Idt, SequenceTheorems, TLAPS

-----------------------------------------------------------------------------
(* The inductive invariant.                                                  *)

ChipsOK ==
    /\ now \in Nat
    /\ counter \in 1 .. Reload
    /\ rate \in Nat
    /\ phase \in 0 .. TickHz - 1
    /\ civil \in ValidDates
    /\ binary \in BOOLEAN

\* How far the interval timer has counted since the calibration began, and
\* which tick t0 is the cycle of.
CalibrationOK ==
    /\ pc = "start" => counter >= High
    /\ pc = "t0" => /\ begun = now
                    /\ target \in Nat /\ target >= Stall
                    /\ counter = target + Span
    /\ pc = "span" => /\ target \in Nat /\ target >= Stall
                      /\ counter > target
                      /\ begun \in Nat
                      /\ counter = target + Span - (now - begun)
                      /\ \E n \in begun .. begun + Stall : t0 = rate * n
    /\ pc = "cycles" =>
          \E n \in 0 .. now :
             /\ t0 = rate * n
             /\ now - n \in (Span - Stall) .. (Span - 1 + Stall)
    /\ CalibrationBounded

\* What was read so far, and how much of the announced time is used up.
ReadingOK ==
    /\ step \in 0 .. 8
    /\ step # 0 => pc = "shell"
    /\ step \in {0, 1} => raw = <<>> /\ held = FALSE
    /\ step \in 2 .. 8 =>
          /\ Len(raw) = step - 2
          /\ raw \in Seq(Nat)
          /\ ~held => /\ seen = civil
                      /\ phase < TickHz - Lead + (step - 2) * Slack
                      /\ \A i \in 1 .. step - 2 : raw[i] = Register(civil[i])

IInv == ChipsOK /\ CalibrationOK /\ ReadingOK

-----------------------------------------------------------------------------
(* The chips.                                                                *)

\* A delay is at most Stall, and small or not.
LEMMA DelaysBounded ==
    ASSUME NEW d \in Delays
    PROVE  /\ d \in Nat /\ d <= Stall
           /\ Stall \in Nat /\ Slack \in Nat
           /\ d > Slack \/ d <= Slack
BY ChipsAssumption DEF Delays

(* A number below the modulus is its own remainder.                          *)
LEMMA SmallRemainder ==
    ASSUME NEW m \in Nat \ {0}, NEW a \in 0 .. m - 1
    PROVE  a % m = a
OBVIOUS

\* Products distribute over differences.
LEMMA Distribute ==
    ASSUME NEW a \in Nat, NEW b \in Nat, NEW c \in Nat
    PROVE  a * b - a * c = a * (b - c)
OBVIOUS

(* The second after a valid date is a valid date.                            *)
LEMMA NextSecondValid ==
    ASSUME NEW c \in ValidDates
    PROVE  NextSecond(c) \in ValidDates
<1> DEFINE first == <<0, 0, 0, 1, 1, 0>>
           last  == <<59, 59, 23, DaysIn(c[5], c[6]), 12, 99>>
           carry == {i \in 1 .. 6 : \A j \in 1 .. i - 1 : c[j] = last[j]}
           n == NextSecond(c)
<1>1. n = [i \in 1 .. 6 |->
             IF i \notin carry THEN c[i] ELSE IF c[i] = last[i] THEN first[i] ELSE c[i] + 1]
  BY DEF NextSecond
<1>2. /\ c \in [1 .. 6 -> 0 .. 99]
      /\ c[1] \in 0 .. 59 /\ c[2] \in 0 .. 59 /\ c[3] \in 0 .. 23
      /\ c[4] \in 1 .. DaysIn(c[5], c[6])
      /\ c[5] \in 1 .. 12 /\ c[6] \in 0 .. 99
  BY DEF ValidDates
<1>3. \A month, year : DaysIn(month, year) \in 28 .. 31
  BY DEF DaysIn
<1> HIDE DEF n
<1>4. n[1] \in 0 .. 59 /\ n[2] \in 0 .. 59 /\ n[3] \in 0 .. 23
  BY <1>1, <1>2
<1>5. n[5] \in 1 .. 12 /\ n[6] \in 0 .. 99
  BY <1>1, <1>2
<1>6. n[4] \in 1 .. DaysIn(n[5], n[6])
  <2>1. CASE 5 \notin carry
    <3>1. 6 \notin carry
      BY <2>1
    <3>2. n[5] = c[5] /\ n[6] = c[6]
      BY <1>1, <2>1, <3>1
    <3>3. n[4] \in 1 .. DaysIn(c[5], c[6])
      BY <1>1, <1>2, <1>3, <2>1
    <3> QED
      BY <3>2, <3>3
  <2>2. CASE 5 \in carry
    <3>1. 4 \in carry /\ c[4] = last[4]
      BY <2>2
    <3>2. n[4] = 1
      BY <1>1, <3>1
    <3> QED
      BY <1>3, <3>2
  <2> QED
    BY <2>1, <2>2
<1>7. n \in [1 .. 6 -> 0 .. 99]
  <2>1. n[4] \in 0 .. 99
    BY <1>3, <1>6
  <2> QED
    BY <1>1, <1>4, <1>5, <2>1
<1> QED
  BY <1>4, <1>5, <1>6, <1>7 DEF ValidDates, n

\* Time that elapses keeps the chips in their ranges.
LEMMA ElapsesChips ==
    ASSUME ChipsOK, NEW d \in Delays, Elapses(d)
    PROVE  /\ now' = now + d /\ now' \in Nat
           /\ rate' = rate /\ binary' = binary
           /\ phase' \in 0 .. TickHz - 1
           /\ civil' \in ValidDates
<1>1. d \in Nat /\ TickHz \in Nat \ {0}
  BY DelaysBounded, ChipsAssumption
<1>2. NextSecond(civil) \in ValidDates
  BY NextSecondValid DEF ChipsOK
<1>3. (phase + d) % TickHz \in 0 .. TickHz - 1
  BY <1>1 DEF ChipsOK
<1> QED
  BY <1>1, <1>2, <1>3 DEF ChipsOK, Elapses

\* So does an access with a delay.
LEMMA PassesChips ==
    ASSUME ChipsOK, NEW d \in Delays, Passes(d)
    PROVE  ChipsOK' /\ now' = now + d /\ rate' = rate
<1>1. Stall < Reload /\ Reload \in Nat /\ d \in Nat /\ d <= Stall /\ Stall \in Nat
  BY ChipsAssumption, DelaysBounded
<1>2. counter' \in 1 .. Reload
  BY <1>1 DEF Passes, ChipsOK
<1> QED
  BY <1>2, ElapsesChips DEF Passes, ChipsOK

(* The format of the calendar and its inverse.                               *)
LEMMA BcdBack ==
    ASSUME NEW n \in 0 .. 99
    PROVE  Bcd(n) \in Nat /\ Bcd2bin(Bcd(n)) = n
BY DEF Bcd, Bcd2bin

-----------------------------------------------------------------------------
(* The calibration.                                                          *)

\* A step of tsc_calibrate keeps its invariant.
LEMMA CalibrationStep ==
    ASSUME ChipsOK, CalibrationOK, NEW d \in Delays, Calibrate(d)
    PROVE  ChipsOK' /\ CalibrationOK'
<1>1. /\ Reload \in Nat /\ Stall \in Nat /\ Span \in Nat /\ High \in Nat
      /\ Stall < Reload /\ Stall < Span
      /\ Span + 2 * Stall <= High /\ High <= Reload
  BY ChipsAssumption, TimerAssumption
<1>2. d \in Nat /\ d <= Stall
  BY DelaysBounded
<1>3. ASSUME Passes(d)
      PROVE  ChipsOK' /\ now' = now + d /\ rate' = rate
  BY <1>3, PassesChips
<1>4. CASE ProgramPit(d)
  <2>1. ChipsOK'
    BY <1>1, <1>4, ElapsesChips DEF ProgramPit, ChipsOK
  <2>2. pc' = "high" /\ tsc_hz' = tsc_hz /\ rate' = rate
    BY <1>4, ElapsesChips DEF ProgramPit, At
  <2> QED
    BY <2>1, <2>2 DEF CalibrationOK, CalibrationBounded, Hz, Measured
<1>5. CASE WaitHigh(d)
  <2>1. pc' \in {"high", "high again"} /\ tsc_hz' = tsc_hz /\ Passes(d)
    BY <1>5 DEF WaitHigh
  <2> QED
    BY <1>3, <2>1 DEF CalibrationOK, CalibrationBounded
<1>6. CASE WaitHighAgain(d)
  <2>1. /\ pc' \in {"high again", "start"} /\ tsc_hz' = tsc_hz /\ Passes(d)
        /\ pc' = "start" => ~(counter' < High)
    BY <1>6 DEF WaitHighAgain
  <2>2. pc' = "start" => counter' >= High
    BY <1>1, <1>3, <2>1 DEF ChipsOK
  <2> QED
    BY <1>3, <2>1, <2>2 DEF CalibrationOK, CalibrationBounded
<1>7. CASE ReadStart(d)
  <2>1. pc = "start" /\ pc' = "t0" /\ tsc_hz' = tsc_hz /\ Passes(d) /\ begun' = now'
    BY <1>7 DEF ReadStart, At
  <2>2. counter >= High /\ counter \in Nat
    BY <2>1 DEF CalibrationOK, ChipsOK
  <2>3. counter' = counter - d /\ counter' <= Reload
    BY <1>1, <1>2, <2>1, <2>2 DEF Passes, ChipsOK
  <2>4. counter' - Span \in 0 .. Reload /\ counter' - Span >= Stall
    BY <1>1, <1>2, <2>2, <2>3
  <2>5. target' = counter' - Span
    BY <1>1, <1>7, <2>4, SmallRemainder DEF ReadStart, Target
  <2> QED
    BY <1>1, <1>2, <1>3, <2>1, <2>2, <2>3, <2>4, <2>5 DEF CalibrationOK, CalibrationBounded
<1>8. CASE ReadT0(d)
  <2>1. /\ pc = "t0" /\ pc' = "span" /\ tsc_hz' = tsc_hz /\ Passes(d)
        /\ begun' = begun /\ target' = target
        /\ t0' = rate' * now'
    BY <1>8 DEF ReadT0, At, Tsc
  <2>2. begun = now /\ target \in Nat /\ target >= Stall /\ counter = target + Span
    BY <2>1 DEF CalibrationOK
  <2>3. counter' = counter - d
    BY <1>1, <1>2, <2>1, <2>2 DEF Passes
  <2>4. now' \in begun' .. begun' + Stall /\ begun' \in Nat
    BY <1>1, <1>2, <1>3, <2>1, <2>2 DEF ChipsOK
  <2>5. counter' > target' /\ counter' = target' + Span - (now' - begun')
    BY <1>1, <1>2, <1>3, <2>1, <2>2, <2>3 DEF ChipsOK
  <2> QED
    BY <1>3, <2>1, <2>2, <2>4, <2>5 DEF CalibrationOK, CalibrationBounded
<1>9. CASE WaitSpan(d)
  <2>1. /\ pc = "span" /\ tsc_hz' = tsc_hz /\ Passes(d)
        /\ begun' = begun /\ target' = target /\ t0' = t0
        /\ pc' = IF counter' > target THEN "span" ELSE "cycles"
    BY <1>9 DEF WaitSpan
  <2>2. /\ target \in Nat /\ target >= Stall /\ counter > target /\ begun \in Nat
        /\ counter = target + Span - (now - begun)
    BY <2>1 DEF CalibrationOK
  <2>3. PICK n \in begun .. begun + Stall : t0 = rate * n
    BY <2>1 DEF CalibrationOK
  <2>4. counter' = counter - d /\ counter \in Nat /\ now \in Nat
    BY <1>1, <1>2, <2>1, <2>2 DEF Passes, ChipsOK
  <2>5. counter' = target' + Span - (now' - begun')
    BY <1>1, <1>2, <1>3, <2>1, <2>2, <2>4
  <2>6. CASE counter' > target
    BY <1>3, <2>1, <2>2, <2>3, <2>5, <2>6 DEF CalibrationOK, CalibrationBounded
  <2>7. CASE ~(counter' > target)
    <3>1. now' - n \in (Span - Stall) .. (Span - 1 + Stall) /\ n \in 0 .. now'
      BY <1>1, <1>2, <1>3, <2>1, <2>2, <2>3, <2>4, <2>5, <2>7
    <3> QED
      BY <1>3, <2>1, <2>3, <2>7, <3>1 DEF CalibrationOK, CalibrationBounded
  <2> QED
    BY <2>6, <2>7
<1>10. CASE ReadCycles(d)
  <2>1. /\ pc = "cycles" /\ pc' = "boot tsc" /\ Passes(d)
        /\ tsc_hz' = Hz(rate' * now' - t0)
    BY <1>10 DEF ReadCycles, At, Tsc
  <2>2. PICK n \in 0 .. now : /\ t0 = rate * n
                             /\ now - n \in (Span - Stall) .. (Span - 1 + Stall)
    BY <2>1 DEF CalibrationOK
  <2>3. now' = now + d /\ rate' = rate /\ now \in Nat /\ rate \in Nat
    BY <1>3, <2>1 DEF ChipsOK
  <2>4. now' - n \in (Span - Stall) .. (Span + 2 * Stall - 1)
    <3>1. now' - n = (now - n) + d
      BY <1>2, <2>3
    <3> QED
      BY <1>1, <1>2, <2>2, <3>1
  <2>5. rate' * now' - t0 = rate' * (now' - n)
    BY <1>2, <2>2, <2>3, Distribute
  <2>6. CalibrationBounded'
    BY <2>1, <2>4, <2>5 DEF CalibrationBounded, Hz, Measured
  <2> QED
    BY <1>3, <2>1, <2>6 DEF CalibrationOK
<1>11. CASE ReadBoot(d)
  <2>1. pc' = "shell" /\ tsc_hz' = tsc_hz /\ Passes(d)
    BY <1>11 DEF ReadBoot, At
  <2> QED
    BY <1>3, <2>1 DEF CalibrationOK, CalibrationBounded
<1> QED
  BY <1>4, <1>5, <1>6, <1>7, <1>8, <1>9, <1>10, <1>11 DEF Calibrate

(* In the shell nothing touches the result of the calibration.               *)
LEMMA CalibrationKept ==
    ASSUME CalibrationOK, pc' \in {"sleep", "shell"},
           tsc_hz' = tsc_hz, rate' = rate
    PROVE  CalibrationOK'
BY DEF CalibrationOK, CalibrationBounded, Hz, Measured

-----------------------------------------------------------------------------
(* The reading.                                                              *)

\* A step of rtc_read keeps its invariant.
LEMMA ReadingStep ==
    ASSUME ChipsOK, ReadingOK, pc' = pc, NEW d \in Delays, WaitFlag(d) \/ ReadField(d)
    PROVE  ReadingOK'
<1>1. /\ d \in Nat /\ Slack \in Nat /\ TickHz \in Nat \ {0} /\ Lead \in 1 .. TickHz - 1
      /\ 6 * Slack <= Lead
  BY DelaysBounded, ChipsAssumption, RtcAssumption
<1>2. ASSUME Passes(d)
      PROVE  ChipsOK' /\ binary' = binary
  BY <1>2, PassesChips DEF Passes, Elapses
<1>3. CASE WaitFlag(d)
  <2>1. step = 1 /\ Passes(d) /\ raw' = raw /\ held' = held /\ raw = <<>> /\ held = FALSE /\ pc = "shell"
    BY <1>3 DEF WaitFlag, ReadingOK
  <2>2. CASE NotUpdating'
    <3>1. step' = 2 /\ seen' = civil'
      BY <1>3, <2>2 DEF WaitFlag
    <3>2. phase' < TickHz - Lead
      BY <1>1, <1>2, <2>1, <2>2 DEF NotUpdating, UpdateInProgress, ChipsOK
    <3> QED
      BY <1>1, <2>1, <3>1, <3>2 DEF ReadingOK
  <2>3. CASE ~NotUpdating'
    <3>1. step' = step /\ seen' = seen
      BY <1>3, <2>3 DEF WaitFlag
    <3> QED
      BY <2>1, <3>1 DEF ReadingOK
  <2> QED
    BY <2>2, <2>3
<1>4. CASE ReadField(d)
  <2>1. /\ step \in 2 .. 7 /\ Passes(d) /\ step' = step + 1 /\ seen' = seen
        /\ raw' = Append(raw, Register(civil'[step - 1])) 
        /\ held' = (held \/ d > Slack)
    BY <1>4 DEF ReadField
  <2>2. Len(raw) = step - 2 /\ raw \in Seq(Nat) /\ pc = "shell"
    BY <2>1 DEF ReadingOK
  <2>3. civil' \in ValidDates /\ binary' = binary
    BY <1>2, <2>1 DEF ChipsOK
  <2>4. civil'[step - 1] \in 0 .. 99
    <3>1. civil' \in [1 .. 6 -> 0 .. 99]
      BY <2>3 DEF ValidDates
    <3>2. step - 1 \in 1 .. 6
      BY <2>1
    <3> QED
      BY <3>1, <3>2
  <2>5. Register(civil'[step - 1]) \in Nat
    BY <2>4, BcdBack DEF Register
  <2>6. /\ raw' \in Seq(Nat) /\ Len(raw') = step' - 2
        /\ raw'[step - 1] = Register(civil'[step - 1])
        /\ \A i \in 1 .. step - 2 : raw'[i] = raw[i]
    BY <2>1, <2>2, <2>5
  <2>7. ASSUME ~held'
        PROVE  /\ seen' = civil'
               /\ phase' < TickHz - Lead + (step' - 2) * Slack
               /\ \A i \in 1 .. step' - 2 : raw'[i] = (Register(civil[i]))'
    <3>1. ~held /\ d <= Slack
      BY <1>1, <2>1, <2>7, DelaysBounded
    <3>2. /\ seen = civil
          /\ phase < TickHz - Lead + (step - 2) * Slack
          /\ \A i \in 1 .. step - 2 : raw[i] = Register(civil[i])
      BY <2>1, <3>1 DEF ReadingOK
    <3> DEFINE used == (step - 2) * Slack
    <3>3. used \in Nat /\ used + Slack = (step' - 2) * Slack /\ used + Slack <= 6 * Slack
      BY <1>1, <2>1
    <3> HIDE DEF used
    <3>4. phase < TickHz - Lead + used
      BY <3>2 DEF used
    <3>5. phase + d < TickHz - Lead + (used + Slack) /\ phase + d < TickHz /\ phase + d \in Nat
      BY <1>1, <3>1, <3>3, <3>4 DEF ChipsOK
    <3>6. phase' = phase + d
      BY <1>1, <2>1, <3>5, SmallRemainder DEF Passes, Elapses
    <3>7. civil' = civil
      BY <1>1, <2>1, <3>5 DEF Passes, Elapses
    <3>8. \A i \in 1 .. step - 2 : raw'[i] = Register(civil'[i])
      BY <2>6, <3>2, <3>7
    <3>9. \A i \in 1 .. step' - 2 : raw'[i] = Register(civil'[i])
      BY <2>1, <2>6, <3>8, SMTT(30)
    <3>10. \A n : Register(n)' = Register(n)
      BY <2>3 DEF Register
    <3> QED
      BY <2>1, <2>3, <3>2, <3>3, <3>5, <3>6, <3>7, <3>9, <3>10 DEF Register
  <2> QED
    BY <2>1, <2>2, <2>6, <2>7 DEF ReadingOK, Register
<1> QED
  BY <1>3, <1>4

-----------------------------------------------------------------------------
(* The invariant of every machine the assumptions allow.                     *)
THEOREM ClockInvariant == Spec => []IInv
<1>1. Init => IInv
  <2> SUFFICES ASSUME Init PROVE IInv
    OBVIOUS
  <2>1. ChipsOK
    <3>1. /\ Reload \in Nat \ {0} /\ TickHz \in Nat \ {0} /\ Lead \in 1 .. TickHz - 1
          /\ Rates \subseteq Nat
      BY ChipsAssumption
    <3>2. ChipsInit /\ civil \in ValidDates
      BY ChipsAssumption DEF Init, ChipsInit
    <3> QED
      BY <3>1, <3>2 DEF ChipsInit, ChipsOK
  <2>2. CalibrationOK
    BY DEF Init, TimerInit, CalibrationOK, CalibrationBounded
  <2>3. ReadingOK
    BY DEF Init, RtcInit, ReadingOK, Nothing
  <2> QED
    BY <2>1, <2>2, <2>3 DEF IInv
<1>2. IInv /\ [Next]_vars => IInv'
  <2> SUFFICES ASSUME IInv, [Next]_vars PROVE IInv'
    OBVIOUS
  <2> USE DEF IInv
  <2>1. ASSUME UNCHANGED rtc, step = 0 PROVE ReadingOK'
    BY <2>1 DEF rtc, ReadingOK
  <2>2. ASSUME NEW d \in Delays, Passes(d), UNCHANGED tsc_hz, pc' \in {"sleep", "shell"}
        PROVE  ChipsOK' /\ CalibrationOK'
    BY <2>2, PassesChips, CalibrationKept
  <2>3. ASSUME NEW d \in Delays, Boot(d) PROVE IInv'
    <3>1. ChipsOK' /\ CalibrationOK'
      BY <2>3, CalibrationStep DEF Boot
    <3>2. pc # "shell"
      BY <2>3 DEF Boot, Calibrate, ProgramPit, WaitHigh, WaitHighAgain, ReadStart,
                  ReadT0, WaitSpan, ReadCycles, ReadBoot, At
    <3>3. step = 0
      BY <3>2 DEF ReadingOK
    <3> QED
      BY <2>1, <2>3, <3>1, <3>3 DEF Boot
  <2>4. ASSUME NEW d \in Delays, Uptime(d) PROVE IInv'
    BY <2>1, <2>2, <2>4 DEF Uptime, Ready, timer
  <2>5. ASSUME NEW d \in Delays, NEW ms \in Naps, GoToSleep(ms, d) PROVE IInv'
    BY <2>1, <2>2, <2>5 DEF GoToSleep, StartSleep, Ready, At
  <2>6. ASSUME NEW d \in Delays, Sleeping(d) PROVE IInv'
    <3>1. Passes(d) /\ UNCHANGED tsc_hz /\ pc = "sleep" /\ pc' \in {"sleep", "shell"}
      BY <2>6 DEF Sleeping, Sleep, Wake, At, timer
    <3>2. step = 0 /\ UNCHANGED rtc
      BY <2>6, <3>1 DEF Sleeping, ReadingOK
    <3> QED
      BY <2>1, <2>2, <3>1, <3>2
  <2>7. CASE Date
    <3>1. UNCHANGED <<chips, pc, tsc_hz>> /\ step = 0 /\ step' = 1
          /\ raw' = raw /\ held' = held /\ pc = "shell"
      BY <2>7 DEF Date, Ready, StartReading, timer
    <3>2. ChipsOK' /\ CalibrationOK'
      BY <3>1, CalibrationKept DEF chips, ChipsOK
    <3>3. ReadingOK'
      BY <3>1 DEF ReadingOK
    <3> QED
      BY <3>2, <3>3
  <2>8. ASSUME NEW d \in Delays, ReadRegisters(d) PROVE IInv'
    <3>1. Passes(d) /\ UNCHANGED <<pc, tsc_hz>> /\ step # 0
      BY <2>8 DEF ReadRegisters, WaitFlag, ReadField, ReadFormat, timer
    <3>2. pc = "shell"
      BY <3>1 DEF ReadingOK
    <3>3. ChipsOK' /\ CalibrationOK'
      BY <2>2, <3>1, <3>2
    <3>4. CASE WaitFlag(d) \/ ReadField(d)
      BY <3>1, <3>3, <3>4, ReadingStep
    <3>5. CASE ReadFormat(d)
      BY <3>3, <3>5 DEF ReadFormat, ReadingOK, Nothing
    <3> QED
      BY <2>8, <3>3, <3>4, <3>5 DEF ReadRegisters
  <2>9. CASE UNCHANGED vars
    <3>1. UNCHANGED <<now, counter, rate, phase, civil, binary>> /\ UNCHANGED <<timer, rtc>>
      BY <2>9 DEF vars, chips
    <3>2. ChipsOK'
      BY <3>1 DEF ChipsOK
    <3>3. CalibrationOK'
      BY <3>1 DEF CalibrationOK, CalibrationBounded, Hz, Measured, timer
    <3>4. ReadingOK'
      BY <3>1 DEF ReadingOK, Register, rtc, timer
    <3> QED
      BY <3>2, <3>3, <3>4
  <2> QED
    BY <2>3, <2>4, <2>5, <2>6, <2>7, <2>8, <2>9 DEF Next, Access
<1> QED
  BY <1>1, <1>2, PTL DEF Spec

(* Whatever the counter shows at first and whatever holds the machine up, the *)
(* calibration measures the span, give or take the delays.                   *)
THEOREM ClockCalibrationBounded == Spec => []CalibrationBounded
<1>1. IInv => CalibrationBounded
  BY DEF IInv, CalibrationOK
<1> QED
  BY <1>1, ClockInvariant, PTL

(* A date read without being held up is one the calendar showed.             *)
THEOREM ClockReadingWhole == Spec => ReadingWhole
<1>1. IInv /\ [Next]_vars
        => [step = 8 /\ step' = 0 /\ ~held => shown' = [seen EXCEPT ![6] = @ + 2000]]_vars
  <2> SUFFICES ASSUME IInv, Next, step = 8, step' = 0, ~held
               PROVE  shown' = [seen EXCEPT ![6] = @ + 2000]
    OBVIOUS
  <2>1. /\ seen = civil /\ civil \in ValidDates
        /\ \A i \in 1 .. 6 : raw[i] = Register(civil[i])
    BY DEF IInv, ChipsOK, ReadingOK
  <2>2. PICK d \in Delays : ReadFormat(d) /\ shown' = Reading
    BY DEF Next, Access, Boot, Sleeping, ReadRegisters, Uptime, GoToSleep, Date, Ready,
           WaitFlag, ReadField, StartReading, rtc
  <2>3. \A i \in 1 .. 6 : civil[i] \in 0 .. 99
    BY <2>1 DEF ValidDates
  <2>4. \A i \in 1 .. 6 : (IF binary THEN raw[i] ELSE Bcd2bin(raw[i])) = civil[i]
    BY <2>1, <2>3, BcdBack DEF Register
  <2>5. Reading = [i \in 1 .. 6 |-> civil[i] + (IF i = 6 THEN 2000 ELSE 0)]
    BY <2>4 DEF Reading
  <2>6. civil \in [1 .. 6 -> 0 .. 99]
    BY <2>1 DEF ValidDates
  <2>7. [civil EXCEPT ![6] = @ + 2000] = [i \in 1 .. 6 |-> civil[i] + (IF i = 6 THEN 2000 ELSE 0)]
    <3> DEFINE f == [civil EXCEPT ![6] = @ + 2000]
               g == [i \in 1 .. 6 |-> civil[i] + (IF i = 6 THEN 2000 ELSE 0)]
    <3>1. f \in [1 .. 6 -> Int] /\ g \in [1 .. 6 -> Int]
      BY <2>3, <2>6
    <3>2. \A i \in 1 .. 6 : f[i] = g[i]
      BY <2>3, <2>6
    <3> HIDE DEF f, g
    <3>3. f = g
      BY <3>1, <3>2
    <3> QED
      BY <3>3 DEF f, g
  <2> QED
    BY <2>1, <2>2, <2>5, <2>7
<1> QED
  BY <1>1, ClockInvariant, PTL DEF Spec, ReadingWhole
-----------------------------------------------------------------------------
(* Sleep and uptime.                                                         *)

\* What a machine of r cycles a tick may be measured at.
Frequencies(r) ==
    {hz \in Nat \ {0} : hz = DefaultHz \/ hz * Span <= r * (Span + 2 * Stall - 1) * TickHz}

\* The products of tsc_calibrate and sleep_ms keep within their 64 bits: no
\* machine is so fast, no sleep so long, and the cycles are not counted for so
\* long, that one of them leaves them.
NoWrap ==
    \A r \in Rates :
        /\ r * (Span + 2 * Stall - 1) * TickHz < Mod
        /\ \A hz \in Frequencies(r), ms \in Naps :
              /\ hz * ms < Mod
              /\ r * Horizon + ((hz * ms) \div MsPerS) < Mod

\* The calibration has a result in the shell; a sleep that goes on is not over.
TimesOK ==
    /\ rate \in Rates /\ now <= Horizon
    /\ pc \in {"boot tsc", "shell", "sleep"} => tsc_hz # 0
    /\ pc \in {"shell", "sleep"} => \E b \in 0 .. now : boot_tsc = rate * b
    /\ pc = "sleep" => LET q == (tsc_hz * nap) \div MsPerS
                       IN  /\ nap \in Naps /\ begun \in 0 .. now
                           /\ end = rate * begun + q
                           /\ rate * (now - begun) <= q

\* A quotient is the number it is the largest below.
LEMMA Quotient ==
    ASSUME NEW p \in Nat, NEW q \in Nat \ {0}
    PROVE  p \div q \in Nat /\ (p \div q) * q <= p /\ p < ((p \div q) + 1) * q
<1> DEFINE a == p \div q   r == p % q
<1>1. a \in Nat /\ r \in 0 .. q - 1 /\ p = q * a + r
    OBVIOUS
<1>2. a * q = q * a /\ (a + 1) * q = q * a + q
    BY <1>1
<1> HIDE DEF a, r
<1>3. q * a \in Int
    BY <1>1
<1> DEFINE x == q * a
<1> HIDE DEF x
<1>4. a * q <= p /\ p < (a + 1) * q
    BY <1>1, <1>2, <1>3 DEF x
<1>5. QED
    BY <1>1, <1>4 DEF a

\* Products with a natural number keep the order.
LEMMA Monotone ==
    ASSUME NEW a \in Int, NEW b \in Int, a <= b, NEW c \in Nat
    PROVE  a * c <= b * c /\ c * a <= c * b
<1>1. (b - a) * c \in Nat
    OBVIOUS
<1>2. b * c = a * c + (b - a) * c /\ c * a = a * c /\ c * b = b * c
    OBVIOUS
<1>3. QED
    BY <1>1, <1>2

\* What is measured is the frequency up to the delays and the rounding.
LEMMA FrequencyIs ==
    ASSUME NoWrap, ChipsOK, rate \in Rates, CalibrationBounded, tsc_hz # 0
    PROVE  /\ tsc_hz \in Frequencies(rate)
           /\ Slowest \in Int /\ Slowest < tsc_hz * Span
           /\ Fastest \in Int
           /\ tsc_hz # DefaultHz => tsc_hz * Span <= Fastest
<1>1. /\ Span \in Nat \ {0} /\ Stall \in Nat /\ Stall < Span /\ TickHz \in Nat \ {0}
      /\ Mod \in Nat \ {0} /\ MinHz \in Nat \ {0} /\ DefaultHz \in Nat /\ DefaultHz >= MinHz
      /\ rate \in Nat
    BY ChipsAssumption, TimerAssumption DEF ChipsOK
<1>2. PICK ticks \in (Span - Stall) .. (Span + 2 * Stall - 1) : tsc_hz = Hz(rate * ticks)
    BY DEF CalibrationBounded
<1> DEFINE p == rate * ticks * TickHz
           lo == rate * (Span - Stall) * TickHz
           m == p \div Span
<1>3. p \in Nat /\ lo \in Nat /\ Fastest \in Nat /\ lo <= p /\ p <= Fastest
  <2>1. ticks \in Nat /\ Span - Stall \in Nat /\ Span + 2 * Stall - 1 \in Nat
        /\ Span - Stall <= ticks /\ ticks <= Span + 2 * Stall - 1
    BY <1>1
  <2> DEFINE x == rate * ticks   y == rate * (Span - Stall)   z == rate * (Span + 2 * Stall - 1)
  <2>2. x \in Nat /\ y \in Nat /\ z \in Nat /\ y <= x /\ x <= z
    BY <1>1, <2>1, Monotone
  <2> HIDE DEF x, y, z
  <2>3. x * TickHz \in Nat /\ y * TickHz \in Nat /\ z * TickHz \in Nat
        /\ y * TickHz <= x * TickHz /\ x * TickHz <= z * TickHz
    BY <1>1, <2>2, Monotone
  <2>4. QED
    BY <2>3 DEF x, y, z, Fastest
<1>4. p < Mod
    BY <1>1, <1>3 DEF NoWrap, Fastest
<1>5. Measured(rate * ticks) = m
    BY <1>1, <1>3, <1>4, SmallRemainder DEF Measured
<1>6. m \in Nat /\ m * Span <= p /\ p < (m + 1) * Span
  <2> HIDE DEF p
  <2>1. QED
    BY <1>1, <1>3, Quotient
<1>7. tsc_hz = IF m < MinHz THEN DefaultHz ELSE m
    BY <1>2, <1>5 DEF Hz
<1>8. Slowest = lo - Span
    BY DEF Slowest
<1> HIDE DEF p, lo, m
<1>9. tsc_hz \in Nat \ {0} /\ m <= tsc_hz
    BY <1>1, <1>6, <1>7
<1>10. m * Span <= tsc_hz * Span /\ m * Span \in Nat /\ tsc_hz * Span \in Nat
       /\ (m + 1) * Span = m * Span + Span
    BY <1>1, <1>6, <1>9, Monotone
<1>11. Slowest < tsc_hz * Span
  <2> DEFINE u == m * Span   v == tsc_hz * Span   w == (m + 1) * Span
  <2>1. u \in Nat /\ v \in Nat /\ u <= v /\ w = u + Span /\ p < w
    BY <1>6, <1>10
  <2> HIDE DEF u, v, w
  <2>2. lo - Span < v
    BY <1>1, <1>3, <2>1
  <2>3. QED
    BY <1>8, <2>2 DEF v
<1>12. tsc_hz # DefaultHz => tsc_hz * Span <= Fastest
  <2>1. tsc_hz # DefaultHz => tsc_hz = m
    BY <1>7
  <2> DEFINE u == m * Span
  <2>2. u \in Nat /\ u <= p
    BY <1>6, <1>10
  <2> HIDE DEF u
  <2>3. u <= Fastest
    BY <1>3, <2>2
  <2>4. QED
    BY <2>1, <2>3 DEF u
<1>13. tsc_hz \in Frequencies(rate)
    BY <1>9, <1>12 DEF Frequencies, Fastest
<1>14. QED
    BY <1>1, <1>3, <1>8, <1>11, <1>12, <1>13

\* A quotient below the modulus is not reduced.
LEMMA NapQuotient ==
    ASSUME NoWrap, NEW r \in Rates, NEW hz \in Frequencies(r), NEW ms \in Naps, NEW n \in 0 .. Horizon
    PROVE  LET q == (hz * ms) \div MsPerS
           IN  /\ q \in Nat
               /\ q * MsPerS <= hz * ms /\ hz * ms < (q + 1) * MsPerS
               /\ (r * n + ((hz * ms) % Mod) \div MsPerS) % Mod = r * n + q
<1> DEFINE p == hz * ms   q == p \div MsPerS
<1>1. /\ hz \in Nat /\ ms \in Nat /\ MsPerS \in Nat \ {0} /\ Mod \in Nat \ {0}
      /\ r \in Nat /\ Horizon \in Nat
    BY ChipsAssumption, TimerAssumption DEF Frequencies
<1>2. p < Mod /\ r * Horizon + q < Mod
    BY DEF NoWrap
<1>3. p \in Nat
    BY <1>1
<1>4. r * n \in Nat /\ r * Horizon \in Nat /\ r * n <= r * Horizon
    BY <1>1, Monotone
<1> HIDE DEF p
<1>5. q \in Nat /\ q * MsPerS <= p /\ p < (q + 1) * MsPerS
    BY <1>1, <1>3, Quotient
<1>6. p % Mod = p
    BY <1>1, <1>2, <1>3, SmallRemainder
<1> DEFINE x == r * n   y == r * Horizon
<1> HIDE DEF x, y, q
<1>7. x + q \in 0 .. Mod - 1
    BY <1>1, <1>2, <1>4, <1>5 DEF x, y
<1>8. (x + q) % Mod = x + q
    BY <1>1, <1>7, SmallRemainder
<1>9. QED
    BY <1>5, <1>6, <1>8 DEF p, q, x

\* The least a sleep lasts: what is awaited is rounded down.
LEMMA SleptEnough ==
    ASSUME NEW x \in Nat, NEW q \in Nat, q <= x, NEW hz \in Nat, NEW ms \in Nat,
           NEW k \in Nat, NEW s \in Nat \ {0}, hz * ms < (q + 1) * k,
           NEW low \in Int, low < hz * s
    PROVE  (x + 1) * k * s > low * ms
<1> DEFINE a == hz * ms   b == (q + 1) * k   c == (x + 1) * k   h == hz * s
<1>1. a \in Nat /\ b \in Nat /\ c \in Nat /\ h \in Nat
    OBVIOUS
<1>2. b <= c
    BY Monotone
<1>3. a + 1 <= c
    BY <1>1, <1>2
<1>4. low * ms <= h * ms /\ low * ms \in Int /\ h * ms \in Int
    BY <1>1, Monotone
<1>5. a * s = h * ms
    OBVIOUS
<1> HIDE DEF a, b, c, h
<1>6. (a + 1) * s <= c * s
    BY <1>1, <1>3, Monotone
<1>7. (a + 1) * s = a * s + s
    BY <1>1
<1>8. a * s \in Nat /\ c * s \in Nat
    BY <1>1
<1> DEFINE e == a * s   f == c * s   g == low * ms
<1>9. e + s <= f /\ g <= e
    BY <1>4, <1>5, <1>6, <1>7
<1>10. e \in Nat /\ f \in Nat /\ g \in Int
    BY <1>4, <1>8
<1> HIDE DEF e, f, g
<1>11. f > g
    BY <1>9, <1>10
<1>12. QED
    BY <1>11 DEF c, f, g

\* The most a sleep lasts but for the last delay.
LEMMA SleptNoMore ==
    ASSUME NEW x \in Int, NEW q \in Nat, x <= q, NEW hz \in Nat, NEW ms \in Nat,
           NEW k \in Nat, NEW s \in Nat, q * k <= hz * ms,
           NEW high \in Int, hz * s <= high
    PROVE  x * k * s <= high * ms
<1> DEFINE a == hz * ms   b == q * k   c == x * k   h == hz * s
<1>1. a \in Nat /\ b \in Nat /\ c \in Int /\ h \in Nat
    OBVIOUS
<1>2. c <= b
    BY Monotone
<1>3. c <= a
    BY <1>1, <1>2
<1>4. h * ms <= high * ms /\ high * ms \in Int /\ h * ms \in Int
    BY <1>1, Monotone
<1>5. a * s = h * ms
    OBVIOUS
<1> HIDE DEF a, b, c, h
<1>6. c * s <= a * s /\ c * s \in Int
    BY <1>1, <1>3, Monotone
<1> DEFINE e == a * s   f == c * s   g == high * ms
<1>7. f <= e /\ e <= g /\ f \in Int /\ e \in Int /\ g \in Int
    BY <1>1, <1>4, <1>5, <1>6
<1> HIDE DEF e, f, g
<1>8. f <= g
    BY <1>7
<1>9. QED
    BY <1>8 DEF c, f, g

\* In the shell a sleep may begin; the uptime counts from there.
LEMMA TimesStep ==
    ASSUME NoWrap, IInv, IInv', TimesOK, [Next]_vars
    PROVE  TimesOK'
<1>1. /\ MinHz \in Nat \ {0} /\ DefaultHz \in Nat /\ DefaultHz >= MinHz
      /\ Rates \subseteq Nat /\ Horizon \in Nat /\ rate \in Nat /\ now \in Nat
    BY ChipsAssumption, TimerAssumption DEF IInv, ChipsOK
<1>2. ASSUME NEW d \in Delays, Elapses(d)
      PROVE  rate' = rate /\ now' = now + d /\ now' \in Nat /\ now <= now' /\ now' <= Horizon
    BY <1>1, <1>2, DelaysBounded DEF Elapses
<1>3. ASSUME NEW d \in Delays, Elapses(d), boot_tsc' = boot_tsc, pc \in {"shell", "sleep"}
       PROVE  \E b \in 0 .. now' : boot_tsc' = rate' * b
  <2>1. PICK b \in 0 .. now : boot_tsc = rate * b
    BY <1>3 DEF TimesOK
  <2>2. b \in 0 .. now' /\ boot_tsc' = rate' * b
    BY <1>1, <1>2, <1>3, <2>1
  <2> QED
    BY <2>2
<1>4. ASSUME NEW d \in Delays, Elapses(d), UNCHANGED <<tsc_hz, boot_tsc>>, pc' = "shell",
             pc \in {"shell", "sleep"}
      PROVE  TimesOK'
  <2>1. rate' \in Rates /\ now' <= Horizon
    BY <1>2, <1>4 DEF TimesOK
  <2>2. tsc_hz' # 0
    BY <1>4 DEF TimesOK
  <2>3. \E b \in 0 .. now' : boot_tsc' = rate' * b
    BY <1>4, <1>3
  <2> QED
    BY <1>4, <2>1, <2>2, <2>3 DEF TimesOK
<1>5. ASSUME NEW d \in Delays, Boot(d) PROVE TimesOK'
  <2>1. CASE ReadCycles(d)
    <3>1. tsc_hz' = Hz(Tsc' - t0) /\ pc' = "boot tsc" /\ Elapses(d)
        BY <2>1 DEF ReadCycles, At, Passes
    <3> DEFINE m == Measured(Tsc' - t0)
    <3>2. tsc_hz' = IF m < MinHz THEN DefaultHz ELSE m
        BY <3>1 DEF Hz
    <3> HIDE DEF m
    <3>3. tsc_hz' # 0
        BY <1>1, <3>2
    <3> QED
        BY <1>2, <3>1, <3>3 DEF TimesOK
  <2>2. CASE ReadBoot(d)
    <3>1. /\ pc = "boot tsc" /\ pc' = "shell" /\ tsc_hz' = tsc_hz /\ Elapses(d)
          /\ boot_tsc' = rate' * now'
        BY <2>2 DEF ReadBoot, At, Passes, Tsc
    <3>2. tsc_hz' # 0 /\ rate' \in Rates /\ now' <= Horizon
        BY <1>2, <3>1 DEF TimesOK
    <3>3. now' \in Nat
        BY <1>2, <3>1
    <3>4. now' \in 0 .. now'
        BY <3>3
    <3> QED
        BY <3>1, <3>2, <3>4 DEF TimesOK
  <2>3. CASE ~ReadCycles(d) /\ ~ReadBoot(d)
    <3>1. Elapses(d) /\ pc' \notin {"boot tsc", "shell", "sleep"}
        BY <1>5, <2>3 DEF Boot, Calibrate, ProgramPit, WaitHigh, WaitHighAgain, ReadStart,
                          ReadT0, WaitSpan, At, Passes
    <3> QED
        BY <1>2, <3>1 DEF TimesOK
  <2> QED
    BY <2>1, <2>2, <2>3
<1>6. ASSUME NEW d \in Delays, Uptime(d) PROVE TimesOK'
    BY <1>4, <1>6 DEF Uptime, Ready, Passes, timer
<1>7. ASSUME NEW d \in Delays, NEW ms \in Naps, GoToSleep(ms, d) PROVE TimesOK'
  <2>1. /\ pc = "shell" /\ pc' = "sleep" /\ Elapses(d) /\ UNCHANGED <<tsc_hz, boot_tsc>>
        /\ end' = End(rate' * now', ms) /\ nap' = ms /\ begun' = now'
    BY <1>7 DEF GoToSleep, StartSleep, At, Passes, Tsc
  <2>2. tsc_hz # 0 /\ rate \in Rates
    BY <2>1 DEF TimesOK
  <2>3. tsc_hz \in Frequencies(rate)
    BY <2>2, FrequencyIs DEF IInv, CalibrationOK
  <2> DEFINE q == (tsc_hz * ms) \div MsPerS
  <2>4. now' \in 0 .. Horizon
    BY <1>1, <1>2, <2>1
  <2>5. q \in Nat /\ (rate * now' + ((tsc_hz * ms) % Mod) \div MsPerS) % Mod = rate * now' + q
    BY <2>2, <2>3, <2>4, NapQuotient
  <2>6. end' = rate' * now' + q
    BY <1>2, <2>1, <2>5 DEF End
  <2>7. rate' * (now' - begun') = 0
    BY <1>1, <1>2, <2>1
  <2>8. q' = q /\ (tsc_hz * nap)' = tsc_hz * ms
    BY <2>1
  <2> HIDE DEF q
  <2>9. \E b \in 0 .. now' : boot_tsc' = rate' * b
    BY <2>1, <1>3
  <2> QED
    BY <1>1, <1>2, <2>1, <2>2, <2>4, <2>5, <2>6, <2>7, <2>9 DEF TimesOK, q
<1>8. ASSUME NEW d \in Delays, Sleeping(d) PROVE TimesOK'
  <2>1. CASE Wake(d)
    BY <1>4, <2>1 DEF Wake, At, Passes
  <2>2. CASE Sleep(d)
    <3>1. pc = "sleep" /\ Elapses(d) /\ UNCHANGED timer /\ ~(rate' * now' >= end')
        BY <2>2 DEF Sleep, Passes, Over, Tsc, timer
    <3>2. UNCHANGED <<pc, tsc_hz, boot_tsc, end, nap, begun>>
        BY <3>1 DEF timer
    <3> DEFINE q == (tsc_hz * nap) \div MsPerS
    <3>3. /\ nap \in Naps /\ begun \in 0 .. now /\ end = rate * begun + q
          /\ tsc_hz # 0 /\ rate \in Rates
        BY <3>1 DEF TimesOK
    <3>4. q \in Nat
      <4>1. tsc_hz \in Frequencies(rate)
        BY <3>3, FrequencyIs DEF IInv, CalibrationOK
      <4>2. 0 \in 0 .. Horizon
        BY <1>1
      <4> QED
        BY <3>3, <4>1, <4>2, NapQuotient
    <3> HIDE DEF q
    <3>5. rate * now' - rate * begun = rate * (now' - begun)
        BY <1>1, <1>2, <3>1, <3>3, Distribute
    <3>6. rate * now' \in Nat /\ rate * begun \in Nat
        BY <1>1, <1>2, <3>1, <3>3
    <3> DEFINE x == rate * now'   y == rate * begun
    <3>7. x < y + q /\ x \in Nat /\ y \in Nat
        BY <1>1, <1>2, <3>1, <3>2, <3>3, <3>4, <3>6
    <3> HIDE DEF x, y
    <3>8. x - y <= q
        BY <3>4, <3>7
    <3>9. rate * (now' - begun) <= q
        BY <3>5, <3>8 DEF x, y
    <3>10. \E b \in 0 .. now' : boot_tsc' = rate' * b
        BY <1>3, <3>1, <3>2
    <3>11. begun \in 0 .. now'
        BY <1>1, <1>2, <3>1, <3>3
    <3> QED
        BY <1>2, <3>1, <3>2, <3>3, <3>9, <3>10, <3>11 DEF TimesOK, q
  <2> QED
    BY <1>8, <2>1, <2>2 DEF Sleeping
<1>9. CASE Date
    BY <1>9 DEF Date, Ready, StartReading, timer, chips, TimesOK
<1>10. ASSUME NEW d \in Delays, ReadRegisters(d) PROVE TimesOK'
  <2>1. Elapses(d) /\ UNCHANGED <<pc, tsc_hz, boot_tsc>> /\ step # 0
    BY <1>10 DEF ReadRegisters, WaitFlag, ReadField, ReadFormat, timer, Passes
  <2>2. pc = "shell"
    BY <2>1 DEF IInv, ReadingOK
  <2> QED
    BY <1>4, <2>1, <2>2
<1>11. CASE UNCHANGED vars
    BY <1>11 DEF vars, chips, timer, TimesOK
<1> QED
  BY <1>5, <1>6, <1>7, <1>8, <1>9, <1>10, <1>11 DEF Next, Access

\* The times the timer keeps, on every machine whose products do not wrap.
THEOREM ClockTimes == ASSUME NoWrap PROVE Spec => []TimesOK
<1>1. Init => TimesOK
    BY ChipsAssumption DEF Init, ChipsInit, TimerInit, TimesOK
<1>2. IInv /\ IInv' /\ TimesOK /\ [Next]_vars => TimesOK'
    BY TimesStep
<1> QED
    BY <1>1, <1>2, ClockInvariant, PTL DEF Spec

\* A sleep lasts what was asked for up to the error of the calibration, and ends
\* within a delay of it.
THEOREM ClockSleepBounded == ASSUME NoWrap PROVE Spec => SleepBounded
<1> DEFINE
      Bounds ==
        \A d \in Delays :
            Wake(d) =>
                LET slept == now' - begun
                IN  /\ (rate * slept + 1) * MsPerS * Span > Slowest * nap
                    /\ tsc_hz # DefaultHz =>
                         rate * (slept - Stall) * MsPerS * Span <= Fastest * nap
<1>1. IInv /\ TimesOK /\ [Next]_vars => [Bounds]_vars
  <2> SUFFICES ASSUME IInv, TimesOK, NEW d \in Delays, Wake(d)
               PROVE  LET slept == now' - begun
                      IN  /\ (rate * slept + 1) * MsPerS * Span > Slowest * nap
                          /\ tsc_hz # DefaultHz =>
                               rate * (slept - Stall) * MsPerS * Span <= Fastest * nap
    OBVIOUS
  <2> DEFINE q == (tsc_hz * nap) \div MsPerS
             slept == now' - begun
  <2>1. pc = "sleep" /\ Elapses(d) /\ rate' * now' >= end
    BY DEF Wake, At, Passes, Over, Tsc
  <2>2. /\ nap \in Naps /\ begun \in 0 .. now /\ end = rate * begun + q
        /\ rate * (now - begun) <= q
        /\ tsc_hz # 0 /\ rate \in Rates
    BY <2>1 DEF TimesOK
  <2>3. /\ tsc_hz \in Frequencies(rate)
        /\ Slowest \in Int /\ Slowest < tsc_hz * Span
        /\ Fastest \in Int
        /\ tsc_hz # DefaultHz => tsc_hz * Span <= Fastest
    BY <2>2, FrequencyIs DEF IInv, CalibrationOK
  <2>4. /\ Span \in Nat \ {0} /\ MsPerS \in Nat /\ Stall \in Nat /\ Horizon \in Nat
        /\ rate \in Nat /\ now \in Nat /\ nap \in Nat /\ tsc_hz \in Nat
    BY <2>2, <2>3, ChipsAssumption, TimerAssumption DEF IInv, ChipsOK, Frequencies
  <2>5. now' = now + d /\ rate' = rate /\ d \in Nat /\ d <= Stall
    BY <2>1, DelaysBounded DEF Elapses
  <2>6. q \in Nat /\ q * MsPerS <= tsc_hz * nap /\ tsc_hz * nap < (q + 1) * MsPerS
    <3>1. 0 \in 0 .. Horizon
        BY <2>4
    <3> QED
        BY <2>2, <2>3, <3>1, NapQuotient
  <2> HIDE DEF q
  <2>7. slept \in Nat /\ slept - Stall \in Int /\ slept - Stall <= now - begun /\ now - begun \in Nat
    BY <2>2, <2>4, <2>5
  <2>8. rate * now' - rate * begun = rate * slept
    BY <2>2, <2>4, <2>5, Distribute
  <2>9. rate * (slept - Stall) <= rate * (now - begun)
    BY <2>4, <2>7, Monotone
  <2>10. rate * now' \in Nat /\ rate * begun \in Nat /\ rate * slept \in Nat
         /\ rate * (slept - Stall) \in Int /\ rate * (now - begun) \in Nat
    BY <2>2, <2>4, <2>5, <2>7
  <2> HIDE DEF slept
  <2> DEFINE x == rate * slept   y == rate * (slept - Stall)   z == rate * (now - begun)
             u == rate * now'   v == rate * begun
  <2>11. u >= v + q /\ u - v = x
    BY <2>1, <2>2, <2>5, <2>8
  <2>12. /\ u \in Nat /\ v \in Nat /\ x \in Nat /\ y \in Int /\ z \in Nat
         /\ y <= z /\ z <= q
    BY <2>2, <2>9, <2>10
  <2> HIDE DEF x, y, z, u, v
  <2>13. q <= x /\ y <= q
    BY <2>6, <2>11, <2>12
  <2>14. (x + 1) * MsPerS * Span > Slowest * nap
    BY <2>3, <2>4, <2>6, <2>12, <2>13, SleptEnough
  <2>15. tsc_hz # DefaultHz => y * MsPerS * Span <= Fastest * nap
    BY <2>3, <2>4, <2>6, <2>12, <2>13, SleptNoMore
  <2> QED
    BY <2>14, <2>15 DEF x, y, slept
<1> QED
    BY <1>1, ClockInvariant, ClockTimes, PTL DEF Spec, SleepBounded

\* The uptime is the time since boot up to the error of the calibration, until
\* the product of cycles and 1000 leaves its 64 bits.
THEOREM ClockUptimeTrue == ASSUME NoWrap PROVE Spec => UptimeTrue
<1> DEFINE
      Bounds ==
        \A d \in Delays :
            Uptime(d) /\ (Tsc' - boot_tsc) * MsPerS < Mod =>
                LET ms == shown'[1]
                    elapsed == (Tsc' - boot_tsc) * MsPerS * Span
                IN  /\ Slowest * ms <= elapsed
                    /\ tsc_hz # DefaultHz => elapsed < Fastest * (ms + 1)
<1>1. IInv /\ TimesOK /\ [Next]_vars => [Bounds]_vars
  <2> SUFFICES ASSUME IInv, TimesOK, NEW d \in Delays, Uptime(d),
                      (Tsc' - boot_tsc) * MsPerS < Mod
               PROVE  LET ms == shown'[1]
                          elapsed == (Tsc' - boot_tsc) * MsPerS * Span
                      IN  /\ Slowest * ms <= elapsed
                          /\ tsc_hz # DefaultHz => elapsed < Fastest * (ms + 1)
    OBVIOUS
  <2> DEFINE p == (Tsc' - boot_tsc) * MsPerS
             ms == p \div tsc_hz
  <2>1. pc = "shell" /\ Elapses(d) /\ UNCHANGED timer /\ shown' = <<UptimeMs(Tsc')>>
    BY DEF Uptime, Ready, Passes
  <2>2. tsc_hz # 0 /\ rate \in Rates /\ \E b \in 0 .. now : boot_tsc = rate * b
    BY <2>1 DEF TimesOK
  <2>3. /\ tsc_hz \in Frequencies(rate)
        /\ Slowest \in Int /\ Slowest < tsc_hz * Span
        /\ Fastest \in Int
        /\ tsc_hz # DefaultHz => tsc_hz * Span <= Fastest
    BY <2>2, FrequencyIs DEF IInv, CalibrationOK
  <2>4. /\ Span \in Nat \ {0} /\ MsPerS \in Nat /\ Mod \in Nat \ {0}
        /\ rate \in Nat /\ now \in Nat /\ tsc_hz \in Nat \ {0}
    BY <2>2, <2>3, ChipsAssumption, TimerAssumption DEF IInv, ChipsOK, Frequencies
  <2>5. now' = now + d /\ rate' = rate /\ d \in Nat
    BY <2>1, DelaysBounded DEF Elapses
  <2>6. Tsc' - boot_tsc \in Nat
    <3>1. PICK b \in 0 .. now : boot_tsc = rate * b
        BY <2>2
    <3>2. Tsc' = rate * now'
        BY <2>5 DEF Tsc
    <3>3. rate * now' - rate * b = rate * (now' - b) /\ now' - b \in Nat
        BY <2>4, <2>5, Distribute
    <3>4. rate * (now' - b) \in Nat
        BY <2>4, <3>3
    <3> QED
        BY <3>1, <3>2, <3>3, <3>4
  <2>7. p \in Nat /\ p < Mod
    BY <2>4, <2>6
  <2>8. UptimeMs(Tsc') = (p % Mod) \div tsc_hz
    BY <2>2 DEF UptimeMs
  <2> HIDE DEF p
  <2>9. p % Mod = p
    BY <2>4, <2>7, SmallRemainder
  <2>10. ms \in Nat /\ ms * tsc_hz <= p /\ p < (ms + 1) * tsc_hz
    BY <2>4, <2>7, Quotient
  <2>11. shown'[1] = ms
    BY <2>1, <2>8, <2>9
  <2> HIDE DEF ms
  <2>12. Slowest * ms <= p * Span
    <3> DEFINE h == tsc_hz * Span   a == ms * tsc_hz
    <3>1. h \in Int /\ a \in Nat /\ Slowest <= h
        BY <2>3, <2>4, <2>10
    <3>2. h * ms = a * Span
        BY <2>4, <2>10
    <3>3. a <= p
        BY <2>10
    <3> HIDE DEF h, a
    <3>4. Slowest * ms <= h * ms /\ a * Span <= p * Span
        BY <2>3, <2>4, <2>7, <2>10, <3>1, <3>3, Monotone
    <3>5. Slowest * ms \in Int /\ h * ms \in Int /\ p * Span \in Int
        BY <2>3, <2>4, <2>7, <2>10, <3>1
    <3> DEFINE e == Slowest * ms   f == h * ms   g == p * Span
    <3>6. e \in Int /\ f \in Int /\ g \in Int /\ e <= f /\ f <= g
        BY <3>2, <3>4, <3>5
    <3> HIDE DEF e, f, g
    <3>7. e <= g
        BY <3>6
    <3> QED
        BY <3>7 DEF e, g
  <2>13. ASSUME tsc_hz # DefaultHz PROVE p * Span < Fastest * (ms + 1)
    <3> DEFINE h == tsc_hz * Span   a == (ms + 1) * tsc_hz
    <3>1. h \in Int /\ a \in Nat /\ h <= Fastest
        BY <2>3, <2>4, <2>10, <2>13
    <3>2. h * (ms + 1) = a * Span
        BY <2>4, <2>10
    <3>3. p + 1 <= a
        BY <2>7, <2>10, <3>1
    <3> HIDE DEF h, a
    <3>4. (p + 1) * Span <= a * Span
        BY <2>4, <2>7, <3>1, <3>3, Monotone
    <3>5. h * (ms + 1) <= Fastest * (ms + 1)
        BY <2>3, <2>10, <3>1, Monotone
    <3>6. (p + 1) * Span = p * Span + Span
        BY <2>4, <2>7
    <3>7. p * Span \in Int /\ a * Span \in Int /\ Fastest * (ms + 1) \in Int
        BY <2>3, <2>4, <2>7, <2>10, <3>1
    <3> DEFINE e == p * Span   f == a * Span   g == Fastest * (ms + 1)
    <3>8. e \in Int /\ f \in Int /\ g \in Int /\ e + Span <= f /\ f <= g
        BY <3>2, <3>4, <3>5, <3>6, <3>7
    <3> HIDE DEF e, f, g
    <3>9. e < g
        BY <2>4, <3>8
    <3> QED
        BY <3>9 DEF e, g
  <2> QED
    BY <2>11, <2>12, <2>13 DEF p
<1> QED
    BY <1>1, ClockInvariant, ClockTimes, PTL DEF Spec, UptimeTrue

-----------------------------------------------------------------------------
(* Exceptions (Idt).                                                         *)

(* The registers, and the instructions of the entry code.                    *)
RegSet == {Registers[i] : i \in DOMAIN Registers}

Ops == {"push", "pop", "number", "load", "call", "drop", "iretq"}

Codes == [op : Ops, reg : RegSet \cup {"none"}, n : Int]

(* The processor's words, and the words the dispatcher is told about.        *)
Interrupted(v, r) ==
    (IF v \in ErrorCodes THEN <<ErrorCode>> ELSE <<>>) \o <<r, CS, RFLAGS, RSP, SS>>

Base(v, r) == IF v \in Stubs THEN <<v, 0>> \o Interrupted(v, r) ELSE Interrupted(v, r)

(* How many registers are saved on top of these after d instructions of      *)
(* isr_common; a negative number is of the words of the stub that lack.      *)
Saved(d) == IF d <= 15 THEN d ELSE IF d <= 18 THEN 15 ELSE IF d <= 33 THEN 33 - d ELSE -2

(* The stack: s registers on top, the last saved first, then the words the   *)
(* dispatcher is told about and the frame; the first -s of those lack.       *)
StackIs(q, v, r, s) ==
    /\ q \in Seq(Int)
    /\ Len(q) = Len(Base(v, r)) + s
    /\ \A i \in 1 .. Len(q) :
          q[i] = IF i <= s THEN RegisterWord(s + 1 - i) ELSE Base(v, r)[i - s]

(* The registers after d instructions: the program's until they are saved,   *)
(* the dispatcher's arguments, and the program's again from the last one down. *)
RegsAre(q, v, r, d) ==
    /\ q \in [RegSet -> Int]
    /\ d <= 15 => q = ProgramRegs
    /\ d \in 16 .. 17 => q["rdi"] = Base(v, r)[1]
    /\ d = 17 => q["rsi"] = Base(v, r)[2]
    /\ d >= 18 => \A i \in 1 .. 15 : i > 33 - d => q[Registers[i]] = RegisterWord(i)

(* Where the gate of a vector begins, and what is left of its code.          *)
First(v) == IF v \in Stubs THEN -2 ELSE 0

TodoIs(q, v, d) ==
    /\ d \in First(v) .. 35
    /\ q \in Seq(Codes) /\ Len(q) = 35 - d
    /\ \A i \in 1 .. 35 - d : q[i] = Gate(v)[d - First(v) + i]

(* The processor has done d instructions after the exception v.              *)
Entered(v, d) ==
    /\ v \in 0 .. 31 /\ cause \in {v, NoCause}
    /\ TodoIs(todo, v, d) /\ d <= 34
    /\ RegsAre(regs, v, rip, d)
    /\ StackIs(stack, v, rip, Saved(d))

(* The inductive invariant.  An exception that lost the processor its way    *)
(* pushed more or less than its gate expects, and if the gate has a stub the *)
(* entry code is over.                                                       *)
IdtInv ==
    /\ rip \in Nat /\ rip >= 400
    /\ cause \in Vectors \cup {NoCause}
    /\ lost \in BOOLEAN
    /\ todo = <<>> /\ ~lost => regs = ProgramRegs /\ stack = <<>>
    /\ todo # <<>> /\ ~lost => \E v \in 0 .. 31, d \in -2 .. 34 : Entered(v, d)
    /\ lost => cause \notin Stubs \ ErrorCodes /\ (cause \in Stubs => todo = <<>>)

-----------------------------------------------------------------------------
(* The fifteen registers are different.                                      *)
LEMMA RegistersAre ==
    /\ DOMAIN Registers = 1 .. 15 /\ Len(Registers) = 15
    /\ RegSet = {"rax", "rbx", "rcx", "rdx", "rsi", "rdi", "rbp",
                 "r8", "r9", "r10", "r11", "r12", "r13", "r14", "r15"}
    /\ \A i \in 1 .. 15 : Registers[i] \in RegSet
    /\ \A i, j \in 1 .. 15 : Registers[i] = Registers[j] => i = j
<1>1. DOMAIN Registers = 1 .. 15 /\ Len(Registers) = 15
  BY DEF Registers
<1>2. /\ Registers[1] = "rax" /\ Registers[2] = "rbx" /\ Registers[3] = "rcx" /\ Registers[4] = "rdx"
      /\ Registers[5] = "rsi" /\ Registers[6] = "rdi" /\ Registers[7] = "rbp" /\ Registers[8] = "r8"
      /\ Registers[9] = "r9" /\ Registers[10] = "r10" /\ Registers[11] = "r11" /\ Registers[12] = "r12"
      /\ Registers[13] = "r13" /\ Registers[14] = "r14" /\ Registers[15] = "r15"
  BY DEF Registers
<1>3. 1 .. 15 = {1, 2, 3, 4, 5, 6, 7, 8, 9, 10, 11, 12, 13, 14, 15}
  OBVIOUS
<1>4. \A i \in 1 .. 15 : Registers[i] \in RegSet
  BY <1>1 DEF RegSet
<1>5. RegSet = {"rax", "rbx", "rcx", "rdx", "rsi", "rdi", "rbp",
                 "r8", "r9", "r10", "r11", "r12", "r13", "r14", "r15"}
  BY <1>1, <1>2, <1>3 DEF RegSet
<1>6. \A i, j \in 1 .. 15 : Registers[i] = Registers[j] => i = j
  BY <1>2, <1>3
<1> QED
  BY <1>1, <1>4, <1>5, <1>6

(* The program's words, register by register.                                *)
LEMMA ProgramRegsAre ==
    /\ ProgramRegs \in [RegSet -> Int]
    /\ \A i \in 1 .. 15 : ProgramRegs[Registers[i]] = RegisterWord(i)
<1>1. ASSUME NEW r \in RegSet
      PROVE  ProgramRegs[r] = RegisterWord(CHOOSE i \in DOMAIN Registers : Registers[i] = r)
  BY DEF ProgramRegs, RegSet
<1>2. ASSUME NEW i \in 1 .. 15 PROVE (CHOOSE j \in DOMAIN Registers : Registers[j] = Registers[i]) = i
  <2> DEFINE k == CHOOSE j \in DOMAIN Registers : Registers[j] = Registers[i]
  <2>1. k \in DOMAIN Registers /\ Registers[k] = Registers[i]
    BY RegistersAre
  <2> HIDE DEF k
  <2>2. k = i
    BY <2>1, RegistersAre
  <2> QED
    BY <2>2 DEF k
<1>3. ASSUME NEW i \in 1 .. 15 PROVE ProgramRegs[Registers[i]] = RegisterWord(i)
  BY <1>1, <1>2, RegistersAre
<1>4. ASSUME NEW r \in RegSet PROVE ProgramRegs[r] \in Int
  <2>1. PICK i \in 1 .. 15 : r = Registers[i]
    BY RegistersAre DEF RegSet
  <2> QED
    BY <1>3, <2>1 DEF RegisterWord
<1>5. ProgramRegs \in [RegSet -> Int]
  BY <1>4 DEF ProgramRegs, RegSet
<1> QED
  BY <1>3, <1>5

(* The program's registers are the only ones that hold the program's words.  *)
LEMMA ProgramRegsOnly ==
    ASSUME NEW q \in [RegSet -> Int], \A i \in 1 .. 15 : q[Registers[i]] = RegisterWord(i)
    PROVE  q = ProgramRegs
<1>1. ASSUME NEW r \in RegSet PROVE q[r] = ProgramRegs[r]
  <2>1. PICK i \in 1 .. 15 : r = Registers[i]
    BY RegistersAre DEF RegSet
  <2> QED
    BY <2>1, ProgramRegsAre
<1> QED
  BY <1>1, ProgramRegsAre

(* A sequence and one behind it.                                             *)
LEMMA FollowedBy ==
    ASSUME NEW S, NEW p \in Seq(S), NEW q \in Seq(S)
    PROVE  /\ p \o q \in Seq(S) /\ Len(p \o q) = Len(p) + Len(q)
           /\ \A i \in 1 .. Len(p) : (p \o q)[i] = p[i]
           /\ \A i \in 1 .. Len(q) : (p \o q)[Len(p) + i] = q[i]
<1> DEFINE m == Len(p)   n == Len(q)   w == p \o q
<1>1. m \in Nat /\ n \in Nat
  OBVIOUS
<1>2. /\ w \in Seq(S) /\ Len(w) = m + n
      /\ \A i \in 1 .. m + n : w[i] = IF i <= m THEN p[i] ELSE q[i - m]
  BY ConcatProperties
<1> HIDE DEF m, n, w
<1>3. \A i \in 1 .. m : w[i] = p[i]
  BY <1>1, <1>2
<1>4. ASSUME NEW i \in 1 .. n PROVE w[m + i] = q[i]
  <2>1. m + i \in 1 .. m + n /\ ~(m + i <= m) /\ (m + i) - m = i
    BY <1>1
  <2> QED
    BY <1>2, <2>1
<1> QED
  BY <1>2, <1>3, <1>4 DEF m, n, w

(* What the frame and the words of the stub look like, by the vector.        *)
BaseLooks(b, v, r) ==
    /\ b \in Seq(Int) /\ Len(b) \in Nat /\ Len(b) >= 5
    /\ v \in Stubs => b[1] = v /\ b[2] = 0
    /\ v \in Stubs \ ErrorCodes =>
         /\ Len(b) = 7 /\ b[3] = r /\ b[4] = CS
         /\ b[5] = RFLAGS /\ b[6] = RSP /\ b[7] = SS
    /\ v \in Stubs /\ v \in ErrorCodes => Len(b) = 8 /\ b[4] = r
    /\ v \notin Stubs => Len(b) < 7 /\ b[1] \notin 0 .. 255

(* Which words these are, with and without a stub and an error code.         *)
LEMMA BaseIs ==
    ASSUME NEW v \in 0 .. 31, NEW r \in Nat, r >= 400
    PROVE  BaseLooks(Base(v, r), v, r)
<1> DEFINE F == <<r, CS, RFLAGS, RSP, SS>>
           P == <<ErrorCode>>
           Q == <<v, 0>>
           I == Interrupted(v, r)
           B == Base(v, r)
<1>1. /\ F \in Seq(Int) /\ Len(F) = 5 /\ F[1] = r /\ F[2] = CS /\ F[3] = RFLAGS /\ F[4] = RSP
      /\ F[5] = SS
  BY DEF CS, RFLAGS, RSP, SS
<1>2. P \in Seq(Int) /\ Len(P) = 1 /\ P[1] = ErrorCode
  BY DEF ErrorCode
<1>3. Q \in Seq(Int) /\ Len(Q) = 2 /\ Q[1] = v /\ Q[2] = 0
  OBVIOUS
<1>4. I = IF v \in ErrorCodes THEN P \o F ELSE <<>> \o F
  BY DEF Interrupted
<1>5. B = IF v \in Stubs THEN Q \o I ELSE I
  BY DEF Base
<1> HIDE DEF F, P, Q, I, B
<1> SUFFICES /\ B \in Seq(Int) /\ Len(B) >= 5
             /\ v \in Stubs => B[1] = v /\ B[2] = 0
             /\ v \in Stubs /\ v \notin ErrorCodes =>
                  /\ Len(B) = 7 /\ B[3] = r /\ B[4] = CS
                  /\ B[5] = RFLAGS /\ B[6] = RSP /\ B[7] = SS
             /\ v \in Stubs /\ v \in ErrorCodes => Len(B) = 8 /\ B[4] = r
             /\ v \notin Stubs => Len(B) < 7 /\ B[1] \notin 0 .. 255
  BY DEF B, BaseLooks
<1>6. ErrorCode \notin 0 .. 255 /\ r \notin 0 .. 255
  BY DEF ErrorCode
<1>7. CASE v \in ErrorCodes
  <2>1. I = P \o F
    BY <1>4, <1>7
  <2>2. /\ I \in Seq(Int) /\ Len(I) = Len(P) + Len(F)
        /\ \A i \in 1 .. Len(P) : I[i] = P[i]
        /\ \A i \in 1 .. Len(F) : I[Len(P) + i] = F[i]
    <3>1. P \in Seq(Int) /\ F \in Seq(Int)
      BY <1>1, <1>2, <2>1
    <3>2. /\ P \o F \in Seq(Int) /\ Len(P \o F) = Len(P) + Len(F)
          /\ \A i \in 1 .. Len(P) : (P \o F)[i] = P[i]
          /\ \A i \in 1 .. Len(F) : (P \o F)[Len(P) + i] = F[i]
      BY <3>1, FollowedBy
    <3> QED
      BY <1>1, <1>2, <2>1, <3>2
  <2>3. Len(I) = 6 /\ I[1] = ErrorCode /\ I[1 + 1] = r
    BY <1>1, <1>2, <2>2
  <2>4. CASE v \in Stubs
    <3>1. B = Q \o I
      BY <1>5, <2>4
    <3>2. /\ B \in Seq(Int) /\ Len(B) = Len(Q) + Len(I)
          /\ \A i \in 1 .. Len(Q) : B[i] = Q[i]
          /\ \A i \in 1 .. Len(I) : B[Len(Q) + i] = I[i]
      <4>1. Q \in Seq(Int) /\ I \in Seq(Int)
        BY <1>3, <2>2, <3>1
      <4>2. /\ Q \o I \in Seq(Int) /\ Len(Q \o I) = Len(Q) + Len(I)
            /\ \A i \in 1 .. Len(Q) : (Q \o I)[i] = Q[i]
            /\ \A i \in 1 .. Len(I) : (Q \o I)[Len(Q) + i] = I[i]
        BY <4>1, FollowedBy
      <4> QED
        BY <1>3, <2>2, <3>1, <4>2
    <3>3. Len(B) = 8 /\ B[1] = v /\ B[2] = 0 /\ B[2 + 2] = r
      BY <1>3, <2>3, <3>2
    <3>4. B \in Seq(Int)
      BY <3>2
    <3> QED
      BY <1>7, <2>4, <3>3, <3>4
  <2>5. CASE v \notin Stubs
    <3>1. B = I
      BY <1>5, <2>5
    <3>2. B \in Seq(Int)
      BY <2>2, <3>1
    <3>3. Len(B) = 6 /\ B[1] \notin 0 .. 255
      BY <1>6, <2>3, <3>1
    <3> QED
      BY <2>5, <3>2, <3>3
  <2> QED
    BY <2>4, <2>5
<1>8. CASE v \notin ErrorCodes
  <2>1. I = F
    BY <1>1, <1>4, <1>8, ConcatEmptySeq
  <2>2. CASE v \in Stubs
    <3>1. B = Q \o F
      BY <1>5, <2>1, <2>2
    <3>2. /\ B \in Seq(Int) /\ Len(B) = Len(Q) + Len(F)
          /\ \A i \in 1 .. Len(Q) : B[i] = Q[i]
          /\ \A i \in 1 .. Len(F) : B[Len(Q) + i] = F[i]
      <4>1. Q \in Seq(Int) /\ F \in Seq(Int)
        BY <1>1, <1>3, <3>1
      <4>2. /\ Q \o F \in Seq(Int) /\ Len(Q \o F) = Len(Q) + Len(F)
            /\ \A i \in 1 .. Len(Q) : (Q \o F)[i] = Q[i]
            /\ \A i \in 1 .. Len(F) : (Q \o F)[Len(Q) + i] = F[i]
        BY <4>1, FollowedBy
      <4> QED
        BY <1>1, <1>3, <3>1, <4>2
    <3>3. Len(B) = 7 /\ B[1] = v /\ B[2] = 0
      BY <1>1, <1>3, <3>2
    <3>4. B[2 + 1] = r /\ B[2 + 2] = CS /\ B[2 + 3] = RFLAGS /\ B[2 + 4] = RSP /\ B[2 + 5] = SS
      BY <1>1, <1>3, <3>2
    <3>5. B \in Seq(Int)
      BY <3>2
    <3> QED
      BY <1>8, <2>2, <3>3, <3>4, <3>5
  <2>3. CASE v \notin Stubs
    <3>1. B = F
      BY <1>5, <2>1, <2>3
    <3>2. B \in Seq(Int)
      BY <1>1, <3>1
    <3>3. Len(B) = 5 /\ B[1] \notin 0 .. 255
      BY <1>1, <1>6, <3>1
    <3> QED
      BY <2>3, <3>2, <3>3
  <2> QED
    BY <2>2, <2>3
<1> QED
  BY <1>7, <1>8

-----------------------------------------------------------------------------
(* The code of isr_common, instruction by instruction.                       *)
LEMMA IsrCommonIs ==
    /\ IsrCommon \in Seq(Codes) /\ Len(IsrCommon) = 35
    /\ \A i \in 1 .. 15 : IsrCommon[i] = Push(Registers[i])
    /\ IsrCommon[16] = Load(120, "rdi") /\ IsrCommon[17] = Load(128, "rsi")
    /\ IsrCommon[18] = Instruction("call", "none", 0)
    /\ \A i \in 19 .. 33 : IsrCommon[i] = Pop(Registers[34 - i])
    /\ IsrCommon[34] = Instruction("drop", "none", 16)
    /\ IsrCommon[35] = Instruction("iretq", "none", 0)
<1> DEFINE A == Saves
           B == <<Load(120, "rdi"), Load(128, "rsi"), Instruction("call", "none", 0)>>
           C == Restores
           D == <<Instruction("drop", "none", 16), Instruction("iretq", "none", 0)>>
<1>1. \A r \in RegSet : Push(r) \in Codes /\ Pop(r) \in Codes
  BY DEF Push, Pop, Instruction, Codes, Ops
<1>2. /\ Load(120, "rdi") \in Codes /\ Load(128, "rsi") \in Codes
      /\ Instruction("call", "none", 0) \in Codes /\ Instruction("drop", "none", 16) \in Codes
      /\ Instruction("iretq", "none", 0) \in Codes
  BY RegistersAre DEF Load, Instruction, Codes, Ops
<1>3. /\ A \in Seq(Codes) /\ Len(A) = 15 /\ \A i \in 1 .. 15 : A[i] = Push(Registers[i])
  <2>1. A = [i \in 1 .. 15 |-> Push(Registers[i])] /\ A \in [1 .. 15 -> Codes]
    BY <1>1, RegistersAre DEF Saves
  <2> QED
    BY <2>1
<1>4. /\ C \in Seq(Codes) /\ Len(C) = 15 /\ \A i \in 1 .. 15 : C[i] = Pop(Registers[16 - i])
  <2>1. C = [i \in 1 .. 15 |-> Pop(Registers[16 - i])]
    BY RegistersAre DEF Restores
  <2>2. \A i \in 1 .. 15 : 16 - i \in 1 .. 15
    OBVIOUS
  <2>3. C \in [1 .. 15 -> Codes]
    BY <1>1, <2>1, <2>2, RegistersAre
  <2> QED
    BY <2>1, <2>3
<1>5. /\ B \in Seq(Codes) /\ Len(B) = 3 /\ B[1] = Load(120, "rdi") /\ B[2] = Load(128, "rsi")
      /\ B[3] = Instruction("call", "none", 0)
  BY <1>2
<1>6. /\ D \in Seq(Codes) /\ Len(D) = 2 /\ D[1] = Instruction("drop", "none", 16)
      /\ D[2] = Instruction("iretq", "none", 0)
  BY <1>2
<1>7. IsrCommon = ((A \o B) \o C) \o D
  BY DEF IsrCommon
<1> HIDE DEF A, B, C, D
<1> DEFINE E == A \o B
           F == E \o C
           G == F \o D
<1>8. E = A \o B /\ F = E \o C /\ G = F \o D /\ IsrCommon = G
  BY <1>7
<1> HIDE DEF E, F, G
<1>9. /\ E \in Seq(Codes) /\ Len(E) = Len(A) + Len(B)
      /\ \A i \in 1 .. Len(A) : E[i] = A[i]
      /\ \A i \in 1 .. Len(B) : E[Len(A) + i] = B[i]
  <2>1. A \in Seq(Codes) /\ B \in Seq(Codes)
    BY <1>3, <1>5, <1>8
  <2>2. /\ A \o B \in Seq(Codes) /\ Len(A \o B) = Len(A) + Len(B)
        /\ \A i \in 1 .. Len(A) : (A \o B)[i] = A[i]
        /\ \A i \in 1 .. Len(B) : (A \o B)[Len(A) + i] = B[i]
    BY <2>1, FollowedBy
  <2> QED
    BY <1>3, <1>5, <1>8, <2>2
<1>10. /\ F \in Seq(Codes) /\ Len(F) = Len(E) + Len(C)
       /\ \A i \in 1 .. Len(E) : F[i] = E[i]
       /\ \A i \in 1 .. Len(C) : F[Len(E) + i] = C[i]
  <2>1. E \in Seq(Codes) /\ C \in Seq(Codes)
    BY <1>4, <1>8, <1>9
  <2>2. /\ E \o C \in Seq(Codes) /\ Len(E \o C) = Len(E) + Len(C)
        /\ \A i \in 1 .. Len(E) : (E \o C)[i] = E[i]
        /\ \A i \in 1 .. Len(C) : (E \o C)[Len(E) + i] = C[i]
    BY <2>1, FollowedBy
  <2> QED
    BY <1>4, <1>8, <1>9, <2>2
<1>11. /\ G \in Seq(Codes) /\ Len(G) = Len(F) + Len(D)
       /\ \A i \in 1 .. Len(F) : G[i] = F[i]
       /\ \A i \in 1 .. Len(D) : G[Len(F) + i] = D[i]
  <2>1. F \in Seq(Codes) /\ D \in Seq(Codes)
    BY <1>6, <1>8, <1>10
  <2>2. /\ F \o D \in Seq(Codes) /\ Len(F \o D) = Len(F) + Len(D)
        /\ \A i \in 1 .. Len(F) : (F \o D)[i] = F[i]
        /\ \A i \in 1 .. Len(D) : (F \o D)[Len(F) + i] = D[i]
    BY <2>1, FollowedBy
  <2> QED
    BY <1>6, <1>8, <1>10, <2>2
<1>12. Len(E) = 18 /\ Len(F) = 33 /\ Len(G) = 35
  BY <1>3, <1>4, <1>5, <1>6, <1>9, <1>10, <1>11
<1>13. ASSUME NEW i \in 1 .. 15 PROVE G[i] = Push(Registers[i])
  <2>1. i \in 1 .. 18 /\ i \in 1 .. 33
    OBVIOUS
  <2>2. E[i] = A[i]
    BY <1>3, <1>9
  <2>3. A[i] = Push(Registers[i])
    BY <1>3
  <2>4. F[i] = E[i]
    BY <1>10, <1>12, <2>1
  <2>5. G[i] = F[i]
    BY <1>11, <1>12, <2>1
  <2> QED
    BY <2>2, <2>3, <2>4, <2>5
<1>14. ASSUME NEW i \in 1 .. 3 PROVE G[15 + i] = B[i]
  <2>1. 15 + i \in 1 .. 18 /\ 15 + i \in 1 .. 33
    OBVIOUS
  <2>2. E[15 + i] = B[i]
    BY <1>3, <1>5, <1>9
  <2>3. F[15 + i] = E[15 + i]
    BY <1>10, <1>12, <2>1
  <2>4. G[15 + i] = F[15 + i]
    BY <1>11, <1>12, <2>1
  <2> QED
    BY <2>2, <2>3, <2>4
<1>15. ASSUME NEW i \in 19 .. 33 PROVE G[i] = Pop(Registers[34 - i])
  <2> DEFINE j == i - 18
  <2>1. j \in 1 .. 15 /\ 16 - j = 34 - i /\ 18 + j = i /\ i \in 1 .. 33
    OBVIOUS
  <2> HIDE DEF j
  <2>2. F[18 + j] = C[j] /\ C[j] = Pop(Registers[16 - j])
    BY <1>4, <1>10, <1>12, <2>1
  <2> QED
    BY <1>11, <1>12, <2>1, <2>2
<1>16. G[33 + 1] = D[1] /\ G[33 + 2] = D[2]
  BY <1>6, <1>11, <1>12
<1>17. G[16] = B[1] /\ G[17] = B[2] /\ G[18] = B[3] /\ G[34] = D[1] /\ G[35] = D[2]
  BY <1>14, <1>16
<1> QED
  BY <1>5, <1>6, <1>8, <1>11, <1>12, <1>13, <1>15, <1>17

(* The code of a gate.                                                       *)
LEMMA GateIs ==
    ASSUME NEW v \in 0 .. 31
    PROVE  /\ Gate(v) \in Seq(Codes) /\ Len(Gate(v)) = 35 - First(v) /\ First(v) \in {-2, 0}
           /\ v \in Stubs => Gate(v)[1] = PushNumber(0) /\ Gate(v)[2] = PushNumber(v)
           /\ \A i \in 1 .. 35 : Gate(v)[i - First(v)] = IsrCommon[i]
<1>1. CASE v \in Stubs
  <2> DEFINE s == Stub(v)
  <2>1. s \in Seq(Codes) /\ Len(s) = 2 /\ s[1] = PushNumber(0) /\ s[2] = PushNumber(v)
    <3>1. PushNumber(0) \in Codes /\ PushNumber(v) \in Codes
      BY DEF PushNumber, Instruction, Codes, Ops
    <3> QED
      BY <3>1 DEF Stub
  <2>2. Gate(v) = s \o IsrCommon /\ First(v) = -2
    BY <1>1 DEF Gate, First
  <2> HIDE DEF s
  <2> DEFINE g == Gate(v)
             c == IsrCommon
  <2>3. c \in Seq(Codes) /\ Len(c) = 35 /\ g = s \o c
    BY <2>2, IsrCommonIs
  <2> HIDE DEF g, c
  <2>4. /\ g \in Seq(Codes) /\ Len(g) = Len(s) + Len(c)
        /\ \A i \in 1 .. Len(s) : g[i] = s[i]
        /\ \A i \in 1 .. Len(c) : g[Len(s) + i] = c[i]
    <3>1. s \in Seq(Codes) /\ c \in Seq(Codes)
      BY <2>1, <2>3
    <3>2. /\ s \o c \in Seq(Codes) /\ Len(s \o c) = Len(s) + Len(c)
          /\ \A i \in 1 .. Len(s) : (s \o c)[i] = s[i]
          /\ \A i \in 1 .. Len(c) : (s \o c)[Len(s) + i] = c[i]
      BY <3>1, FollowedBy
    <3> QED
      BY <2>1, <2>3, <3>2
  <2>5. Len(g) = 37 /\ g[1] = s[1] /\ g[2] = s[2]
    <3>1. Len(g) = 2 + 35 /\ 1 \in 1 .. 2 /\ 2 \in 1 .. 2
      BY <2>1, <2>3, <2>4
    <3>2. \A i \in 1 .. 2 : g[i] = s[i]
      BY <2>1, <2>4
    <3> QED
      BY <3>1, <3>2
  <2>6. ASSUME NEW i \in 1 .. 35 PROVE g[i - First(v)] = c[i]
    <3>1. i - First(v) = 2 + i
      BY <2>2
    <3>2. g[2 + i] = c[i]
      BY <2>1, <2>3, <2>4
    <3> QED
      BY <3>1, <3>2
  <2>7. Len(g) = 35 - First(v)
    BY <2>2, <2>5
  <2> QED
    BY <2>1, <2>2, <2>4, <2>5, <2>6, <2>7 DEF g, c
<1>2. CASE v \notin Stubs
  <2>1. Gate(v) = IsrCommon /\ First(v) = 0
    BY <1>2 DEF Gate, First
  <2>2. \A i \in 1 .. 35 : i - First(v) = i
    BY <2>1
  <2> QED
    BY <1>2, <2>1, <2>2, IsrCommonIs
<1> QED
  BY <1>1, <1>2

(* The instruction after the first d of isr_common; the stub comes before.   *)
CodeAt(v, d) ==
    IF d = -2 THEN PushNumber(0)
    ELSE IF d = -1 THEN PushNumber(v)
    ELSE IF d <= 14 THEN Push(Registers[d + 1])
    ELSE IF d = 15 THEN Load(120, "rdi")
    ELSE IF d = 16 THEN Load(128, "rsi")
    ELSE IF d = 17 THEN Instruction("call", "none", 0)
    ELSE IF d <= 32 THEN Pop(Registers[33 - d])
    ELSE IF d = 33 THEN Instruction("drop", "none", 16)
    ELSE Instruction("iretq", "none", 0)

(* The next instruction, and what is left after it.                          *)
LEMMA TopIs ==
    ASSUME NEW v \in 0 .. 31, NEW d \in -2 .. 34, NEW q, TodoIs(q, v, d)
    PROVE  /\ TodoIs(Tail(q), v, d + 1)
           /\ Head(q) = CodeAt(v, d)
<1>1. /\ d \in First(v) .. 34 /\ q \in Seq(Codes) /\ Len(q) = 35 - d /\ First(v) \in {-2, 0}
      /\ \A i \in 1 .. 35 - d : q[i] = Gate(v)[d - First(v) + i]
  <2>1. First(v) \in {-2, 0}
    BY DEF First
  <2> QED
    BY <2>1 DEF TodoIs
<1>2. q # <<>> /\ Len(q) - 1 = 35 - (d + 1)
  BY <1>1
<1>3. /\ Tail(q) \in Seq(Codes) /\ Len(Tail(q)) = 35 - (d + 1)
      /\ \A i \in 1 .. 35 - (d + 1) : Tail(q)[i] = q[i + 1]
  BY <1>1, <1>2, HeadTailProperties
<1>4. ASSUME NEW i \in 1 .. 35 - (d + 1) PROVE Tail(q)[i] = Gate(v)[(d + 1) - First(v) + i]
  <2>1. i + 1 \in 1 .. 35 - d
    OBVIOUS
  <2>2. d - First(v) + (i + 1) = (d + 1) - First(v) + i
    <3> DEFINE f == First(v)
    <3>1. f \in Int /\ i \in Int
      BY <1>1
    <3> HIDE DEF f
    <3>2. d - f + (i + 1) = (d + 1) - f + i
      BY <3>1
    <3> QED
      BY <3>2 DEF f
  <2> QED
    BY <1>1, <1>3, <2>1, <2>2
<1>5. TodoIs(Tail(q), v, d + 1)
  <2>1. d + 1 \in First(v) .. 35
    BY <1>1
  <2> QED
    BY <1>3, <1>4, <2>1 DEF TodoIs
<1>6. Head(q) = Gate(v)[d - First(v) + 1]
  <2>1. 1 \in 1 .. 35 - d
    BY <1>1
  <2> QED
    BY <1>1, <1>2, <2>1
<1>7. CASE d < 0
  <2>1. v \in Stubs /\ First(v) = -2
    BY <1>1, <1>7 DEF First
  <2>2. CASE d = -2
    <3>1. d - First(v) + 1 = 1
      BY <2>1, <2>2
    <3> QED
      BY <1>5, <1>6, <2>1, <2>2, <3>1, GateIs DEF CodeAt
  <2>3. CASE d = -1
    <3>1. d - First(v) + 1 = 2
      BY <2>1, <2>3
    <3>2. CodeAt(v, d) = PushNumber(v)
      BY <2>3 DEF CodeAt
    <3> QED
      BY <1>5, <1>6, <2>1, <3>1, <3>2, GateIs
  <2> QED
    BY <1>7, <2>2, <2>3
<1>8. CASE d >= 0
  <2>1. d + 1 \in 1 .. 35 /\ d - First(v) + 1 = (d + 1) - First(v)
    <3> DEFINE f == First(v)
    <3>1. f \in Int /\ d \in 0 .. 34
      BY <1>1, <1>8
    <3> HIDE DEF f
    <3>2. d + 1 \in 1 .. 35 /\ d - f + 1 = (d + 1) - f
      BY <3>1
    <3> QED
      BY <3>2 DEF f
  <2>2. Head(q) = IsrCommon[d + 1]
    BY <1>6, <2>1, GateIs
  <2>3. CASE d \in 0 .. 14
    <3>1. d + 1 \in 1 .. 15
      BY <2>3
    <3>2. CodeAt(v, d) = Push(Registers[d + 1])
      BY <2>3 DEF CodeAt
    <3> QED
      BY <1>5, <2>2, <3>1, <3>2, IsrCommonIs
  <2>4. CASE d \in 15 .. 17
    <3>1. CASE d = 15
      <4>1. CodeAt(v, d) = Load(120, "rdi") /\ d + 1 = 16
        BY <3>1 DEF CodeAt
      <4> QED
        BY <1>5, <2>2, <4>1, IsrCommonIs
    <3>2. CASE d = 16
      <4>1. CodeAt(v, d) = Load(128, "rsi") /\ d + 1 = 17
        BY <3>2 DEF CodeAt
      <4> QED
        BY <1>5, <2>2, <4>1, IsrCommonIs
    <3>3. CASE d = 17
      <4>1. CodeAt(v, d) = Instruction("call", "none", 0) /\ d + 1 = 18
        BY <3>3 DEF CodeAt
      <4> QED
        BY <1>5, <2>2, <4>1, IsrCommonIs
    <3> QED
      BY <2>4, <3>1, <3>2, <3>3
  <2>5. CASE d \in 18 .. 32
    <3>1. d + 1 \in 19 .. 33 /\ 34 - (d + 1) = 33 - d
      BY <2>5
    <3>2. CodeAt(v, d) = Pop(Registers[33 - d])
      BY <2>5 DEF CodeAt
    <3> QED
      BY <1>5, <2>2, <3>1, <3>2, IsrCommonIs
  <2>6. CASE d \in 33 .. 34
    <3>1. CASE d = 33
      <4>1. CodeAt(v, d) = Instruction("drop", "none", 16) /\ d + 1 = 34
        BY <3>1 DEF CodeAt
      <4> QED
        BY <1>5, <2>2, <4>1, IsrCommonIs
    <3>2. CASE d = 34
      <4>1. CodeAt(v, d) = Instruction("iretq", "none", 0) /\ d + 1 = 35
        BY <3>2 DEF CodeAt
      <4> QED
        BY <1>5, <2>2, <4>1, IsrCommonIs
    <3> QED
      BY <2>6, <3>1, <3>2
  <2> QED
    BY <1>8, <2>3, <2>4, <2>5, <2>6
<1> QED
  BY <1>7, <1>8

(* What the operation says of the place, and what it works on.               *)
Tells(c, v, d) ==
    /\ c.op = "number" => d \in {-2, -1} /\ c.n = IF d = -2 THEN 0 ELSE v
    /\ c.op = "push" => d \in 0 .. 14 /\ c.reg = Registers[d + 1]
    /\ c.op = "load" =>
         \/ d = 15 /\ c.n = 120 /\ c.reg = "rdi"
         \/ d = 16 /\ c.n = 128 /\ c.reg = "rsi"
    /\ c.op = "call" => d = 17
    /\ c.op = "pop" => d \in 18 .. 32 /\ c.reg = Registers[33 - d]
    /\ c.op = "drop" => d = 33 /\ c.n = 16
    /\ c.op = "iretq" => d = 34

(* What the instruction at a place of the entry code is.                     *)
LEMMA OpAt ==
    ASSUME NEW v \in 0 .. 31, NEW d \in -2 .. 34
    PROVE  Tells(CodeAt(v, d), v, d)
<1> SUFFICES ASSUME NEW c, c = CodeAt(v, d)
             PROVE  Tells(c, v, d)
  OBVIOUS
<1> USE DEF Tells
<1>1. CASE d = -2
  BY <1>1 DEF CodeAt, PushNumber, Instruction
<1>2. CASE d = -1
  BY <1>2 DEF CodeAt, PushNumber, Instruction
<1>3. CASE d \in 0 .. 14
  <2>1. c = Push(Registers[d + 1])
    BY <1>3 DEF CodeAt
  <2> QED
    BY <1>3, <2>1 DEF Push, Instruction
<1>4. CASE d = 15
  BY <1>4 DEF CodeAt, Load, Instruction
<1>5. CASE d = 16
  BY <1>5 DEF CodeAt, Load, Instruction
<1>6. CASE d = 17
  BY <1>6 DEF CodeAt, Instruction
<1>7. CASE d \in 18 .. 32
  <2>1. c = Pop(Registers[33 - d])
    BY <1>7 DEF CodeAt
  <2> QED
    BY <1>7, <2>1 DEF Pop, Instruction
<1>8. CASE d = 33
  BY <1>8 DEF CodeAt, Instruction
<1>9. CASE d = 34
  BY <1>9 DEF CodeAt, Instruction
<1> QED
  BY <1>1, <1>2, <1>3, <1>4, <1>5, <1>6, <1>7, <1>8, <1>9

-----------------------------------------------------------------------------
(* The stack.                                                                *)

(* A word more, and it is the next register.                                 *)
LEMMA PushedOn ==
    ASSUME NEW v \in 0 .. 31, NEW r \in Nat, r >= 400, NEW q, NEW s \in -2 .. 14,
           StackIs(q, v, r, s),
           NEW w \in Int, w = IF s >= 0 THEN RegisterWord(s + 1) ELSE Base(v, r)[-s]
    PROVE  StackIs(<<w>> \o q, v, r, s + 1)
<1> DEFINE b == Base(v, r)
           p == <<w>>
           n == p \o q
<1>1. /\ q \in Seq(Int) /\ Len(q) = Len(b) + s /\ Len(b) \in Nat /\ Len(q) \in Nat
      /\ \A i \in 1 .. Len(q) : q[i] = IF i <= s THEN RegisterWord(s + 1 - i) ELSE b[i - s]
  <2>1. BaseLooks(b, v, r)
    BY BaseIs
  <2>2. Len(b) \in Nat
    BY <2>1 DEF BaseLooks
  <2>3. /\ q \in Seq(Int) /\ Len(q) = Len(b) + s
        /\ \A i \in 1 .. Len(q) : q[i] = IF i <= s THEN RegisterWord(s + 1 - i) ELSE b[i - s]
    BY DEF StackIs
  <2> QED
    BY <2>2, <2>3
<1>2. w = IF s >= 0 THEN RegisterWord(s + 1) ELSE b[-s]
  OBVIOUS
<1>3. p \in Seq(Int) /\ Len(p) = 1 /\ p[1] = w
  OBVIOUS
<1> HIDE DEF b, p
<1>4. /\ n \in Seq(Int) /\ Len(n) = 1 + Len(q) /\ n[1] = w
      /\ \A i \in 1 .. Len(q) : n[1 + i] = q[i]
  <2>1. p \in Seq(Int) /\ q \in Seq(Int)
    BY <1>1, <1>3
  <2>2. /\ p \o q \in Seq(Int) /\ Len(p \o q) = Len(p) + Len(q)
        /\ \A i \in 1 .. Len(p) : (p \o q)[i] = p[i]
        /\ \A i \in 1 .. Len(q) : (p \o q)[Len(p) + i] = q[i]
    BY <2>1, FollowedBy
  <2> QED
    BY <1>3, <2>2
<1> HIDE DEF n
<1>5. Len(n) = Len(b) + (s + 1)
  BY <1>1, <1>4
<1>6. ASSUME NEW i \in 1 .. Len(n)
      PROVE  n[i] = IF i <= s + 1 THEN RegisterWord((s + 1) + 1 - i) ELSE b[i - (s + 1)]
  <2>1. CASE i = 1
    <3>1. /\ i <= s + 1 <=> s >= 0
          /\ (s + 1) + 1 - i = s + 1 /\ i - (s + 1) = -s
      BY <2>1
    <3> QED
      BY <1>2, <1>4, <2>1, <3>1
  <2>2. CASE i # 1
    <3> DEFINE j == i - 1
    <3>1. /\ j \in 1 .. Len(q) /\ 1 + j = i /\ (i <= s + 1 <=> j <= s)
          /\ (s + 1) + 1 - i = s + 1 - j /\ i - (s + 1) = j - s
      BY <1>1, <1>4, <2>2
    <3> HIDE DEF j
    <3>2. n[i] = q[j]
      BY <1>4, <3>1
    <3> QED
      BY <1>1, <3>1, <3>2
  <2> QED
    BY <2>1, <2>2
<1> QED
  BY <1>4, <1>5, <1>6 DEF StackIs, n, b, p

(* A word less, and it was the last register.                                *)
LEMMA PoppedOff ==
    ASSUME NEW v \in 0 .. 31, NEW r \in Nat, r >= 400, NEW q, NEW s \in 1 .. 15,
           StackIs(q, v, r, s)
    PROVE  StackIs(Tail(q), v, r, s - 1) /\ Head(q) = RegisterWord(s)
<1> DEFINE b == Base(v, r)
           n == Tail(q)
<1>1. /\ q \in Seq(Int) /\ Len(q) = Len(b) + s /\ Len(b) \in Nat /\ Len(q) \in Nat
      /\ \A i \in 1 .. Len(q) : q[i] = IF i <= s THEN RegisterWord(s + 1 - i) ELSE b[i - s]
  <2>1. BaseLooks(b, v, r)
    BY BaseIs
  <2>2. Len(b) \in Nat
    BY <2>1 DEF BaseLooks
  <2>3. /\ q \in Seq(Int) /\ Len(q) = Len(b) + s
        /\ \A i \in 1 .. Len(q) : q[i] = IF i <= s THEN RegisterWord(s + 1 - i) ELSE b[i - s]
    BY DEF StackIs
  <2> QED
    BY <2>2, <2>3
<1> HIDE DEF b
<1>2. q # <<>> /\ 1 \in 1 .. Len(q)
  BY <1>1
<1>3. n \in Seq(Int) /\ Len(n) = Len(q) - 1 /\ \A i \in 1 .. Len(n) : n[i] = q[i + 1]
  BY <1>1, <1>2, HeadTailProperties
<1>4. Head(q) = RegisterWord(s)
  <2>1. Head(q) = q[1] /\ 1 <= s /\ s + 1 - 1 = s
    BY <1>1, <1>2
  <2> QED
    BY <1>1, <1>2, <2>1
<1> HIDE DEF n
<1>5. ASSUME NEW i \in 1 .. Len(n)
      PROVE  n[i] = IF i <= s - 1 THEN RegisterWord((s - 1) + 1 - i) ELSE b[i - (s - 1)]
  <2> DEFINE j == i + 1
  <2>1. /\ j \in 1 .. Len(q) /\ (i <= s - 1 <=> j <= s)
        /\ (s - 1) + 1 - i = s + 1 - j /\ i - (s - 1) = j - s
    <3>1. i \in Nat /\ 1 <= i /\ i + 1 <= Len(q)
      BY <1>1, <1>3
    <3>2. Len(q) \in Nat
      BY <1>1
    <3> HIDE DEF n, b
    <3> QED
      BY <3>1, <3>2
  <2>2. n[i] = q[j]
    BY <1>3
  <2> HIDE DEF j
  <2> QED
    BY <1>1, <2>1, <2>2
<1>6. Len(n) = Len(b) + (s - 1)
  <2>1. Len(q) = Len(b) + s /\ Len(b) \in Nat /\ Len(n) = Len(q) - 1
    BY <1>1, <1>3
  <2> QED
    BY <2>1
<1> QED
  BY <1>3, <1>4, <1>5, <1>6 DEF StackIs, n, b

(* The words of the stub are passed over.                                    *)
LEMMA DroppedTwo ==
    ASSUME NEW v \in 0 .. 31, NEW r \in Nat, r >= 400, NEW q, StackIs(q, v, r, 0)
    PROVE  StackIs(SubSeq(q, 3, Len(q)), v, r, -2)
<1> DEFINE b == Base(v, r)
           m == Len(q)
           n == SubSeq(q, 3, m)
<1>1. /\ q \in Seq(Int) /\ m = Len(b) /\ m \in Nat /\ m >= 5
      /\ \A i \in 1 .. m : q[i] = b[i]
  <2>1. Len(b) \in Nat /\ Len(b) >= 5
    BY BaseIs DEF BaseLooks
  <2>2. q \in Seq(Int) /\ m = Len(b) + 0
    BY DEF StackIs
  <2>3. ASSUME NEW i \in 1 .. m PROVE q[i] = b[i]
    <3>1. ~(i <= 0) /\ i - 0 = i
      OBVIOUS
    <3> QED
      BY <3>1 DEF StackIs
  <2> QED
    BY <2>1, <2>2, <2>3
<1>2. 3 \in Int /\ m \in Int /\ \A i \in 3 .. m : q[i] \in Int
  BY <1>1
<1> HIDE DEF m, b
<1>3. /\ n \in Seq(Int) /\ Len(n) = IF 3 <= m THEN m - 3 + 1 ELSE 0
      /\ \A i \in 1 .. m - 3 + 1 : n[i] = q[3 + i - 1]
  BY <1>2, SubSeqProperties
<1> HIDE DEF n
<1>4. Len(n) = m - 2 /\ Len(n) = Len(b) + (-2)
  BY <1>1, <1>3
<1>5. ASSUME NEW i \in 1 .. Len(n)
      PROVE  n[i] = IF i <= -2 THEN RegisterWord(-2 + 1 - i) ELSE b[i - (-2)]
  <2> DEFINE j == i + 2
  <2>1. /\ j \in 1 .. m /\ i \in 1 .. m - 3 + 1 /\ 3 + i - 1 = j /\ ~(i <= -2) /\ i - (-2) = j
    BY <1>1, <1>4
  <2> HIDE DEF j
  <2> QED
    BY <1>1, <1>3, <2>1
<1> QED
  BY <1>3, <1>4, <1>5 DEF StackIs, n, b, m

-----------------------------------------------------------------------------
(* One step.                                                                 *)

(* The entry code goes on.                                                   *)
LEMMA GoesOn ==
    ASSUME IdtInv, lost' = FALSE, rip' = rip, NEW v \in 0 .. 31, NEW d \in -2 .. 34,
           cause' \in {v, NoCause}, cause' \in Vectors \cup {NoCause},
           TodoIs(todo', v, d), RegsAre(regs', v, rip, d), StackIs(stack', v, rip, Saved(d))
    PROVE  IdtInv'
<1>1. todo' # <<>>
  <2>1. Len(todo') = 35 - d
    BY DEF TodoIs
  <2>2. 35 - d >= 1
    OBVIOUS
  <2> QED
    BY <2>1, <2>2
<1>2. Entered(v, d)'
  BY DEF Entered
<1>3. \E a \in 0 .. 31, b \in -2 .. 34 : Entered(a, b)'
  BY <1>2
<1>4. rip' \in Nat /\ rip' >= 400 /\ lost' \in BOOLEAN
  BY DEF IdtInv
<1> QED
  BY <1>1, <1>3, <1>4 DEF IdtInv

(* What an instruction finds.                                                *)
LEMMA Found ==
    ASSUME IdtInv, NEW op, Does(op)
    PROVE  \E v \in 0 .. 31, d \in -2 .. 34 :
              /\ Entered(v, d) /\ Tells(Top, v, d) /\ Top.op = op /\ TodoIs(todo', v, d + 1)
              /\ ~lost /\ rip \in Nat /\ rip >= 400
<1>1. ~lost /\ todo # <<>> /\ Head(todo).op = op /\ todo' = Tail(todo)
  BY DEF Does
<1>2. PICK v \in 0 .. 31, d \in -2 .. 34 : Entered(v, d)
  BY <1>1 DEF IdtInv
<1>3. TodoIs(Tail(todo), v, d + 1) /\ Head(todo) = CodeAt(v, d)
  BY <1>2, TopIs DEF Entered
<1>4. Tells(Head(todo), v, d)
  BY <1>3, OpAt
<1> QED
  BY <1>1, <1>2, <1>3, <1>4 DEF IdtInv, Top

(* Each instruction of the entry code.                                       *)
LEMMA PushOK ==
    ASSUME IdtInv, DoPush
    PROVE  IdtInv'
<1>1. /\ Does("push") /\ stack' = <<regs[Top.reg]>> \o stack /\ regs' = regs
      /\ rip' = rip /\ cause' = cause /\ lost' = lost
  BY DEF DoPush
<1>2. PICK v \in 0 .. 31, d \in -2 .. 34 :
         /\ Entered(v, d) /\ Tells(Top, v, d) /\ Top.op = "push" /\ TodoIs(todo', v, d + 1)
         /\ ~lost /\ rip \in Nat /\ rip >= 400
  BY <1>1, Found
<1>3. d \in 0 .. 14 /\ Top.reg = Registers[d + 1]
  BY <1>2 DEF Tells
<1>4. Saved(d) = d /\ Saved(d + 1) = d + 1
  BY <1>3 DEF Saved
<1>5. regs = ProgramRegs /\ regs \in [RegSet -> Int]
  BY <1>2, <1>3 DEF Entered, RegsAre
<1>6. RegsAre(regs', v, rip, d + 1)
  BY <1>1, <1>3, <1>5 DEF RegsAre
<1> DEFINE w == regs[Top.reg]
<1>7. w \in Int /\ w = RegisterWord(d + 1)
  <2>1. d + 1 \in 1 .. 15
    BY <1>3
  <2> QED
    BY <1>3, <1>5, <2>1, ProgramRegsAre DEF RegisterWord
<1> HIDE DEF w
<1>8. StackIs(stack, v, rip, d)
  BY <1>2, <1>4 DEF Entered
<1>9. StackIs(<<w>> \o stack, v, rip, d + 1)
  <2>1. d \in -2 .. 14 /\ w = IF d >= 0 THEN RegisterWord(d + 1) ELSE Base(v, rip)[-d]
    BY <1>3, <1>7
  <2> QED
    BY <1>2, <1>7, <1>8, <2>1, PushedOn
<1>10. /\ lost' = FALSE /\ rip' = rip /\ d + 1 \in -2 .. 34
       /\ cause' \in {v, NoCause} /\ cause' \in Vectors \cup {NoCause}
  BY <1>1, <1>2, <1>3 DEF Entered, IdtInv
<1>11. StackIs(stack', v, rip, Saved(d + 1))
  BY <1>1, <1>4, <1>9 DEF w
<1> QED
  BY <1>2, <1>6, <1>10, <1>11, GoesOn

(* The two words of a stub: the error code 0 and the number.                 *)
LEMMA PushNumberOK ==
    ASSUME IdtInv, DoPushNumber
    PROVE  IdtInv'
<1>1. /\ Does("number") /\ stack' = <<Top.n>> \o stack /\ regs' = regs
      /\ rip' = rip /\ cause' = cause /\ lost' = lost
  BY DEF DoPushNumber
<1>2. PICK v \in 0 .. 31, d \in -2 .. 34 :
         /\ Entered(v, d) /\ Tells(Top, v, d) /\ Top.op = "number" /\ TodoIs(todo', v, d + 1)
         /\ ~lost /\ rip \in Nat /\ rip >= 400
  BY <1>1, Found
<1>3. d \in {-2, -1} /\ Top.n = IF d = -2 THEN 0 ELSE v
  BY <1>2 DEF Tells
<1>4. Saved(d) = d /\ Saved(d + 1) = d + 1
  BY <1>3 DEF Saved
<1>5. RegsAre(regs', v, rip, d + 1)
  BY <1>1, <1>2, <1>3 DEF Entered, RegsAre
<1>6. v \in Stubs
  <2>1. First(v) <= d
    BY <1>2 DEF Entered, TodoIs
  <2> QED
    BY <1>3, <2>1 DEF First
<1>7. Base(v, rip)[1] = v /\ Base(v, rip)[2] = 0
  <2>1. BaseLooks(Base(v, rip), v, rip)
    BY <1>2, BaseIs
  <2> QED
    BY <1>6, <2>1 DEF BaseLooks
<1> DEFINE w == Top.n
<1>8. w \in Int /\ w = Base(v, rip)[-d]
  <2>1. CASE d = -2
    BY <1>3, <1>7, <2>1
  <2>2. CASE d = -1
    BY <1>3, <1>7, <2>2
  <2> QED
    BY <1>3, <2>1, <2>2
<1> HIDE DEF w
<1>9. StackIs(stack, v, rip, d) /\ ~(d >= 0) /\ d \in -2 .. 14
  BY <1>2, <1>3, <1>4 DEF Entered
<1>10. StackIs(<<w>> \o stack, v, rip, d + 1)
  BY <1>2, <1>8, <1>9, PushedOn
<1>11. /\ lost' = FALSE /\ rip' = rip /\ d + 1 \in -2 .. 34
       /\ cause' \in {v, NoCause} /\ cause' \in Vectors \cup {NoCause}
  BY <1>1, <1>2, <1>3 DEF Entered, IdtInv
<1>12. StackIs(stack', v, rip, Saved(d + 1))
  BY <1>1, <1>4, <1>10 DEF w
<1> QED
  BY <1>2, <1>5, <1>11, <1>12, GoesOn

(* A register is given back the word that was pushed for it.                 *)
LEMMA PopOK ==
    ASSUME IdtInv, DoPop
    PROVE  IdtInv'
<1>1. /\ Does("pop") /\ regs' = [regs EXCEPT ![Top.reg] = Head(stack)] /\ stack' = Tail(stack)
      /\ rip' = rip /\ cause' = cause /\ lost' = lost
  BY DEF DoPop
<1>2. PICK v \in 0 .. 31, d \in -2 .. 34 :
         /\ Entered(v, d) /\ Tells(Top, v, d) /\ Top.op = "pop" /\ TodoIs(todo', v, d + 1)
         /\ ~lost /\ rip \in Nat /\ rip >= 400
  BY <1>1, Found
<1> DEFINE s == 33 - d
<1>3. d \in 18 .. 32 /\ s \in 1 .. 15 /\ Top.reg = Registers[s]
  BY <1>2 DEF Tells
<1>4. Saved(d) = s /\ Saved(d + 1) = s - 1 /\ 33 - (d + 1) = s - 1
  BY <1>3 DEF Saved
<1>5. StackIs(stack, v, rip, s)
  BY <1>2, <1>4 DEF Entered
<1>6. /\ regs \in [RegSet -> Int]
      /\ \A i \in 1 .. 15 : i > s => regs[Registers[i]] = RegisterWord(i)
  BY <1>2, <1>3 DEF Entered, RegsAre
<1> HIDE DEF s
<1>7. StackIs(Tail(stack), v, rip, s - 1) /\ Head(stack) = RegisterWord(s)
  BY <1>2, <1>3, <1>5, PoppedOff
<1> DEFINE g == Top.reg   h == Head(stack)
<1>8. regs' = [regs EXCEPT ![Registers[s]] = RegisterWord(s)] /\ RegisterWord(s) \in Int
  <2>1. regs' = [regs EXCEPT ![g] = h]
    BY <1>1
  <2>2. g = Registers[s] /\ h = RegisterWord(s)
    BY <1>3, <1>7
  <2>3. RegisterWord(s) \in Int
    BY <1>3 DEF RegisterWord
  <2> HIDE DEF g, h
  <2> QED
    BY <2>1, <2>2, <2>3
<1>9. regs' \in [RegSet -> Int]
  BY <1>6, <1>8
<1>10. ASSUME NEW i \in 1 .. 15, i > s - 1 PROVE regs'[Registers[i]] = RegisterWord(i)
  <2>1. Registers[i] \in RegSet /\ Registers[s] \in RegSet /\ (Registers[i] = Registers[s] => i = s)
    BY <1>3, RegistersAre
  <2>2. CASE i = s
    BY <1>6, <1>8, <2>1, <2>2
  <2>3. CASE i # s
    <3>1. i > s
      BY <1>3, <1>10, <2>3
    <3> QED
      BY <1>6, <1>8, <2>1, <2>3, <3>1
  <2> QED
    BY <2>2, <2>3
<1>11. RegsAre(regs', v, rip, d + 1)
  BY <1>3, <1>4, <1>9, <1>10 DEF RegsAre
<1>12. /\ lost' = FALSE /\ rip' = rip /\ d + 1 \in -2 .. 34
       /\ cause' \in {v, NoCause} /\ cause' \in Vectors \cup {NoCause}
  BY <1>1, <1>2, <1>3 DEF Entered, IdtInv
<1>13. StackIs(stack', v, rip, Saved(d + 1))
  BY <1>1, <1>4, <1>7
<1> QED
  BY <1>2, <1>11, <1>12, <1>13, GoesOn

(* The number and the error code become the arguments of the dispatcher.     *)
LEMMA LoadOK ==
    ASSUME IdtInv, DoLoad
    PROVE  IdtInv'
<1>1. /\ Does("load") /\ regs' = [regs EXCEPT ![Top.reg] = stack[Top.n \div 8 + 1]] /\ stack' = stack
      /\ rip' = rip /\ cause' = cause /\ lost' = lost
  BY DEF DoLoad
<1>2. PICK v \in 0 .. 31, d \in -2 .. 34 :
         /\ Entered(v, d) /\ Tells(Top, v, d) /\ Top.op = "load" /\ TodoIs(todo', v, d + 1)
         /\ ~lost /\ rip \in Nat /\ rip >= 400
  BY <1>1, Found
<1>3. \/ d = 15 /\ Top.n = 120 /\ Top.reg = "rdi"
      \/ d = 16 /\ Top.n = 128 /\ Top.reg = "rsi"
  BY <1>2 DEF Tells
<1>4. d \in 15 .. 16 /\ Saved(d) = 15 /\ Saved(d + 1) = 15
  BY <1>3 DEF Saved
<1>5. StackIs(stack, v, rip, 15)
  BY <1>2, <1>4 DEF Entered
<1> DEFINE b == Base(v, rip)
<1>6. b \in Seq(Int) /\ Len(b) \in Nat /\ Len(b) >= 5
  BY <1>2, BaseIs DEF BaseLooks
<1>7. stack[16] = b[1] /\ stack[17] = b[2]
  <2>1. 16 \in 1 .. Len(stack) /\ 17 \in 1 .. Len(stack)
    BY <1>5, <1>6 DEF StackIs
  <2>2. ~(16 <= 15) /\ ~(17 <= 15) /\ 16 - 15 = 1 /\ 17 - 15 = 2
    OBVIOUS
  <2> QED
    BY <1>5, <2>1, <2>2 DEF StackIs
<1>8. b[1] \in Int /\ b[2] \in Int
  BY <1>6
<1> HIDE DEF b
<1>9. regs \in [RegSet -> Int] /\ "rdi" \in RegSet /\ "rsi" \in RegSet
  BY <1>2, RegistersAre DEF Entered, RegsAre
<1>10. RegsAre(regs', v, rip, d + 1)
  <2>1. CASE d = 15 /\ Top.n = 120 /\ Top.reg = "rdi"
    <3>1. regs' = [regs EXCEPT !["rdi"] = b[1]]
      <4> DEFINE g == Top.reg   h == stack[Top.n \div 8 + 1]
      <4>1. 120 \div 8 + 1 = 16
        OBVIOUS
      <4>2. regs' = [regs EXCEPT ![g] = h]
        BY <1>1
      <4>3. g = "rdi" /\ h = b[1]
        BY <1>7, <2>1, <4>1
      <4> HIDE DEF g, h
      <4> QED
        BY <4>2, <4>3
    <3>2. regs' \in [RegSet -> Int] /\ regs'["rdi"] = b[1]
      BY <1>8, <1>9, <3>1
    <3> QED
      BY <2>1, <3>2 DEF RegsAre, b
  <2>2. CASE d = 16 /\ Top.n = 128 /\ Top.reg = "rsi"
    <3>1. regs' = [regs EXCEPT !["rsi"] = b[2]]
      <4> DEFINE g == Top.reg   h == stack[Top.n \div 8 + 1]
      <4>1. 128 \div 8 + 1 = 17
        OBVIOUS
      <4>2. regs' = [regs EXCEPT ![g] = h]
        BY <1>1
      <4>3. g = "rsi" /\ h = b[2]
        BY <1>7, <2>2, <4>1
      <4> HIDE DEF g, h
      <4> QED
        BY <4>2, <4>3
    <3>2. regs["rdi"] = b[1]
      BY <1>2, <2>2 DEF Entered, RegsAre, b
    <3>3. regs' \in [RegSet -> Int] /\ regs'["rdi"] = b[1] /\ regs'["rsi"] = b[2]
      BY <1>8, <1>9, <3>1, <3>2
    <3> QED
      BY <2>2, <3>3 DEF RegsAre, b
  <2> QED
    BY <1>3, <2>1, <2>2
<1>11. /\ lost' = FALSE /\ rip' = rip /\ d + 1 \in -2 .. 34
       /\ cause' \in {v, NoCause} /\ cause' \in Vectors \cup {NoCause}
  BY <1>1, <1>2, <1>4 DEF Entered, IdtInv
<1>12. StackIs(stack', v, rip, Saved(d + 1))
  BY <1>1, <1>4, <1>5
<1> QED
  BY <1>2, <1>10, <1>11, <1>12, GoesOn

(* After the last register, the two words of the stub go.                    *)
LEMMA DropOK ==
    ASSUME IdtInv, DoDrop
    PROVE  IdtInv'
<1>1. /\ Does("drop") /\ stack' = SubSeq(stack, Top.n \div 8 + 1, Len(stack)) /\ regs' = regs
      /\ rip' = rip /\ cause' = cause /\ lost' = lost
  BY DEF DoDrop
<1>2. PICK v \in 0 .. 31, d \in -2 .. 34 :
         /\ Entered(v, d) /\ Tells(Top, v, d) /\ Top.op = "drop" /\ TodoIs(todo', v, d + 1)
         /\ ~lost /\ rip \in Nat /\ rip >= 400
  BY <1>1, Found
<1>3. d = 33 /\ Top.n = 16
  BY <1>2 DEF Tells
<1>4. Saved(33) = 0 /\ Saved(34) = -2 /\ 16 \div 8 + 1 = 3 /\ 33 + 1 = 34
  BY DEF Saved
<1>5. StackIs(stack, v, rip, 0)
  BY <1>2, <1>3, <1>4 DEF Entered
<1>6. StackIs(SubSeq(stack, 3, Len(stack)), v, rip, -2)
  BY <1>2, <1>5, DroppedTwo
<1>7. /\ regs \in [RegSet -> Int]
      /\ \A i \in 1 .. 15 : i > 33 - 33 => regs[Registers[i]] = RegisterWord(i)
  BY <1>2, <1>3 DEF Entered, RegsAre
<1>8. \A i \in 1 .. 15 : regs[Registers[i]] = RegisterWord(i)
  BY <1>7
<1>9. RegsAre(regs', v, rip, 34)
  BY <1>1, <1>7, <1>8 DEF RegsAre
<1>10. /\ lost' = FALSE /\ rip' = rip /\ 34 \in -2 .. 34
       /\ cause' \in {v, NoCause} /\ cause' \in Vectors \cup {NoCause}
  BY <1>1, <1>2 DEF Entered, IdtInv
<1>11. StackIs(stack', v, rip, Saved(34)) /\ TodoIs(todo', v, 34)
  BY <1>1, <1>2, <1>3, <1>4, <1>6
<1> QED
  BY <1>2, <1>9, <1>10, <1>11, GoesOn

(* The dispatcher may change what a call may change, and that was saved.     *)
LEMMA DispatchOK ==
    ASSUME IdtInv, Dispatch
    PROVE  IdtInv'
<1>1. /\ Does("call") /\ stack' = stack /\ rip' = rip
      /\ regs' = [r \in DOMAIN regs |-> IF r \in CallerSaved THEN Changed ELSE regs[r]]
      /\ cause' \in {cause, NoCause} /\ lost' \in BOOLEAN \cup {lost}
      /\ Number \in 0 .. 255 => lost' = lost
  <2>1. IDT_ENTRIES - 1 = 255
    BY DEF IDT_ENTRIES
  <2> QED
    BY <2>1 DEF Dispatch
<1>2. PICK v \in 0 .. 31, d \in -2 .. 34 :
         /\ Entered(v, d) /\ Tells(Top, v, d) /\ Top.op = "call" /\ TodoIs(todo', v, d + 1)
         /\ ~lost /\ rip \in Nat /\ rip >= 400
  BY <1>1, Found
<1>3. d = 17 /\ Saved(17) = 15 /\ Saved(18) = 15 /\ 17 + 1 = 18
  BY <1>2 DEF Saved, Tells
<1>4. regs \in [RegSet -> Int] /\ regs["rdi"] = Base(v, rip)[1]
  BY <1>2, <1>3 DEF Entered, RegsAre
<1>5. regs' \in [RegSet -> Int]
  BY <1>1, <1>4 DEF Changed
<1>6. RegsAre(regs', v, rip, 18)
  BY <1>5 DEF RegsAre
<1>7. lost \in BOOLEAN /\ lost' \in BOOLEAN /\ NoCause \notin Stubs
  BY <1>1 DEF IdtInv, NoCause, Stubs
<1>8. cause' \in {v, NoCause} /\ cause' \in Vectors \cup {NoCause}
  BY <1>1, <1>2 DEF Entered, IdtInv
<1>9. CASE lost' = FALSE
  <2>1. 18 \in -2 .. 34 /\ TodoIs(todo', v, 18)
    BY <1>2, <1>3
  <2>2. StackIs(stack', v, rip, Saved(18))
    BY <1>1, <1>2, <1>3 DEF Entered
  <2> QED
    BY <1>1, <1>2, <1>6, <1>8, <1>9, <2>1, <2>2, GoesOn
<1>10. CASE lost' = TRUE
  <2>1. Number \notin 0 .. 255
    BY <1>1, <1>2, <1>10
  <2>2. v \notin Stubs
    <3>1. BaseLooks(Base(v, rip), v, rip)
      BY <1>2, BaseIs
    <3>2. Base(v, rip)[1] \notin 0 .. 255
      BY <1>4, <2>1 DEF Number
    <3>3. v \in 0 .. 255
      OBVIOUS
    <3> QED
      BY <3>1, <3>2, <3>3 DEF BaseLooks
  <2>3. cause' \notin Stubs
    BY <1>7, <1>8, <2>2
  <2> QED
    BY <1>1, <1>2, <1>7, <1>8, <1>10, <2>3 DEF IdtInv, Running
<1> QED
  BY <1>7, <1>9, <1>10

(* The frame of the processor goes last, and the program runs again.         *)
LEMMA IretqOK ==
    ASSUME IdtInv, Iretq
    PROVE  IdtInv'
<1> DEFINE frame == Len(stack) >= 5 /\ SubSeq(stack, 2, 5) = <<CS, RFLAGS, RSP, SS>>
<1>1. /\ Does("iretq") /\ regs' = regs /\ cause' = cause
      /\ frame => rip' = Head(stack) /\ stack' = SubSeq(stack, 6, Len(stack)) /\ lost' = lost
      /\ ~frame => lost' = TRUE /\ rip' = rip
  BY DEF Iretq
<1>2. PICK v \in 0 .. 31, d \in -2 .. 34 :
         /\ Entered(v, d) /\ Tells(Top, v, d) /\ Top.op = "iretq" /\ TodoIs(todo', v, d + 1)
         /\ ~lost /\ rip \in Nat /\ rip >= 400
  BY <1>1, Found
<1>3. d = 34 /\ Saved(34) = -2 /\ 34 + 1 = 35
  BY <1>2 DEF Saved, Tells
<1>4. todo' = <<>>
  BY <1>2, <1>3 DEF TodoIs
<1>5. regs' = ProgramRegs
  <2>1. /\ regs \in [RegSet -> Int]
        /\ \A i \in 1 .. 15 : i > 33 - 34 => regs[Registers[i]] = RegisterWord(i)
    BY <1>2, <1>3 DEF Entered, RegsAre
  <2>2. \A i \in 1 .. 15 : regs[Registers[i]] = RegisterWord(i)
    BY <2>1
  <2> QED
    BY <1>1, <2>1, <2>2, ProgramRegsOnly
<1> DEFINE b == Base(v, rip)
<1>6. /\ stack \in Seq(Int) /\ Len(stack) = Len(b) - 2
      /\ \A i \in 1 .. Len(stack) : stack[i] = b[i + 2]
  <2>1. StackIs(stack, v, rip, -2)
    BY <1>2, <1>3 DEF Entered
  <2>2. Len(b) \in Nat
    BY <1>2, BaseIs DEF BaseLooks
  <2>3. ASSUME NEW i \in 1 .. Len(stack) PROVE stack[i] = b[i + 2]
    <3>1. ~(i <= -2) /\ i - (-2) = i + 2
      OBVIOUS
    <3> QED
      BY <2>1, <3>1 DEF StackIs
  <2>4. Len(stack) = Len(b) + (-2) /\ stack \in Seq(Int)
    BY <2>1 DEF StackIs
  <2> QED
    BY <2>2, <2>3, <2>4
<1> HIDE DEF b
<1>7. NoCause \notin Stubs /\ ~(cause' \in Stubs /\ cause' # v)
  BY <1>1, <1>2 DEF Entered, NoCause, Stubs
<1>8. cause' \in Vectors \cup {NoCause}
  BY <1>1 DEF IdtInv
<1>9. CASE v \in Stubs \ ErrorCodes
  <2>1. /\ Len(b) = 7 /\ b[3] = rip /\ b[4] = CS /\ b[5] = RFLAGS /\ b[6] = RSP /\ b[7] = SS
    <3>1. BaseLooks(b, v, rip)
      BY <1>2, BaseIs DEF b
    <3> QED
      BY <1>9, <3>1 DEF BaseLooks
  <2>2. /\ Len(stack) = 5 /\ stack[1] = rip /\ stack[2] = CS /\ stack[3] = RFLAGS
        /\ stack[4] = RSP /\ stack[5] = SS
    <3>1. Len(stack) = 5
      BY <1>6, <2>1
    <3>2. \A i \in 1 .. 5 : stack[i] = b[i + 2]
      BY <1>6, <3>1
    <3> QED
      BY <2>1, <3>1, <3>2
  <2>3. SubSeq(stack, 2, 5) = <<CS, RFLAGS, RSP, SS>>
    <3> DEFINE m == SubSeq(stack, 2, 5)
               f == <<CS, RFLAGS, RSP, SS>>
    <3>1. 2 \in Int /\ 5 \in Int /\ \A i \in 2 .. 5 : stack[i] \in Int
      <4>1. stack \in Seq(Int) /\ Len(stack) = 5
        BY <1>6, <2>2
      <4>2. ASSUME NEW i \in 2 .. 5 PROVE stack[i] \in Int
        <5>1. i \in 1 .. Len(stack)
          BY <4>1
        <5> QED
          BY <4>1, <5>1, ElementOfSeq
      <4> QED
        BY <4>2
    <3>2. /\ m \in Seq(Int) /\ Len(m) = IF 2 <= 5 THEN 5 - 2 + 1 ELSE 0
          /\ \A i \in 1 .. 5 - 2 + 1 : m[i] = stack[2 + i - 1]
      BY <3>1, SubSeqProperties
    <3>3. /\ f \in Seq(Int) /\ Len(f) = 4 /\ f[1] = CS /\ f[2] = RFLAGS /\ f[3] = RSP
          /\ f[4] = SS
      BY DEF CS, RFLAGS, RSP, SS
    <3> HIDE DEF m, f
    <3>4. Len(m) = 4 /\ \A i \in 1 .. 4 : m[i] = stack[2 + i - 1]
      BY <3>2
    <3>5. m[1] = f[1] /\ m[2] = f[2] /\ m[3] = f[3] /\ m[4] = f[4]
      BY <2>2, <3>3, <3>4
    <3>6. ASSUME NEW i \in 1 .. Len(m) PROVE m[i] = f[i]
      <4>1. i = 1 \/ i = 2 \/ i = 3 \/ i = 4
        BY <3>4
      <4> QED
        BY <3>5, <4>1
    <3>7. Len(m) = Len(f) /\ m \in Seq(Int)
      BY <3>2, <3>3, <3>4
    <3>8. m = f
      BY <3>3, <3>6, <3>7, SeqEqual
    <3> QED
      BY <3>8 DEF m, f
  <2>4. SubSeq(stack, 6, Len(stack)) = <<>>
    BY <2>2
  <2>5. Head(stack) = rip
    BY <1>6, <2>2
  <2>6. frame
    BY <2>2, <2>3
  <2> HIDE DEF frame
  <2>7. rip' = rip /\ stack' = <<>> /\ lost' = FALSE
    BY <1>1, <1>2, <2>4, <2>5, <2>6 DEF IdtInv
  <2> QED
    BY <1>2, <1>4, <1>5, <1>8, <2>7 DEF IdtInv, Running
<1>10. CASE v \notin Stubs \ ErrorCodes
  <2>1. ~frame
    <3>1. CASE v \in Stubs
      <4>1. Len(b) = 8 /\ b[4] = rip
        <5>1. BaseLooks(b, v, rip)
          BY <1>2, BaseIs DEF b
        <5> QED
          BY <1>10, <3>1, <5>1 DEF BaseLooks
      <4>2. Len(stack) = 6 /\ stack[2] = b[2 + 2]
        BY <1>6, <4>1
      <4>3. stack[2] # CS
        BY <1>2, <4>1, <4>2 DEF CS
      <4> DEFINE m == SubSeq(stack, 2, 5)
      <4>4. 2 \in Int /\ 5 \in Int /\ \A i \in 2 .. 5 : stack[i] \in Int
        <5>1. stack \in Seq(Int) /\ Len(stack) = 6
          BY <1>6, <4>2
        <5>2. ASSUME NEW i \in 2 .. 5 PROVE stack[i] \in Int
          <6>1. i \in 1 .. Len(stack)
            BY <5>1
          <6> QED
            BY <5>1, <6>1, ElementOfSeq
        <5> QED
          BY <5>2
      <4>5. \A i \in 1 .. 5 - 2 + 1 : m[i] = stack[2 + i - 1]
        BY <4>4, SubSeqProperties
      <4> HIDE DEF m
      <4>6. m[1] # CS
        BY <4>3, <4>5
      <4>7. <<CS, RFLAGS, RSP, SS>>[1] = CS
        OBVIOUS
      <4>8. m # <<CS, RFLAGS, RSP, SS>>
        BY <4>6, <4>7
      <4> QED
        BY <4>8 DEF m
    <3>2. CASE v \notin Stubs
      <4>1. Len(b) < 7 /\ Len(b) \in Nat
        <5>1. BaseLooks(b, v, rip)
          BY <1>2, BaseIs DEF b
        <5> QED
          BY <3>2, <5>1 DEF BaseLooks
      <4>2. ~(Len(stack) >= 5)
        BY <1>6, <4>1
      <4> QED
        BY <4>2
    <3> QED
      BY <3>1, <3>2
  <2> HIDE DEF frame
  <2>2. lost' = TRUE /\ rip' = rip
    BY <1>1, <2>1
  <2>3. cause' \notin Stubs \ ErrorCodes
    BY <1>7, <1>10
  <2> QED
    BY <1>2, <1>4, <1>8, <2>2, <2>3 DEF IdtInv, Running
<1> QED
  BY <1>9, <1>10

-----------------------------------------------------------------------------
(* The program's own steps.                                                  *)
(* The exception: the frame is on the stack, nothing is saved.               *)
LEMMA FaultOK ==
    ASSUME IdtInv, Fault
    PROVE  IdtInv'
<1> DEFINE v == cause
<1>1. /\ Running /\ cause # NoCause /\ todo' = Gate(v) /\ stack' = Interrupted(v, rip)
      /\ regs' = regs /\ rip' = rip /\ cause' = v /\ lost' = lost
  BY DEF Fault, Interrupted
<1>2. v \in 0 .. 31 /\ v \in Vectors /\ rip \in Nat /\ rip >= 400 /\ lost = FALSE /\ regs = ProgramRegs
  BY <1>1, IdtAssumption DEF IdtInv, Running
<1> HIDE DEF v
<1> DEFINE d == First(v)
<1>3. d \in {-2, 0} /\ Saved(d) = d
  BY DEF First, Saved
<1>4. TodoIs(Gate(v), v, d)
  <2>1. Gate(v) \in Seq(Codes) /\ Len(Gate(v)) = 35 - d
    BY <1>2, GateIs
  <2>2. d \in First(v) .. 35
    BY <1>3
  <2>3. ASSUME NEW i \in 1 .. 35 - d PROVE i = d - d + i
    BY <1>3
  <2>4. \A i \in 1 .. 35 - d : Gate(v)[i] = Gate(v)[d - First(v) + i]
    BY <2>3
  <2> QED
    BY <2>1, <2>2, <2>4 DEF TodoIs
<1>5. StackIs(Interrupted(v, rip), v, rip, d)
  <2> DEFINE b == Base(v, rip)
             q == Interrupted(v, rip)
  <2>1. b \in Seq(Int) /\ Len(b) \in Nat /\ Len(b) >= 5
    BY <1>2, BaseIs DEF BaseLooks
  <2>2. /\ q \in Seq(Int) /\ Len(q) = Len(b) + d
        /\ \A i \in 1 .. Len(q) : q[i] = b[i - d]
    <3>1. CASE v \notin Stubs
      <4>1. b = q /\ d = 0
        BY <3>1 DEF Base, First
      <4> HIDE DEF b, q
      <4>2. ASSUME NEW i \in 1 .. Len(q) PROVE q[i] = b[i - d]
        <5>1. i - d = i
          BY <4>1
        <5> QED
          BY <4>1, <5>1
      <4>3. q \in Seq(Int) /\ Len(q) = Len(b) + d
        BY <2>1, <4>1
      <4> QED
        BY <4>2, <4>3
    <3>2. CASE v \in Stubs
      <4> DEFINE s == <<v, 0>>
      <4>1. s \in Seq(Int) /\ Len(s) = 2
        BY <1>2
      <4>2. b = s \o q /\ d = -2
        BY <3>2 DEF Base, First
      <4>3. q \in Seq(Int)
        BY <1>2 DEF Interrupted, ErrorCode, CS, RFLAGS, RSP, SS
      <4> HIDE DEF b, q, s
      <4>4. s \in Seq(Int) /\ q \in Seq(Int)
        BY <4>1, <4>3
      <4>5. /\ Len(s \o q) = Len(s) + Len(q)
            /\ \A i \in 1 .. Len(q) : (s \o q)[Len(s) + i] = q[i]
        BY <4>4, FollowedBy
      <4>6. Len(b) = 2 + Len(q) /\ \A i \in 1 .. Len(q) : b[2 + i] = q[i]
        BY <4>1, <4>2, <4>5
      <4>7. ASSUME NEW i \in 1 .. Len(q) PROVE q[i] = b[i - d]
        <5>1. i - d = 2 + i
          BY <4>2
        <5> QED
          BY <4>6, <5>1
      <4>8. Len(q) = Len(b) + d
        BY <2>1, <4>2, <4>3, <4>6
      <4> QED
        BY <4>3, <4>7, <4>8
    <3> QED
      BY <3>1, <3>2
  <2> HIDE DEF b, q
  <2>3. ASSUME NEW i \in 1 .. Len(q) PROVE ~(i <= d)
    BY <1>3
  <2>4. \A i \in 1 .. Len(q) : q[i] = IF i <= d THEN RegisterWord(d + 1 - i) ELSE b[i - d]
    BY <2>2, <2>3
  <2> QED
    BY <2>2, <2>4 DEF StackIs, b, q
<1>6. RegsAre(ProgramRegs, v, rip, d)
  BY <1>3, ProgramRegsAre DEF RegsAre
<1>7. d \in -2 .. 34 /\ lost' = FALSE /\ cause' \in {v, NoCause} /\ cause' \in Vectors \cup {NoCause}
  BY <1>1, <1>2, <1>3
<1>8. TodoIs(todo', v, d) /\ RegsAre(regs', v, rip, d) /\ StackIs(stack', v, rip, Saved(d)) /\ rip' = rip
  BY <1>1, <1>2, <1>3, <1>4, <1>5, <1>6
<1> HIDE DEF d
<1> QED
  BY <1>2, <1>7, <1>8, GoesOn

(* An instruction of the program, and a handler registered.                  *)
LEMMA ExecuteOK ==
    ASSUME IdtInv, Execute
    PROVE  IdtInv'
<1>1. /\ Running /\ todo' = todo /\ regs' = regs /\ stack' = stack /\ lost' = lost
      /\ rip' = Address((rip + 1 - Address(0)) % Length) /\ cause' \in Vectors \cup {NoCause}
  BY DEF Execute
<1>2. rip' \in Nat /\ rip' >= 400
  <2>1. Length \in Nat /\ Length > 0 /\ rip + 1 - 400 \in Int
    BY IdtAssumption DEF IdtInv
  <2>2. (rip + 1 - 400) % Length \in 0 .. Length - 1
    BY <2>1
  <2>3. rip' = 400 + ((rip + 1 - (400 + 0)) % Length)
    BY <1>1 DEF Address
  <2> QED
    BY <2>1, <2>2, <2>3
<1> QED
  BY <1>1, <1>2 DEF IdtInv, Running

(* The program registers a handler.                                          *)
LEMMA IrqRegisterOK ==
    ASSUME IdtInv, NEW number \in Numbers, NEW repairs \in BOOLEAN, IrqRegister(number, repairs)
    PROVE  IdtInv'
  BY DEF IdtInv, IrqRegister, Running

(* Every step of the processor, of the entry code and of the program keeps   *)
(* the invariant: at every instruction of the gate, the stack and the registers *)
(* are the ones that place of isr_common (idt.c:78) calls for.               *)
THEOREM IdtInvariant == IdtSpec => []IdtInv
<1>1. IdtInit => IdtInv
  <2> SUFFICES ASSUME IdtInit PROVE IdtInv
    OBVIOUS
  <2>1. /\ todo = <<>> /\ regs = ProgramRegs /\ stack = <<>> /\ lost = FALSE /\ rip = 400 + 0
        /\ cause \in Vectors \cup {NoCause}
    BY DEF IdtInit, Address
  <2>2. todo = <<>> /\ ~lost => regs = ProgramRegs /\ stack = <<>>
    BY <2>1
  <2>3. rip \in Nat /\ rip >= 400
    BY <2>1
  <2>4. ~(todo # <<>>) /\ ~lost /\ lost \in BOOLEAN
    BY <2>1
  <2> QED
    BY <2>1, <2>2, <2>3, <2>4 DEF IdtInv
<1>2. IdtInv /\ [IdtNext]_idt_vars => IdtInv'
  <2> SUFFICES ASSUME IdtInv, [IdtNext]_idt_vars PROVE IdtInv'
    OBVIOUS
  <2>1. CASE Execute
    BY <2>1, ExecuteOK
  <2>2. ASSUME NEW number \in Numbers, NEW repairs \in BOOLEAN, IrqRegister(number, repairs)
        PROVE  IdtInv'
    BY <2>2, IrqRegisterOK
  <2>3. CASE Fault
    BY <2>3, FaultOK
  <2>4. CASE Instructions
    BY <2>4, PushOK, PushNumberOK, PopOK, LoadOK, DropOK, DispatchOK, IretqOK DEF Instructions
  <2>5. CASE TripleFault \/ UNCHANGED idt_vars
    <3>1. /\ todo' = todo /\ regs' = regs /\ stack' = stack /\ rip' = rip /\ cause' = cause
          /\ lost' = lost
      BY <2>5 DEF idt_vars, TripleFault
    <3>2. \A v \in 0 .. 31, d \in -2 .. 34 : Entered(v, d) => Entered(v, d)'
      BY <3>1 DEF Entered
    <3>3. (todo = <<>> /\ ~lost)' = (todo = <<>> /\ ~lost)
      BY <3>1
    <3>4. todo # <<>> /\ ~lost => \E v \in 0 .. 31, d \in -2 .. 34 : Entered(v, d)'
      BY <3>2 DEF IdtInv
    <3> QED
      BY <3>1, <3>3, <3>4 DEF IdtInv
  <2> QED
    BY <2>1, <2>2, <2>3, <2>4, <2>5 DEF IdtNext
<1> QED
  BY <1>1, <1>2, PTL DEF IdtSpec

(* Whenever the program runs, its registers hold its own words and its       *)
(* stack none of the entry code's: whatever exceptions interrupted it, and   *)
(* at whatever instruction, isr_common's pops undid the pushes.              *)
THEOREM IdtProgramUndisturbed == IdtSpec => []ProgramUndisturbed
<1>1. IdtInv => ProgramUndisturbed
  BY DEF IdtInv, ProgramUndisturbed, Running
<1> QED
  BY <1>1, IdtInvariant, PTL

(* irq_dispatcher is called with the number of the exception and an error    *)
(* code of 0 by each of the stubs, also where the processor pushed an error  *)
(* code; and the processor never loses its way by an exception that has a    *)
(* stub and no error code.                                                   *)
THEOREM IdtStackAgreed == IdtSpec => []StackAgreed
<1>1. ASSUME IdtInv PROVE StackAgreed
  <2>1. ASSUME todo # <<>>, Head(todo).op = "call", cause \in Stubs
        PROVE  regs["rdi"] = cause /\ regs["rsi"] = 0
    <3>1. ~lost
      BY <1>1, <2>1 DEF IdtInv
    <3>2. PICK v \in 0 .. 31, d \in -2 .. 34 : Entered(v, d)
      BY <1>1, <2>1, <3>1 DEF IdtInv
    <3>3. Head(todo) = CodeAt(v, d)
      BY <3>2, TopIs DEF Entered
    <3>4. d = 17
      <4>1. Tells(Head(todo), v, d)
        BY <3>3, OpAt
      <4> QED
        BY <2>1, <4>1 DEF Tells
    <3>5. cause = v
      BY <2>1, <3>2 DEF Entered, NoCause, Stubs
    <3>6. rip \in Nat /\ rip >= 400
      BY <1>1 DEF IdtInv
    <3>7. Base(v, rip)[1] = v /\ Base(v, rip)[2] = 0
      <4>1. BaseLooks(Base(v, rip), v, rip)
        BY <3>6, BaseIs
      <4> QED
        BY <2>1, <3>5, <4>1 DEF BaseLooks
    <3> QED
      BY <3>2, <3>4, <3>5, <3>7 DEF Entered, RegsAre
  <2>2. lost => cause \notin Stubs \ ErrorCodes
    BY <1>1 DEF IdtInv
  <2> QED
    BY <2>1, <2>2 DEF StackAgreed
<1> QED
  BY <1>1, IdtInvariant, PTL

(* Without a 64-bit code segment at the gates' selector, no entry code runs.  *)
GatesClosed ==
    /\ todo # <<>> \/ lost => 8 \in code64
    /\ down => cause \in Vectors /\ 8 \notin code64

(* The kernel loads no descriptor table (idt_init only lidt, idt.c:122), so  *)
(* under the one Limine leaves, with its 64-bit code segment at 40 and none  *)
(* at the 8 of the gates (idt.c:110), an exception is not handled: the       *)
(* processor never gets past the instruction, no handler of irq_register     *)
(* ever runs, and all that can happen is that the machine is reset; and it   *)
(* is reset by nothing else.                                                 *)
THEOREM IdtClosedGateResets ==
    IdtSpec => /\ [](down => cause \in Vectors /\ ~Enterable(cause))
               /\ [][~Enterable(cause) /\ cause # NoCause =>
                        UNCHANGED <<todo, regs, stack, rip, cause, handlers, lost>>]_idt_vars
<1>1. IdtInit => GatesClosed
  BY DEF IdtInit, GatesClosed
<1>2. GatesClosed /\ IdtInv /\ [IdtNext]_idt_vars => GatesClosed'
  <2> SUFFICES ASSUME GatesClosed, IdtInv, [IdtNext]_idt_vars PROVE GatesClosed'
    OBVIOUS
  <2>1. CASE Execute
    BY <2>1 DEF GatesClosed, Execute, Running, machine
  <2>2. ASSUME NEW number \in Numbers, NEW repairs \in BOOLEAN, IrqRegister(number, repairs)
        PROVE  GatesClosed'
    BY <2>2 DEF GatesClosed, IrqRegister, Running, machine
  <2>3. CASE Fault
    BY <2>3 DEF GatesClosed, Fault, Running, Enterable, Selector, machine
  <2>4. CASE TripleFault
    <3>1. cause \in Vectors /\ 8 \notin code64
      BY <2>4 DEF IdtInv, TripleFault, Enterable, Selector
    <3> QED
      BY <2>4, <3>1 DEF GatesClosed, TripleFault, Running
  <2>5. CASE Instructions
    <3>1. todo # <<>> /\ machine' = machine
      BY <2>5 DEF Instructions, DoPush, DoPushNumber, DoPop, DoLoad, DoDrop, Dispatch, Iretq, Does
    <3> QED
      BY <3>1 DEF GatesClosed, machine
  <2>6. CASE UNCHANGED idt_vars
    BY <2>6 DEF GatesClosed, idt_vars, machine
  <2> QED
    BY <2>1, <2>2, <2>3, <2>4, <2>5, <2>6 DEF IdtNext
<1>3. GatesClosed => (down => cause \in Vectors /\ ~Enterable(cause))
  BY DEF GatesClosed, Enterable, Selector
<1>4. GatesClosed /\ [IdtNext]_idt_vars =>
        [~Enterable(cause) /\ cause # NoCause =>
            UNCHANGED <<todo, regs, stack, rip, cause, handlers, lost>>]_idt_vars
  <2> SUFFICES ASSUME GatesClosed, [IdtNext]_idt_vars, ~Enterable(cause), cause # NoCause
               PROVE  UNCHANGED <<todo, regs, stack, rip, cause, handlers, lost>>
    OBVIOUS
  <2>1. todo = <<>> /\ ~Fault /\ ~Execute
    BY DEF GatesClosed, Enterable, Selector, Fault, Execute
  <2>2. ~Instructions
    BY <2>1 DEF Instructions, DoPush, DoPushNumber, DoPop, DoLoad, DoDrop, Dispatch, Iretq, Does
  <2>3. \A number, repairs : ~IrqRegister(number, repairs)
    BY DEF IrqRegister
  <2>4. CASE TripleFault
    BY <2>4 DEF TripleFault
  <2>5. CASE UNCHANGED idt_vars
    BY <2>5 DEF idt_vars
  <2> QED
    BY <2>1, <2>2, <2>3, <2>4, <2>5 DEF IdtNext
<1> QED
  BY <1>1, <1>2, <1>3, <1>4, IdtInvariant, PTL DEF IdtSpec
=============================================================================
