--------------------------- MODULE HeartbeatProofs ---------------------------
(***************************************************************************)
(* What Heartbeat keeps true for every word size, interval, watchdog        *)
(* timeout and load of mailbox interrupts that HeartbeatAssumption allows.  *)
(*                                                                          *)
(* NextBeatNear is not inductive: the comparator is written in two words    *)
(* and a beat may come in between.  RearmInv says what holds at each point  *)
(* of the write.  WatchdogQuiet rests on DeadlineInv, which relates the     *)
(* ticks since the last kick to the comparator, and the delay of a beat to  *)
(* the mailbox interrupts that came before it.                              *)
(***************************************************************************)
EXTENDS Heartbeat, Integers, TLAPS

\* rearm's `next' is not ahead of the clock by more than an interval; between the
\* two words either the low word is its own, or a beat has replaced both
\* words by a time no earlier than `next'.
RearmInv ==
    /\ mpc \in {"first", "second"} => next <= NextBeat
    /\ mpc = "second" => \/ cmp.lo = Word(next, "lo")
                         \/ next <= CmpValue /\ CmpValue <= NextBeat
    /\ mpc \in {"start", "done", "panicked"} => CmpValue <= NextBeat

\* The interrupts are enabled by the time the watchdog is, and a stopped
\* watchdog counts nothing.
EnableInv ==
    /\ mpc # "mtie" => mtie
    /\ mpc \notin {"mtie", "mie"} => mie
    /\ wdt.on => mpc \in {"done", "panicked"}
    /\ ~wdt.on => wdt.since = 0

\* The ticks of delay the mailbox interrupts since the last beat account for.
Delay == IF isr = NoIsr THEN burst * IsrTicks ELSE (burst - 1) * IsrTicks + isr

\* On a running core with the watchdog enabled, a kick was at most an interval
\* before the next beat is due, and a beat that is overdue has been delayed
\* by mailbox interrupts only.
DeadlineInv ==
    /\ isr # NoIsr => burst > 0
    /\ core = "run" /\ wdt.on =>
          /\ wdt.since + CmpValue <= mtime + Interval
          /\ mtime <= CmpValue + Delay

BeatInv == RearmInv /\ EnableInv /\ DeadlineInv
-----------------------------------------------------------------------------
(* Words of a time *)

\* The high and the low word are a time's quotient and remainder (time.rs:80-82).
LEMMA WordsOfTime ==
    ASSUME NEW t \in Nat
    PROVE  /\ Word(t, "hi") \in Nat /\ Word(t, "lo") \in Words
           /\ t = Word(t, "hi") * WordSize + Word(t, "lo")
  BY HeartbeatAssumption DEF Word, Words

\* A time no later than that of the two words hi and lo has a high word no larger.
LEMMA HighWordMonotone ==
    ASSUME NEW t \in Nat, NEW hi \in Nat, NEW lo \in Words,
           t <= hi * WordSize + lo
    PROVE  Word(t, "hi") <= hi
<1>1. /\ WordSize \in Nat \ {0} /\ Word(t, "hi") \in Nat /\ Word(t, "lo") \in Words
      /\ t = Word(t, "hi") * WordSize + Word(t, "lo")
  BY WordsOfTime, HeartbeatAssumption
<1>2. ASSUME Word(t, "hi") >= hi + 1 PROVE FALSE
  <2>1. Word(t, "hi") * WordSize >= (hi + 1) * WordSize
    BY <1>1, <1>2
  <2>2. QED
    BY <1>1, <2>1 DEF Words
<1>3. QED
  BY <1>1, <1>2

\* The words of a time the clock can reach, plus an interval, fit the comparator.
LEMMA WordsFit ==
    ASSUME NEW t \in 0..(MaxTime + Interval)
    PROVE  Word(t, "lo") \in Words /\ Word(t, "hi") \in HighWords
<1>1. MaxTime + Interval \in Nat /\ t \in Nat /\ t <= MaxTime + Interval
  BY HeartbeatAssumption
<1>2. Word(t, "hi") <= Word(MaxTime + Interval, "hi")
  BY <1>1, WordsOfTime, HighWordMonotone
<1>3. QED
  BY <1>1, <1>2, WordsOfTime DEF HighWords

-----------------------------------------------------------------------------
(* Types *)

LEMMA TypesKept ==
    ASSUME TypeOK, [Next]_vars
    PROVE  TypeOK'
<1> USE DEF MainStep, mainVars, enables, beatVars, trapVars
<1>0. /\ MaxTime \in Nat /\ Interval \in Nat \ {0} /\ WdtTimeout \in Nat \ {0}
      /\ IsrTicks \in Nat /\ Burst \in Nat /\ WordSize \in Nat \ {0}
      /\ mtime \in Nat /\ NextBeat \in 0..(MaxTime + Interval)
      /\ NoIsr \in Nat /\ Words \subseteq Nat
  BY HeartbeatAssumption DEF TypeOK, NextBeat, NoIsr, Words
<1>1. CASE EnableMtimer \/ EnableMie \/ Panic
  BY <1>1 DEF TypeOK, EnableMtimer, EnableMie, Panic
<1>2. CASE ClearWords
  BY <1>0, <1>2 DEF TypeOK, ClearWords, Words
<1>3. CASE ReadTime
  BY <1>0, <1>3 DEF TypeOK, ReadTime
<1>4. CASE RearmFirst \/ RearmSecond
  <2>1. Word(next, "lo") \in Words /\ Word(next, "hi") \in HighWords
    BY WordsFit DEF TypeOK
  <2>2. cmp' \in [lo : Words, hi : HighWords]
    BY <1>4, <2>1 DEF TypeOK, RearmFirst, RearmSecond, WordOrder
  <2>3. QED
    BY <1>4, <2>2 DEF TypeOK, RearmFirst, RearmSecond
<1>5. CASE WdtStart
  BY <1>0, <1>5 DEF TypeOK, WdtStart
<1>6. CASE HeartbeatTick
  <2>1. Word(NextBeat, "lo") \in Words /\ Word(NextBeat, "hi") \in HighWords
    BY <1>0, WordsFit
  <2>2. Beat(hb) \in Words
    BY <1>0 DEF TypeOK, Beat, Words
  <2>3. QED
    BY <1>0, <1>6, <2>1, <2>2 DEF TypeOK, HeartbeatTick, Kick
<1>7. CASE MailboxEntry \/ MailboxExit
  BY <1>0, <1>7 DEF TypeOK, MailboxEntry, MailboxExit
<1>8. CASE Fault \/ Wedge
  BY <1>8 DEF TypeOK, Fault, Wedge
<1>9. CASE Tick
  BY <1>0, <1>9 DEF TypeOK, Tick, WdtCount, NoIsr
<1>10. CASE DeadTick
  BY <1>0, <1>10 DEF TypeOK, DeadTick, WdtCount
<1>11. CASE ChipReset
  <2>1. [on |-> FALSE, since |-> 0] \in [on : BOOLEAN, since : 0..WdtTimeout]
    BY <1>0
  <2>2. 0 \in 0..(MaxTime + Interval) /\ 0 \in 0..MaxTime /\ 0 \in 0..Burst /\ NoIsr \in 0..NoIsr
    BY <1>0
  <2>3. QED
    BY <2>1, <2>2, <1>11, Zenon DEF TypeOK, ChipReset, Boot
<1>12. CASE UNCHANGED vars
  BY <1>12 DEF TypeOK, vars
<1>13. QED
  BY <1>1, <1>2, <1>3, <1>4, <1>5, <1>6, <1>7, <1>8, <1>9, <1>10, <1>11, <1>12 DEF Next

\* The words of the comparator, the clock, the watchdog's count and the handlers'
\* bookkeeping stay within their types over every boot.
THEOREM TypeCorrect == Spec => []TypeOK
<1>1. Init => TypeOK
  <2>1. /\ MaxTime \in Nat /\ Interval \in Nat \ {0} /\ WdtTimeout \in Nat
        /\ IsrTicks \in Nat /\ Burst \in Nat /\ NoIsr \in 0..NoIsr
        /\ 0 \in 0..(MaxTime + Interval) /\ 0 \in 0..MaxTime /\ 0 \in 0..Burst
    BY HeartbeatAssumption DEF NoIsr
  <2>2. [on |-> FALSE, since |-> 0] \in [on : BOOLEAN, since : 0..WdtTimeout]
    BY <2>1
  <2>3. QED
    BY <2>1, <2>2, Zenon DEF Init, TypeOK
<1>2. QED
  BY <1>1, TypesKept, PTL DEF Spec

-----------------------------------------------------------------------------
(* The comparator *)

\* Steps of the main code that leave the clock and the comparator alone.
LEMMA BeatInvKept ==
    ASSUME TypeOK, BeatInv, [Next]_vars
    PROVE  BeatInv'
<1> USE DEF BeatInv, mainVars, enables, beatVars, trapVars
<1>0. /\ MaxTime \in Nat /\ Interval \in Nat \ {0} /\ WdtTimeout \in Nat \ {0}
      /\ IsrTicks \in Nat /\ Burst \in Nat /\ WordSize \in Nat \ {0}
      /\ mtime \in Nat /\ next \in Nat /\ burst \in Nat /\ isr \in Nat
      /\ cmp.lo \in Words /\ cmp.lo \in Nat /\ cmp.hi \in Nat /\ CmpValue \in Nat
      /\ wdt.since \in Nat /\ wdt.on \in BOOLEAN
      /\ burst * IsrTicks \in Nat
  <2>1. /\ MaxTime \in Nat /\ Interval \in Nat \ {0} /\ WdtTimeout \in Nat \ {0}
        /\ IsrTicks \in Nat /\ Burst \in Nat /\ WordSize \in Nat \ {0}
    BY HeartbeatAssumption
  <2>2. (\A w \in Words : w \in Nat) /\ (\A w \in HighWords : w \in Nat)
    BY <2>1 DEF Words, HighWords
  <2>3. /\ mtime \in Nat /\ next \in Nat /\ burst \in Nat /\ isr \in Nat
        /\ cmp.lo \in Words /\ cmp.lo \in Nat /\ cmp.hi \in Nat
        /\ wdt.since \in Nat /\ wdt.on \in BOOLEAN
    <3>1. mtime \in Nat /\ next \in Nat /\ burst \in Nat /\ isr \in Nat
      BY <2>1 DEF TypeOK, NoIsr
    <3>2. cmp.lo \in Words /\ cmp.hi \in HighWords
      BY DEF TypeOK
    <3>3. wdt.since \in 0..WdtTimeout /\ wdt.on \in BOOLEAN
      BY DEF TypeOK
    <3>4. QED
      BY <2>1, <2>2, <3>1, <3>2, <3>3
  <2>4. QED
    BY <2>1, <2>3 DEF CmpValue
<1>1. CASE EnableMtimer \/ EnableMie \/ ClearWords \/ Panic
  <2>1. UNCHANGED <<next, cmp, mtime, wdt, isr, burst, core>>
    BY <1>1 DEF EnableMtimer, EnableMie, ClearWords, Panic, MainStep
  <2>2. RearmInv' /\ EnableInv'
    BY <1>1, <2>1 DEF RearmInv, EnableInv, CmpValue, NextBeat, EnableMtimer, EnableMie,
                      ClearWords, Panic, MainStep
  <2>3. DeadlineInv'
    BY <2>1 DEF DeadlineInv, CmpValue, Delay
  <2>4. QED
    BY <2>2, <2>3
<1>2. CASE ReadTime
  BY <1>0, <1>2 DEF ReadTime, MainStep, RearmInv, EnableInv, DeadlineInv, CmpValue, Delay, NextBeat
<1>3. CASE RearmFirst
  <2>1. /\ mpc = "first" /\ mpc' = "second" /\ ~wdt.on
        /\ UNCHANGED <<next, mtie, mie, mtime, wdt, isr, burst, core>>
    BY <1>3 DEF RearmFirst, MainStep, EnableInv
  <2>2. cmp'.lo = Word(next, "lo")
    BY <1>3 DEF RearmFirst, WordOrder, TypeOK
  <2>3. QED
    BY <2>1, <2>2 DEF RearmInv, EnableInv, DeadlineInv, NextBeat
<1>4. CASE RearmSecond
  <2>1. /\ mpc = "second" /\ mpc' = "start" /\ ~wdt.on
        /\ UNCHANGED <<next, mtie, mie, mtime, wdt, isr, burst, core>>
    BY <1>4 DEF RearmSecond, MainStep, EnableInv
  <2>2. cmp'.lo = cmp.lo /\ cmp'.hi = Word(next, "hi")
    BY <1>4 DEF RearmSecond, WordOrder, TypeOK
  <2>3. /\ Word(next, "hi") \in Nat /\ Word(next, "lo") \in Words
        /\ next = Word(next, "hi") * WordSize + Word(next, "lo")
    BY <1>0, WordsOfTime
  <2>4. CmpValue' <= NextBeat
    <3>1. CASE cmp.lo = Word(next, "lo")
      <4>1. CmpValue' = next
        BY <2>2, <2>3, <3>1 DEF CmpValue
      <4>2. QED
        BY <2>1, <4>1 DEF RearmInv
    <3>2. CASE next <= CmpValue /\ CmpValue <= NextBeat
      <4>1. Word(next, "hi") <= cmp.hi
        BY <1>0, <3>2, HighWordMonotone DEF CmpValue
      <4>2. Word(next, "hi") * WordSize <= cmp.hi * WordSize
        BY <1>0, <2>3, <4>1
      <4>3. CmpValue' <= CmpValue
        BY <1>0, <2>2, <2>3, <4>2 DEF CmpValue
      <4>4. CmpValue' \in Nat /\ NextBeat \in Nat
        BY <1>0, <2>2, <2>3 DEF CmpValue, NextBeat
      <4>5. QED
        BY <1>0, <3>2, <4>3, <4>4
    <3>3. QED
      BY <2>1, <3>1, <3>2 DEF RearmInv
  <2>5. QED
    BY <2>1, <2>4 DEF RearmInv, EnableInv, DeadlineInv, NextBeat
<1>5. CASE WdtStart
  <2>1. /\ mpc = "start" /\ mpc' = "done" /\ mie /\ mie' /\ mtie' /\ wdt'.on /\ wdt'.since = 0
        /\ isr = NoIsr /\ ~TimerPending
        /\ UNCHANGED <<next, cmp, mtime, isr, burst, core>>
    BY <1>5 DEF WdtStart, MainStep, EnableInv
  <2>2. mtime < CmpValue /\ CmpValue <= mtime + Interval
    BY <1>0, <2>1 DEF TimerPending, EnableInv, RearmInv, NextBeat
  <2>3. mtime <= CmpValue + Delay
    BY <1>0, <2>1, <2>2 DEF Delay
  <2>4. CmpValue' = CmpValue /\ Delay' = Delay /\ NextBeat' = NextBeat
    BY <2>1 DEF CmpValue, Delay, NextBeat
  <2>5. QED
    BY <1>0, <2>1, <2>2, <2>3, <2>4 DEF RearmInv, EnableInv, DeadlineInv, NextBeat
<1>6. CASE HeartbeatTick
  <2>1. /\ UNCHANGED <<mpc, next, mtie, mie, mtime, isr, core>> /\ isr = NoIsr /\ burst' = 0
        /\ wdt'.on = wdt.on /\ wdt'.since = 0
        /\ cmp'.lo = Word(NextBeat, "lo") /\ cmp'.hi = Word(NextBeat, "hi")
    BY <1>6 DEF HeartbeatTick, Kick, TypeOK
  <2>2. NextBeat \in Nat /\ CmpValue' = NextBeat /\ NextBeat' = NextBeat
    BY <1>0, <2>1, WordsOfTime DEF CmpValue, NextBeat
  <2>3. RearmInv'
    BY <1>0, <2>1, <2>2 DEF RearmInv
  <2>4. DeadlineInv'
    <3>1. Delay' = 0
      BY <1>0, <2>1 DEF Delay
    <3>2. QED
      BY <1>0, <2>1, <2>2, <3>1 DEF DeadlineInv, NextBeat
  <2>5. QED
    BY <2>1, <2>3, <2>4 DEF EnableInv
<1>7. CASE MailboxEntry \/ MailboxExit
  <2>1. UNCHANGED <<mpc, next, mtie, mie, cmp, mtime, wdt, core>>
    BY <1>7 DEF MailboxEntry, MailboxExit
  <2>2. burst' \in Nat /\ (isr' # NoIsr => burst' > 0) /\ Delay <= Delay' /\ Delay' \in Nat /\ Delay \in Int
    <3>1. CASE MailboxEntry
      <4>1. isr = NoIsr /\ isr' = 0 /\ burst' = burst + 1 /\ NoIsr # 0
        BY <1>0, <3>1 DEF MailboxEntry, NoIsr
      <4>2. QED
        BY <1>0, <4>1 DEF Delay, NoIsr
    <3>2. CASE MailboxExit
      <4>1. isr # NoIsr /\ isr' = NoIsr /\ burst' = burst /\ burst > 0 /\ isr <= IsrTicks
        BY <1>0, <3>2 DEF MailboxExit, DeadlineInv, TypeOK, NoIsr
      <4>2. burst * IsrTicks = (burst - 1) * IsrTicks + IsrTicks
        BY <1>0, <4>1
      <4>3. QED
        BY <1>0, <4>1, <4>2 DEF Delay, NoIsr
    <3>3. QED
      BY <1>7, <3>1, <3>2
  <2>3. RearmInv' /\ EnableInv'
    BY <2>1 DEF RearmInv, EnableInv, CmpValue, NextBeat
  <2>4. CmpValue' = CmpValue
    BY <2>1 DEF CmpValue
  <2>5. DeadlineInv'
    <3>1. CmpValue' \in Nat /\ mtime' \in Nat /\ wdt' = wdt /\ NoIsr' = NoIsr
      BY <1>0, <2>1, <2>4 DEF NoIsr
    <3>2. ASSUME core' = "run", wdt'.on
          PROVE  wdt'.since + CmpValue' <= mtime' + Interval /\ mtime' <= CmpValue' + Delay'
      <4>1. core = "run" /\ wdt.on
        BY <2>1, <3>2
      <4>2. wdt.since + CmpValue <= mtime + Interval /\ mtime <= CmpValue + Delay
        BY <4>1 DEF DeadlineInv
      <4>3. mtime <= CmpValue + Delay'
        <5>1. /\ mtime \in Int /\ CmpValue \in Int /\ Delay \in Int /\ Delay' \in Int
              /\ Delay <= Delay'
          BY <1>0, <2>2
        <5>2. \A m, c, d, e \in Int : m <= c + d /\ d <= e => m <= c + e
          OBVIOUS
        <5>3. QED
          BY <4>2, <5>1, <5>2
      <4>4. QED
        BY <2>1, <2>4, <4>2, <4>3
    <3>3. QED
      BY <2>2, <3>1, <3>2 DEF DeadlineInv
  <2>6. QED
    BY <2>3, <2>5
<1>8. CASE Fault \/ Wedge
  BY <1>8 DEF Fault, Wedge, RearmInv, EnableInv, DeadlineInv, CmpValue, NextBeat
<1>9. CASE Tick
  <2>1. /\ UNCHANGED <<mpc, next, mtie, mie, cmp, burst, core>> /\ mtime' = mtime + 1
        /\ wdt'.on = wdt.on
        /\ wdt'.since = IF wdt.on THEN wdt.since + 1 ELSE wdt.since
        /\ isr' = IF isr = NoIsr THEN NoIsr ELSE isr + 1
    BY <1>9 DEF Tick, WdtCount, TypeOK
  <2>2. CmpValue' = CmpValue /\ NextBeat' = NextBeat + 1 /\ NextBeat \in Nat
    BY <1>0, <2>1 DEF CmpValue, NextBeat
  <2>3. RearmInv' /\ EnableInv'
    BY <1>0, <2>1, <2>2 DEF RearmInv, EnableInv
  <2>4. isr' # NoIsr' => burst' > 0
    BY <2>1 DEF DeadlineInv, NoIsr
  <2>5. ASSUME core = "run", wdt.on PROVE mtime + 1 <= CmpValue + Delay'
    <3>1. CASE isr = NoIsr
      <4>1. mtime < CmpValue
        BY <1>0, <1>9, <2>5, <3>1 DEF Tick, TimerPending, EnableInv
      <4>2. Delay' = burst * IsrTicks
        BY <2>1, <3>1 DEF Delay, NoIsr
      <4>3. QED
        BY <1>0, <4>1, <4>2
    <3>2. CASE isr # NoIsr
      <4>1. isr < IsrTicks /\ isr' = isr + 1 /\ isr' # NoIsr
        BY <1>0, <1>9, <2>1, <3>2 DEF Tick, NoIsr
      <4>2. /\ Delay' = (burst - 1) * IsrTicks + (isr + 1)
            /\ Delay = (burst - 1) * IsrTicks + isr
        BY <2>1, <3>2, <4>1 DEF Delay, NoIsr
      <4>3. (burst - 1) * IsrTicks \in Int
        BY <1>0
      <4>4. QED
        BY <1>0, <2>5, <4>2, <4>3 DEF DeadlineInv
    <3>3. QED
      BY <3>1, <3>2
  <2>6. QED
    BY <1>0, <2>1, <2>2, <2>3, <2>4, <2>5 DEF DeadlineInv
<1>10. CASE DeadTick
  <2>1. /\ UNCHANGED <<mpc, next, mtie, mie, cmp, mtime, isr, burst, core>> /\ core # "run"
        /\ wdt'.on = wdt.on /\ wdt.on
    BY <1>10 DEF DeadTick, WdtCount, TypeOK
  <2>2. QED
    BY <2>1 DEF RearmInv, EnableInv, DeadlineInv, CmpValue, NextBeat
<1>11. CASE ChipReset
  BY <1>11 DEF ChipReset, Boot, RearmInv, EnableInv, DeadlineInv, NoIsr
<1>12. CASE UNCHANGED vars
  BY <1>12 DEF vars, RearmInv, EnableInv, DeadlineInv, CmpValue, NextBeat, Delay, NoIsr
<1>13. QED
  BY <1>1, <1>2, <1>3, <1>4, <1>5, <1>6, <1>7, <1>8, <1>9, <1>10, <1>11, <1>12 DEF Next

LEMMA BeatInvariant == Spec => [](TypeOK /\ BeatInv)
<1>1. Init => BeatInv
  BY DEF Init, BeatInv, RearmInv, EnableInv, DeadlineInv
<1>2. QED
  BY <1>1, TypeCorrect, BeatInvKept, PTL DEF Spec

-----------------------------------------------------------------------------
(* The results *)

\* With the watchdog on, the next beat is at most an interval away, although a beat
\* may fall between the two words that rearm writes (time.rs:78-86).
THEOREM BeatsStayNear == Spec => []NextBeatNear
<1>1. BeatInv => NextBeatNear
  BY DEF BeatInv, RearmInv, EnableInv, NextBeatNear
<1>2. QED
  BY <1>1, BeatInvariant, PTL

\* A core that runs and takes interrupts kicks the watchdog in time, whenever an
\* interval and the longest burst of mailbox interrupts together are shorter
\* than the timeout (time.rs:94-95).
THEOREM KicksInTime == Spec => []WatchdogQuiet
<1>1. TypeOK /\ BeatInv => WatchdogQuiet
  <2>1. SUFFICES ASSUME TypeOK, BeatInv, core = "run" PROVE wdt.since < WdtTimeout
    BY DEF WatchdogQuiet
  <2>2. /\ Interval \in Nat \ {0} /\ WdtTimeout \in Nat /\ IsrTicks \in Nat /\ Burst \in Nat
        /\ Interval + Burst * IsrTicks < WdtTimeout /\ Burst * IsrTicks \in Nat
    BY HeartbeatAssumption
  <2>3. CASE ~wdt.on
    BY <2>1, <2>2, <2>3 DEF BeatInv, EnableInv
  <2>4. CASE wdt.on
    <3>1. Delay \in Int /\ Delay <= Burst * IsrTicks
      <4>1. burst \in Nat /\ burst <= Burst /\ isr \in Nat /\ (isr # NoIsr => isr <= IsrTicks /\ burst > 0)
        BY <2>1, <2>2 DEF TypeOK, BeatInv, DeadlineInv, NoIsr
      <4>2. burst * IsrTicks <= Burst * IsrTicks /\ burst * IsrTicks \in Nat
        BY <2>2, <4>1
      <4>3. (burst - 1) * IsrTicks + IsrTicks = burst * IsrTicks /\ (burst - 1) * IsrTicks \in Int
        BY <2>2, <4>1
      <4>4. QED
        BY <2>2, <4>1, <4>2, <4>3 DEF Delay
    <3>2. CmpValue \in Nat /\ mtime \in Nat /\ wdt.since \in Nat
      <4>1. WordSize \in Nat /\ MaxTime \in Nat 
            /\ (\A w \in Words : w \in Nat) /\ (\A w \in HighWords : w \in Nat)
        BY HeartbeatAssumption DEF Words, HighWords
      <4>2. /\ mtime \in Nat /\ wdt.since \in Nat
            /\ cmp.lo \in Nat /\ cmp.hi \in Nat
        <5>1. /\ mtime \in 0..MaxTime /\ wdt.since \in 0..WdtTimeout
              /\ cmp.lo \in Words /\ cmp.hi \in HighWords
          BY <2>1 DEF TypeOK
        <5>2. QED
          BY <2>2, <4>1, <5>1
      <4>3. QED
        BY <4>1, <4>2 DEF CmpValue
    <3>3. wdt.since + CmpValue <= mtime + Interval /\ mtime <= CmpValue + Delay
      BY <2>1, <2>4 DEF BeatInv, DeadlineInv
    <3>4. QED
      BY <2>2, <3>1, <3>2, <3>3
  <2>5. QED
    BY <2>3, <2>4
<1>2. QED
  BY <1>1, BeatInvariant, PTL
=============================================================================
