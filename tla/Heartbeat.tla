------------------------------ MODULE Heartbeat ------------------------------
(***************************************************************************)
(* The mtimer heartbeat and the watchdog it feeds: init_interrupts and      *)
(* rust_trap_handler (arch/trap.rs), init_heartbeat, rearm and              *)
(* heartbeat_tick (arch/time.rs), start and kick (drivers/wdt.rs).          *)
(*                                                                          *)
(* The 64-bit comparator is written as two 32-bit words (time.rs:14-15), so *)
(* a timer interrupt may fall between the words of the write that main      *)
(* makes.  A handler itself is never interrupted: _trap_entry leaves        *)
(* mstatus.MIE as the trap cleared it until mret.                           *)
(*                                                                          *)
(* External: mtime and the comparator, the watchdog's counter, the mailbox  *)
(* interrupt (taken before the timer when both are pending), and what can   *)
(* stop the core: a bus access that never returns, an access fault, a panic *)
(* of the main code.                                                        *)
(***************************************************************************)
EXTENDS Naturals

CONSTANTS
    WordSize,     \* values of one comparator word (2^32)
    Interval,     \* HEARTBEAT_INTERVAL_TICKS
    WdtTimeout,   \* ticks to the reset after the last kick
    IsrTicks,     \* longest run of handle_mailbox_irq
    Burst,        \* mailbox interrupts between two timer interrupts
    MaxTime       \* bound on mtime

ASSUME HeartbeatAssumption ==
    /\ WordSize \in Nat \ {0} /\ Interval \in Nat \ {0}
    /\ IsrTicks \in Nat /\ Burst \in Nat /\ MaxTime \in Nat
    /\ WdtTimeout \in Nat
    /\ Interval + Burst * IsrTicks < WdtTimeout

VARIABLES
    mpc,      \* what init_interrupts and init_heartbeat do next
    next,     \* rearm's local `next', in main
    mtie,     \* mie.MTIE ...
    mie,      \* ... and mstatus.MIE (with mie.MEIE)
    cmp,      \* mtimecmp, its low and high word
    hb,       \* the word at HEARTBEAT_PA
    armed,    \* history: a rearm of this boot is complete ...
    early,    \* ... and heartbeat_tick ran before any was
    mtime,    \* the clock
    wdt,      \* watchdog: enabled, and the ticks since the last kick
    isr,      \* ticks handle_mailbox_irq has been running, or NoIsr
    burst,    \* mailbox interrupts since the last timer interrupt
    core      \* "run", "wedged" or "fault"

mainVars  == <<mpc, next>>
enables   == <<mtie, mie>>
beatVars  == <<cmp, hb, armed, early>>
trapVars  == <<isr, burst>>
vars      == <<mainVars, enables, beatVars, mtime, wdt, trapVars, core>>

Words == 0..(WordSize - 1)

NoIsr == IsrTicks + 1

CmpValue == cmp.hi * WordSize + cmp.lo

\* The words of a 64-bit time.
Word(t, w) == IF w = "lo" THEN t % WordSize ELSE t \div WordSize

HighWords == 0..Word(MaxTime + Interval, "hi")

\* Mutant: the high word first.
WordOrderHighFirst == <<"hi", "lo">>

\* The order in which rearm writes them.
WordOrder == <<"lo", "hi">>

\* rdtime() + HEARTBEAT_INTERVAL_TICKS.
NextBeat == mtime + Interval

\* The timer interrupt is taken as soon as this holds and no handler runs.
TimerPending == mtie /\ mie /\ mtime >= CmpValue

\* Power-on: bss is cleared and mie is zero (_start); the ctx RAM and the
\* comparator hold anything.
Boot ==
    /\ mpc' = "mtie" /\ next' = 0 /\ mtie' = FALSE /\ mie' = FALSE
    /\ cmp' \in [lo : Words, hi : HighWords] /\ hb' \in Words
    /\ armed' = FALSE /\ early' = FALSE /\ mtime' = 0
    /\ wdt' = [on |-> FALSE, since |-> 0]
    /\ isr' = NoIsr /\ burst' = 0 /\ core' = "run"

Init ==
    /\ mpc = "mtie" /\ next = 0 /\ mtie = FALSE /\ mie = FALSE
    /\ cmp \in [lo : Words, hi : HighWords] /\ hb \in Words
    /\ armed = FALSE /\ early = FALSE /\ mtime = 0
    /\ wdt = [on |-> FALSE, since |-> 0]
    /\ isr = NoIsr /\ burst = 0 /\ core = "run"

MainStep(from, to) ==
    /\ core = "run" /\ isr = NoIsr /\ ~TimerPending
    /\ mpc = from /\ mpc' = to
    /\ UNCHANGED <<mtime, trapVars, core>>

-----------------------------------------------------------------------------
(* init_interrupts, then init_heartbeat with its rearm *)

EnableMtimer ==
    /\ MainStep("mtie", "mie")
    /\ mtie' = TRUE
    /\ UNCHANGED <<next, mie, beatVars, wdt>>

EnableMie ==
    /\ MainStep("mie", "clear")
    /\ mie' = TRUE
    /\ UNCHANGED <<next, mtie, beatVars, wdt>>

ClearWords ==
    /\ MainStep("clear", "rdtime")
    /\ hb' = 0
    /\ UNCHANGED <<next, enables, cmp, armed, early, wdt>>

ReadTime ==
    /\ MainStep("rdtime", "first")
    /\ next' = NextBeat
    /\ UNCHANGED <<enables, beatVars, wdt>>

RearmFirst ==
    /\ MainStep("first", "second")
    /\ cmp' = [cmp EXCEPT ![WordOrder[1]] = Word(next, WordOrder[1])]
    /\ UNCHANGED <<next, enables, hb, armed, early, wdt>>

RearmSecond ==
    /\ MainStep("second", "start")
    /\ cmp' = [cmp EXCEPT ![WordOrder[2]] = Word(next, WordOrder[2])]
    /\ armed' = TRUE
    /\ UNCHANGED <<next, enables, hb, early, wdt>>

\* Mutant: the watchdog gets its timeout and a kick, but is not enabled.
WdtStartNoEnable ==
    /\ MainStep("start", "done")
    /\ mtie' = TRUE
    /\ wdt' = [on |-> FALSE, since |-> 0]
    /\ UNCHANGED <<next, mie, beatVars>>

\* set_mtimer again, then the watchdog: timeout, enable, first kick.
WdtStart ==
    /\ MainStep("start", "done")
    /\ mtie' = TRUE
    /\ wdt' = [on |-> TRUE, since |-> 0]
    /\ UNCHANGED <<next, mie, beatVars>>

\* The panic handler loops with interrupts as they are: the heartbeat goes on.
Panic ==
    /\ MainStep("done", "panicked")
    /\ UNCHANGED <<next, enables, beatVars, wdt>>

-----------------------------------------------------------------------------
(* rust_trap_handler *)

\* wrapping_add(1)
Beat(n) == (n + 1) % WordSize

\* Mutant: only the mailbox handler would kick.
KickSkipped == wdt' = wdt

Kick == wdt' = [wdt EXCEPT !.since = 0]

\* MachineTimer: heartbeat_tick, in one piece.
HeartbeatTick ==
    /\ core = "run" /\ isr = NoIsr /\ TimerPending
    /\ Kick
    /\ hb' = Beat(hb)
    /\ cmp' = [lo |-> Word(NextBeat, "lo"), hi |-> Word(NextBeat, "hi")]
    /\ early' = (early \/ ~armed)
    /\ burst' = 0
    /\ UNCHANGED <<mainVars, enables, armed, mtime, isr, core>>

\* MachineExternal: claim ...
MailboxEntry ==
    /\ core = "run" /\ isr = NoIsr /\ mie
    /\ burst < Burst
    /\ isr' = 0
    /\ burst' = burst + 1
    /\ UNCHANGED <<mainVars, enables, beatVars, mtime, wdt, core>>

\* ... complete, mret.
MailboxExit ==
    /\ core = "run" /\ isr # NoIsr
    /\ isr' = NoIsr
    /\ UNCHANGED <<mainVars, enables, beatVars, mtime, wdt, burst, core>>

\* LoadFault or StoreFault, in main or in a handler: print, then wfi for ever
\* with interrupts off.
Fault ==
    /\ core = "run"
    /\ core' = "fault"
    /\ UNCHANGED <<mainVars, enables, beatVars, mtime, wdt, trapVars>>

-----------------------------------------------------------------------------
(* Hardware (external) *)

\* A bus access never returns; not even an interrupt gets through
\* (time.rs:88-91).
Wedge ==
    /\ core = "run"
    /\ core' = "wedged"
    /\ UNCHANGED <<mainVars, enables, beatVars, mtime, wdt, trapVars>>

WdtCount == wdt' = [wdt EXCEPT !.since = IF wdt.on THEN @ + 1 ELSE @]

\* A tick of the clock while the core runs.  A pending timer interrupt is taken
\* before the next tick unless the mailbox handler is running.
Tick ==
    /\ core = "run"
    /\ mtime < MaxTime /\ wdt.since < WdtTimeout
    /\ IF isr = NoIsr THEN ~TimerPending ELSE isr < IsrTicks
    /\ isr' = IF isr = NoIsr THEN NoIsr ELSE isr + 1
    /\ mtime' = mtime + 1
    /\ WdtCount
    /\ UNCHANGED <<mainVars, enables, beatVars, burst, core>>

\* A tick that a dead core does not see.
DeadTick ==
    /\ core # "run"
    /\ wdt.on /\ wdt.since < WdtTimeout
    /\ WdtCount
    /\ UNCHANGED <<mainVars, enables, beatVars, mtime, trapVars, core>>

ChipReset ==
    /\ wdt.since = WdtTimeout
    /\ Boot

Next ==
    \/ EnableMtimer \/ EnableMie \/ ClearWords \/ ReadTime
    \/ RearmFirst \/ RearmSecond \/ WdtStart \/ Panic
    \/ HeartbeatTick \/ MailboxEntry \/ MailboxExit \/ Fault
    \/ Wedge \/ Tick \/ DeadTick \/ ChipReset

Spec == Init /\ [][Next]_vars

\* Fairness: the watchdog's clock runs, whatever the core does.
FairSpec == Spec /\ WF_vars(DeadTick) /\ WF_vars(ChipReset)

-----------------------------------------------------------------------------
(* Properties *)

TypeOK ==
    /\ mpc \in {"mtie", "mie", "clear", "rdtime", "first", "second", "start",
                "done", "panicked"}
    /\ next \in 0..(MaxTime + Interval)
    /\ mtie \in BOOLEAN /\ mie \in BOOLEAN
    /\ cmp \in [lo : Words, hi : HighWords] /\ hb \in Words
    /\ armed \in BOOLEAN /\ early \in BOOLEAN
    /\ mtime \in 0..MaxTime
    /\ wdt \in [on : BOOLEAN, since : 0..WdtTimeout]
    /\ isr \in 0..NoIsr /\ burst \in 0..Burst
    /\ core \in {"run", "wedged", "fault"}

\* Once the watchdog runs, the next beat is never more than an interval away, even
\* though the comparator is written in two words and a beat may come between
\* the words that init_heartbeat writes (time.rs:78-86).
NextBeatNear == wdt.on => CmpValue <= NextBeat

\* The watchdog never resets a chip whose core still runs and takes interrupts
\* (time.rs:94-95): the beats kick it in time, however the mailbox interrupts
\* fall, and whether or not the main code has panicked.
WatchdogQuiet == core = "run" => wdt.since < WdtTimeout

\* After init_heartbeat, a core that a bus access or a fault stopped is reset
\* and runs again (wdt.rs:3-5).
DeadCoreReset ==
    (core # "run" /\ mpc \in {"done", "panicked"}) ~> (core = "run")

\* "First the comparator is set, then MTIE enabled, to avoid a storm"
\* (time.rs:65): no beat before init_heartbeat has armed the comparator.
ArmedBeforeEnabled == ~early
=============================================================================
