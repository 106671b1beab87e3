------------------------------ MODULE LineLock ------------------------------
(***************************************************************************)
(* The cross-core UART line lock of src/src/logger.rs.                      *)
(*                                                                          *)
(* Two cores share UART0.  A line is printed under a Dekker lock made of    *)
(* plain loads and stores on three words of the mailbox controller: one     *)
(* flag per core (slot 2) and a turn word (slot 3).  On the small core the  *)
(* main loop, the mailbox ISR and the access-fault handler all use the same *)
(* flag; LOCK_HELD is what keeps the ISR away from a lock the interrupted   *)
(* main loop holds.  The big core runs the same wait loop (the comment at   *)
(* logger.rs:66 demands it), so its actor is an instance of the same        *)
(* actions.                                                                 *)
(*                                                                          *)
(* One step is one access to a shared word.  An actor of the small core is  *)
(* suspended while a handler that interrupted it is running.                *)
(***************************************************************************)
EXTENDS Naturals

CONSTANTS
    LOCK_SPIN_LIMIT, \* spins before the lock is entered by force
    TrapSets,        \* the sets of handlers that may interrupt in a behaviour
    Turns            \* values the turn word may hold at power-on

ASSUME LineLockAssumption ==
    /\ LOCK_SPIN_LIMIT \in Nat
    /\ TrapSets \subseteq SUBSET {"echo", "overflow", "fault"}
    /\ {0, 1} \subseteq Turns

VARIABLES
    flag,     \* flag[c]: the flag word of core c (0 = big, 1 = small)
    turn,     \* the turn word
    held,     \* held[c]: LOCK_HELD of core c
    pc,       \* pc[a]: what actor a does next
    spins,    \* spins[a]: the local counter of line_lock_wait
    forced,   \* forced[a]: a entered its critical section by force
    muted,    \* MUTED of the small core
    traps     \* the handlers that may interrupt the small core in this behaviour

vars == <<flag, turn, held, pc, spins, forced, muted, traps>>

Actors == {"big", "main", "isr", "fault"}

Core(a) == IF a = "big" THEN 0 ELSE 1

Other(a) == 1 - Core(a)

\* The program counters of line_lock_wait, line_lock_try and line_unlock.
Locs == {"idle", "test", "turn", "lower", "yield", "reraise", "take", "cs",
         "unlock_turn", "unlock_flag", "try_read", "try_lower", "raw", "halted"}

\* An interrupted actor waits for the handler on top of it to return.
MayRun(a) ==
    /\ a \in {"main", "isr"} => pc["fault"] = "idle"
    /\ a = "main" => pc["isr"] = "idle"

\* Actor a performs its step at location l.
At(a, l) == pc[a] = l /\ MayRun(a)

Goto(a, l) == pc' = [pc EXCEPT ![a] = l]

SetFlag(a, v) == flag' = [flag EXCEPT ![Core(a)] = v]

(***************************************************************************)
(* The mailbox context words hold garbage after power-on: no initial value  *)
(* of the flags or of turn is assumed.                                      *)
(***************************************************************************)
Init ==
    /\ flag \in [{0, 1} -> {0, 1}]
    /\ turn \in Turns
    /\ held = [c \in {0, 1} |-> FALSE]
    /\ pc = [a \in Actors |-> "idle"]
    /\ spins = [a \in Actors |-> 0]
    /\ forced = [a \in Actors |-> FALSE]
    /\ muted = FALSE
    /\ traps \in TrapSets

-----------------------------------------------------------------------------
(* line_lock_wait: raise the flag, yield while the other core has the turn, *)
(* give up yielding after LOCK_SPIN_LIMIT spins.                            *)

WaitRaise(a) ==
    /\ At(a, "idle")
    /\ SetFlag(a, 1)
    /\ spins' = [spins EXCEPT ![a] = 0]
    /\ forced' = [forced EXCEPT ![a] = FALSE]
    /\ Goto(a, "test")
    /\ UNCHANGED <<turn, held, muted, traps>>

WaitTest(a) ==
    /\ At(a, "test")
    /\ Goto(a, IF flag[Other(a)] = 1 THEN "turn" ELSE "take")
    /\ UNCHANGED <<flag, turn, held, spins, forced, muted, traps>>

\* Mutant: the outer loop forgets to count its own iterations.
CountSpinInnerOnly(a) ==
    /\ forced' = [forced EXCEPT ![a] = spins[a] > LOCK_SPIN_LIMIT]
    /\ Goto(a, IF spins[a] > LOCK_SPIN_LIMIT THEN "take" ELSE "test")
    /\ UNCHANGED spins

\* End of one iteration: count it, and force the entry past the limit.
CountSpin(a) ==
    /\ spins' = [spins EXCEPT ![a] = @ + 1]
    /\ forced' = [forced EXCEPT ![a] = spins[a] + 1 > LOCK_SPIN_LIMIT]
    /\ Goto(a, IF spins[a] + 1 > LOCK_SPIN_LIMIT THEN "take" ELSE "test")

WaitTurn(a) ==
    /\ At(a, "turn")
    /\ IF turn = Core(a)
         THEN CountSpin(a)
         ELSE Goto(a, "lower") /\ UNCHANGED <<spins, forced>>
    /\ UNCHANGED <<flag, turn, held, muted, traps>>

WaitLower(a) ==
    /\ At(a, "lower")
    /\ SetFlag(a, 0)
    /\ Goto(a, "yield")
    /\ UNCHANGED <<turn, held, spins, forced, muted, traps>>

WaitYield(a) ==
    /\ At(a, "yield")
    /\ IF turn # Core(a) /\ spins[a] < LOCK_SPIN_LIMIT
         THEN spins' = [spins EXCEPT ![a] = @ + 1] /\ UNCHANGED pc
         ELSE Goto(a, "reraise") /\ UNCHANGED spins
    /\ UNCHANGED <<flag, turn, held, forced, muted, traps>>

\* Mutant: the flag stays down when the yielding core retries.
WaitRetryFlagDown(a) ==
    /\ At(a, "reraise")
    /\ CountSpin(a)
    /\ UNCHANGED <<flag, turn, held, muted, traps>>

WaitReraise(a) ==
    /\ At(a, "reraise")
    /\ SetFlag(a, 1)
    /\ CountSpin(a)
    /\ UNCHANGED <<turn, held, muted, traps>>

\* LOCK_HELD is set only after the loop: both entry paths end here.
Take(a) ==
    /\ At(a, "take")
    /\ held' = [held EXCEPT ![Core(a)] = TRUE]
    /\ Goto(a, "cs")
    /\ UNCHANGED <<flag, turn, spins, forced, muted, traps>>

-----------------------------------------------------------------------------
(* line_unlock, entered when the line has been sent. *)

Unlock(a) ==
    /\ At(a, "cs")
    /\ held' = [held EXCEPT ![Core(a)] = FALSE]
    /\ Goto(a, "unlock_turn")
    /\ UNCHANGED <<flag, turn, spins, forced, muted, traps>>

UnlockTurn(a) ==
    /\ At(a, "unlock_turn")
    /\ turn' = Other(a)
    /\ Goto(a, "unlock_flag")
    /\ UNCHANGED <<flag, held, spins, forced, muted, traps>>

\* The fault handler never returns; every other caller does.
AfterPrint(a) == IF a = "fault" THEN "halted" ELSE "idle"

UnlockFlag(a) ==
    /\ At(a, "unlock_flag")
    /\ SetFlag(a, 0)
    /\ Goto(a, AfterPrint(a))
    /\ UNCHANGED <<turn, held, spins, forced, muted, traps>>

-----------------------------------------------------------------------------
(* line_lock_try, used by the mailbox ISR and the fault handler. *)

\* Without the lock an echo is dropped; the fault handler prints all the same.
GiveUp(a) == IF a = "fault" THEN "raw" ELSE "idle"

\* Mutant: the handler does not look at LOCK_HELD.
TryRaiseIgnoresHeld(a) ==
    /\ At(a, "idle")
    /\ Goto(a, "try_read") /\ SetFlag(a, 1)
    /\ forced' = [forced EXCEPT ![a] = FALSE]
    /\ UNCHANGED <<turn, held, spins, muted, traps>>

TryRaise(a) ==
    /\ At(a, "idle")
    /\ IF held[Core(a)]
         THEN Goto(a, GiveUp(a)) /\ UNCHANGED flag
         ELSE Goto(a, "try_read") /\ SetFlag(a, 1)
    /\ forced' = [forced EXCEPT ![a] = FALSE]
    /\ UNCHANGED <<turn, held, spins, muted, traps>>

TryRead(a) ==
    /\ At(a, "try_read")
    /\ Goto(a, IF flag[Other(a)] = 1 THEN "try_lower" ELSE "take")
    /\ UNCHANGED <<flag, turn, held, spins, forced, muted, traps>>

TryLower(a) ==
    /\ At(a, "try_lower")
    /\ SetFlag(a, 0)
    /\ Goto(a, GiveUp(a))
    /\ UNCHANGED <<turn, held, spins, forced, muted, traps>>

-----------------------------------------------------------------------------
(* Who enters the lock, and how. *)

\* print and print_fmt of the main loop: nothing at all while muted.
MainPrint == ~muted /\ WaitRaise("main")

BigPrint == WaitRaise("big")

\* handle_mailbox_irq echoes an ordinary message with the try lock ...
IsrEcho == "echo" \in traps /\ ~muted /\ TryRaise("isr")

\* ... but reports a drain overflow with print, that is with the wait lock.
IsrDrainOverflow == "overflow" \in traps /\ ~muted /\ WaitRaise("isr")

\* A 0x57 control message switches the small core's output off or on.
IsrSetMuted ==
    /\ "echo" \in traps
    /\ At("isr", "idle")
    /\ muted' = ~muted
    /\ UNCHANGED <<flag, turn, held, pc, spins, forced, traps>>

\* A load or store fault prints whether or not it got the lock: "garbled output can be
\* borne, a lost fault cannot" (trap.rs:72).
FaultTrap == "fault" \in traps /\ TryRaise("fault")

FaultRaw ==
    /\ At("fault", "raw")
    /\ Goto("fault", "halted")
    /\ UNCHANGED <<flag, turn, held, spins, forced, muted, traps>>

WaitStep(a) ==
    \/ WaitTest(a) \/ WaitTurn(a) \/ WaitLower(a)
    \/ WaitYield(a) \/ WaitReraise(a)

LockStep(a) ==
    \/ Take(a) \/ Unlock(a) \/ UnlockTurn(a) \/ UnlockFlag(a)

TryStep(a) == TryRead(a) \/ TryLower(a)

BigStep == WaitStep("big") \/ LockStep("big")

MainStep == WaitStep("main") \/ LockStep("main")

HandlerStep ==
    \/ WaitStep("isr") \/ FaultRaw
    \/ \E a \in {"isr", "fault"} : TryStep(a) \/ LockStep(a)

Next ==
    \/ MainPrint \/ BigPrint
    \/ IsrEcho \/ IsrDrainOverflow \/ IsrSetMuted \/ FaultTrap
    \/ BigStep \/ MainStep \/ HandlerStep

Spec == Init /\ [][Next]_vars

(***************************************************************************)
(* Fairness: the small core keeps executing.  A handler that has started    *)
(* runs on; the main loop is interrupted again and again but mailbox        *)
(* messages arrive seconds apart, so its next step, enabled whenever no     *)
(* handler runs, is eventually taken.  Nothing is assumed of the big core:  *)
(* it may stop for good while its flag is up.                               *)
(***************************************************************************)
FairSpec == Spec /\ WF_vars(HandlerStep) /\ SF_vars(MainStep)

-----------------------------------------------------------------------------
(* Properties *)

TypeOK ==
    /\ flag \in [{0, 1} -> {0, 1}]
    /\ turn \in Turns
    /\ held \in [{0, 1} -> BOOLEAN]
    /\ pc \in [Actors -> Locs]
    /\ spins \in [Actors -> 0..(LOCK_SPIN_LIMIT + 1)]
    /\ forced \in [Actors -> BOOLEAN]
    /\ muted \in BOOLEAN
    /\ traps \in TrapSets

\* Two cores are inside line_lock_wait..line_unlock at once only if one of
\* them broke in after LOCK_SPIN_LIMIT spins ("prefer garbled output to a
\* dead wait", logger.rs:121).  Does not hold when the mailbox ISR interrupts:
\* LOCK_HELD is set after the flag (logger.rs:73-75, 103-126).
LinesExclusive ==
    \A a \in Actors \ {"big"} :
        (pc["big"] = "cs" /\ pc[a] = "cs") => (forced["big"] \/ forced[a])

\* While the access fault is the only trap, at whatever point it comes, and
\* whatever the lock words held at power-on, the lock excludes the two cores; the
\* message of a fault that could not get the lock is outside it on purpose.
Mutex == traps \subseteq {"fault"} => LinesExclusive

\* While the main loop prints under the lock, a handler that interrupts it, be
\* it the echo or a fault, leaves the small core's flag and LOCK_HELD alone
\* (logger.rs:73-75).
HeldLockUndisturbed ==
    [][traps \subseteq {"echo", "fault"} /\ pc["main"] = "cs" /\ pc'["main"] = "cs"
         => flag'[1] = flag[1] /\ held'[1] = held[1]]_vars

\* "In ISR context use line_lock_try, drop the line if it is not free, never
\* wait" (logger.rs:11).
IsrNeverWaits == pc["isr"] \notin {"turn", "lower", "yield", "reraise"}

\* Whatever the big core does with its flag and the turn, even if it stops
\* while it holds the lock, a print of the small core's main loop gets through
\* (unless a fault has halted the core): the spin limit really bounds both
\* nested wait loops.
MainPrintCompletes ==
    (pc["main"] = "test") ~> (pc["main"] = "idle" \/ pc["fault"] # "idle")
=============================================================================
