--------------------------- MODULE LineLockProofs ---------------------------
(***************************************************************************)
(* Proofs about the UART line lock, for every spin limit and every power-on *)
(* value of the lock words.                                                 *)
(***************************************************************************)
EXTENDS LineLock, TLAPS

LEMMA CoreFacts ==
    /\ Core("big") = 0 /\ Other("big") = 1
    /\ \A a \in {"main", "isr", "fault"} : Core(a) = 1 /\ Other(a) = 0
    /\ \A a \in Actors : Core(a) \in {0, 1} /\ Other(a) \in {0, 1}
  BY DEF Core, Other, Actors

\* Spin counters: nothing past the limit is ever counted twice, because the
\* loop is left when the counter exceeds it.
SpinBound ==
    \A a \in Actors :
        pc[a] \in {"test", "turn", "lower", "yield", "reraise"}
            => spins[a] <= LOCK_SPIN_LIMIT

\* Every step of actor a keeps the type and the bound of the spin counter.
LEMMA StepTypes ==
    ASSUME TypeOK, SpinBound, NEW a \in Actors,
           WaitRaise(a) \/ WaitStep(a) \/ LockStep(a) \/ TryStep(a) \/ TryRaise(a)
    PROVE  TypeOK' /\ SpinBound'
<1> USE LineLockAssumption, CoreFacts DEF At, Goto, SetFlag, Locs
<1>1. CASE WaitRaise(a)
  BY <1>1 DEF WaitRaise, TypeOK, SpinBound
<1>2. CASE WaitTest(a)
  BY <1>2 DEF WaitTest, TypeOK, SpinBound
<1>3. CASE WaitTurn(a)
  <2>1. CASE turn = Core(a)
    <3>1. CountSpin(a) /\ UNCHANGED <<flag, turn, held, muted, traps>> /\ pc[a] = "turn"
      BY <1>3, <2>1 DEF WaitTurn
    <3>2. QED
      BY <3>1 DEF CountSpin, TypeOK, SpinBound
  <2>2. CASE turn # Core(a)
    BY <1>3, <2>2 DEF WaitTurn, TypeOK, SpinBound
  <2>3. QED
    BY <2>1, <2>2
<1>4. CASE WaitLower(a)
  BY <1>4 DEF WaitLower, TypeOK, SpinBound
<1>5. CASE WaitYield(a)
  BY <1>5 DEF WaitYield, TypeOK, SpinBound
<1>6. CASE WaitReraise(a)
  BY <1>6 DEF WaitReraise, CountSpin, TypeOK, SpinBound
<1>7. CASE Take(a)
  BY <1>7 DEF Take, TypeOK, SpinBound
<1>8. CASE Unlock(a)
  BY <1>8 DEF Unlock, TypeOK, SpinBound
<1>9. CASE UnlockTurn(a)
  BY <1>9 DEF UnlockTurn, TypeOK, SpinBound
<1>10. CASE UnlockFlag(a)
  BY <1>10 DEF UnlockFlag, AfterPrint, TypeOK, SpinBound
<1>11. CASE TryRead(a)
  BY <1>11 DEF TryRead, TypeOK, SpinBound
<1>12. CASE TryLower(a)
  BY <1>12 DEF TryLower, GiveUp, TypeOK, SpinBound
<1>13. CASE TryRaise(a)
  BY <1>13 DEF TryRaise, GiveUp, TypeOK, SpinBound
<1>14. QED
  BY <1>1, <1>2, <1>3, <1>4, <1>5, <1>6, <1>7, <1>8, <1>9, <1>10, <1>11,
     <1>12, <1>13 DEF WaitStep, LockStep, TryStep

\* Next is a step of some actor, a mute command or the unlocked line of a fault.
LEMMA NextIsActorStep ==
    ASSUME TypeOK, Next
    PROVE  \/ IsrSetMuted \/ FaultRaw
           \/ \E a \in Actors :
                WaitRaise(a) \/ WaitStep(a) \/ LockStep(a) \/ TryStep(a) \/ TryRaise(a)
<1>1. CASE MainPrint \/ MainStep
  BY <1>1 DEF MainPrint, MainStep, Actors
<1>2. CASE BigPrint \/ BigStep
  BY <1>2 DEF BigPrint, BigStep, Actors
<1>3. CASE IsrEcho \/ IsrDrainOverflow \/ FaultTrap
  BY <1>3 DEF IsrEcho, IsrDrainOverflow, FaultTrap, Actors
<1>4. CASE HandlerStep
  BY <1>4 DEF HandlerStep, Actors
<1>5. QED
  BY <1>1, <1>2, <1>3, <1>4 DEF Next

\* The lock words, LOCK_HELD, the program counters and the spin counters of
\* logger.rs keep their types in every behaviour; the counter never passes
\* LOCK_SPIN_LIMIT + 1.
THEOREM TypeCorrect == Spec => [](TypeOK /\ SpinBound)
<1>1. Init => TypeOK /\ SpinBound
  <2> SUFFICES ASSUME Init PROVE TypeOK /\ SpinBound
    OBVIOUS
  <2>1. spins \in [Actors -> 0..(LOCK_SPIN_LIMIT + 1)] /\ SpinBound
    BY LineLockAssumption DEF Init, SpinBound
  <2>2. pc \in [Actors -> Locs]
    BY DEF Init, Locs
  <2>3. forced \in [Actors -> BOOLEAN] /\ held \in [{0, 1} -> BOOLEAN]
    BY DEF Init
  <2>4. QED
    BY <2>1, <2>2, <2>3 DEF Init, TypeOK
<1>2. TypeOK /\ SpinBound /\ [Next]_vars => TypeOK' /\ SpinBound'
  <2> SUFFICES ASSUME TypeOK, SpinBound, [Next]_vars
               PROVE  TypeOK' /\ SpinBound'
    OBVIOUS
  <2>1. CASE UNCHANGED vars
    BY <2>1 DEF vars, TypeOK, SpinBound
  <2>2. CASE IsrSetMuted \/ FaultRaw
    BY <2>2 DEF IsrSetMuted, FaultRaw, Goto, Locs, TypeOK, SpinBound
  <2>3. CASE \E a \in Actors :
                WaitRaise(a) \/ WaitStep(a) \/ LockStep(a) \/ TryStep(a) \/ TryRaise(a)
    BY <2>3, StepTypes
  <2>4. QED
    BY <2>1, <2>2, <2>3, NextIsActorStep
<1>3. QED
  BY <1>1, <1>2, PTL DEF Spec

\* Which handlers may interrupt is chosen once and for all.
LEMMA TrapsFixed == [Next]_vars => traps' = traps
  BY DEF Next, vars, MainPrint, BigPrint, IsrEcho, IsrDrainOverflow, IsrSetMuted,
         FaultTrap, FaultRaw, BigStep, MainStep, HandlerStep, WaitStep, LockStep, TryStep,
         WaitRaise, WaitTest, WaitTurn, WaitLower, WaitYield, WaitReraise, Take,
         Unlock, UnlockTurn, UnlockFlag, TryRaise, TryRead, TryLower

-----------------------------------------------------------------------------
(* Mutual exclusion.  The handlers of the small core may include the fault  *)
(* handler, which never gives the core back, but not the mailbox ISR: with  *)
(* it the invariant is false (run LineLock_isr).                      *)

\* The locations at which the code relies on its own flag being up.
Up == {"test", "turn", "lower", "take", "cs", "unlock_turn", "unlock_flag",
       "try_read", "try_lower"}

\* Actor a still owns the core it runs on: a main loop suspended below the
\* fault handler never runs again, and relies on its flag only if it was
\* printing.
Owns(a) == a = "main" => (pc["fault"] = "idle" \/ pc["main"] = "cs")

\* a passed the test of the other core's flag and has not begun to unlock.
Inside(a) == Owns(a) /\ pc[a] \in {"take", "cs"} /\ ~forced[a]

MutexInv ==
    /\ pc["isr"] = "idle"
    /\ \A a \in {"big", "main"} : pc[a] \notin {"try_read", "try_lower", "halted"}
    /\ \A a \in Actors : Owns(a) /\ pc[a] \in Up => flag[Core(a)] = 1
    /\ pc["main"] = "cs" => held[1] /\ pc["fault"] \in {"idle", "raw", "halted"}
    /\ \A a \in {"main", "fault"} : ~(Inside("big") /\ Inside(a))

\* The step of an actor, restricted to what each actor can do.
LockMove(a) ==
    \/ a # "fault" /\ (WaitRaise(a) \/ WaitStep(a))
    \/ LockStep(a)
    \/ a = "fault" /\ (TryRaise(a) \/ TryStep(a))

LEMMA MutexStep ==
    ASSUME TypeOK, MutexInv, NEW a \in {"big", "main", "fault"}, LockMove(a)
    PROVE  MutexInv'
<1> USE CoreFacts DEF At, MayRun, Goto, SetFlag, Up, Actors, Owns, Inside, TypeOK, MutexInv
<1>1. CASE a # "fault" /\ WaitRaise(a)
  BY <1>1 DEF WaitRaise
<1>2. CASE a # "fault" /\ WaitTest(a)
  BY <1>2 DEF WaitTest
<1>3. CASE a # "fault" /\ WaitTurn(a)
  <2>1. CASE turn = Core(a)
    <3>1. /\ CountSpin(a) /\ UNCHANGED <<flag, turn, held, muted, traps>>
          /\ pc[a] = "turn" /\ MayRun(a)
      BY <1>3, <2>1 DEF WaitTurn
    <3>2. QED
      BY <1>3, <3>1 DEF CountSpin
  <2>2. CASE turn # Core(a)
    BY <1>3, <2>2 DEF WaitTurn
  <2>3. QED
    BY <2>1, <2>2
<1>4. CASE a # "fault" /\ WaitLower(a)
  BY <1>4 DEF WaitLower
<1>5. CASE a # "fault" /\ WaitYield(a)
  BY <1>5 DEF WaitYield
<1>6. CASE a # "fault" /\ WaitReraise(a)
  BY <1>6 DEF WaitReraise, CountSpin
<1>7. CASE Take(a)
  BY <1>7 DEF Take
<1>8. CASE Unlock(a)
  BY <1>8 DEF Unlock
<1>9. CASE UnlockTurn(a)
  BY <1>9 DEF UnlockTurn
<1>10. CASE UnlockFlag(a)
  BY <1>10 DEF UnlockFlag, AfterPrint
<1>11. CASE a = "fault" /\ TryRead(a)
  BY <1>11 DEF TryRead
<1>12. CASE a = "fault" /\ TryLower(a)
  BY <1>12 DEF TryLower, GiveUp
<1>13. CASE a = "fault" /\ TryRaise(a)
  BY <1>13 DEF TryRaise, GiveUp
<1>14. QED
  BY <1>1, <1>2, <1>3, <1>4, <1>5, <1>6, <1>7, <1>8, <1>9, <1>10, <1>11, <1>12, <1>13 DEF LockMove, WaitStep, LockStep, TryStep

\* The lock of logger.rs excludes the two cores from each other's line, unless
\* one of them forced its way in, for every spin limit, every garbage value of
\* the lock words at power-on, and an access fault at any point; on the small
\* core only the mailbox ISR is left out.
THEOREM MutualExclusion == Spec => []Mutex
<1> DEFINE IInv == traps \subseteq {"fault"} => MutexInv
<1>1. Init => IInv
  BY DEF Init, MutexInv, Owns, Inside, Up, Actors
<1>2. TypeOK /\ IInv /\ [Next]_vars => IInv'
  <2> SUFFICES ASSUME TypeOK, IInv, [Next]_vars, traps' \subseteq {"fault"}
               PROVE  MutexInv'
    OBVIOUS
  <2>0. traps \subseteq {"fault"} /\ MutexInv
    BY TrapsFixed
  <2>1. CASE UNCHANGED vars
    BY <2>0, <2>1 DEF vars, MutexInv, Owns, Inside
  <2>2. CASE MainPrint \/ MainStep
    <3>1. LockMove("main")
      BY <2>2 DEF MainPrint, MainStep, LockMove
    <3>2. QED
      BY <2>0, <3>1, MutexStep
  <2>3. CASE BigPrint \/ BigStep
    <3>1. LockMove("big")
      BY <2>3 DEF BigPrint, BigStep, LockMove
    <3>2. QED
      BY <2>0, <3>1, MutexStep
  <2>4. CASE FaultTrap \/ TryStep("fault") \/ LockStep("fault")
    <3>1. LockMove("fault")
      BY <2>4 DEF FaultTrap, LockMove
    <3>2. QED
      BY <2>0, <3>1, MutexStep
  <2>5. CASE FaultRaw
    BY <2>0, <2>5 DEF FaultRaw, At, Goto, Up, Actors, Owns, Inside, TypeOK, MutexInv
  <2>6. ~(IsrEcho \/ IsrDrainOverflow \/ IsrSetMuted)
    BY <2>0 DEF IsrEcho, IsrDrainOverflow, IsrSetMuted
  <2>7. ~(WaitStep("isr") \/ TryStep("isr") \/ LockStep("isr"))
    BY <2>0 DEF MutexInv, At, WaitStep, WaitTest, WaitTurn, WaitLower, WaitYield,
           WaitReraise, TryStep, TryRead, TryLower, LockStep, Take, Unlock,
           UnlockTurn, UnlockFlag
  <2>8. QED
    BY <2>1, <2>2, <2>3, <2>4, <2>5, <2>6, <2>7 DEF Next, HandlerStep
<1>3. TypeOK /\ IInv => Mutex
  BY DEF MutexInv, Mutex, LinesExclusive, Inside, Owns, TypeOK, Actors
<1>4. QED
  BY <1>1, <1>2, <1>3, TypeCorrect, PTL DEF Spec

-----------------------------------------------------------------------------
(* What LOCK_HELD is for. *)

\* A line of the main loop is printed with no handler of the small core
\* between the raising and the lowering of the flag.
HeldInv ==
    pc["main"] = "cs" =>
        held[1] /\ pc["isr"] = "idle" /\ pc["fault"] \in {"idle", "raw", "halted"}

\* With the mailbox ISR echoing through line_lock_try and with access faults
\* at any point, no handler touches the flag or LOCK_HELD while the main loop
\* prints: LOCK_HELD does what logger.rs:73-75 asks of it from the moment it
\* is set.
THEOREM HandlersRespectHeldLock == Spec => HeldLockUndisturbed
<1> DEFINE Quiet == traps \subseteq {"echo", "fault"}
           IInv == Quiet => HeldInv
           Undisturbed ==
               pc["main"] = "cs" /\ pc'["main"] = "cs"
                   => flag'[1] = flag[1] /\ held'[1] = held[1]
<1>1. Init => IInv
  BY DEF Init, HeldInv, Actors
<1>2. TypeOK /\ Quiet /\ HeldInv /\ [Next]_vars => HeldInv' /\ Undisturbed
  <2> SUFFICES ASSUME TypeOK, Quiet, HeldInv, [Next]_vars
               PROVE  HeldInv' /\ Undisturbed
    OBVIOUS
  <2> USE CoreFacts DEF At, MayRun, Goto, SetFlag, Actors, HeldInv, TypeOK
  <2>1. CASE UNCHANGED vars
    BY <2>1 DEF vars
  <2>2. CASE IsrSetMuted \/ FaultRaw
    BY <2>2 DEF IsrSetMuted, FaultRaw
  <2>3. ASSUME NEW a \in Actors,
               \/ a \in {"big", "main"} /\ WaitRaise(a)
               \/ WaitStep(a) \/ LockStep(a) \/ TryStep(a) \/ TryRaise(a)
        PROVE  HeldInv' /\ Undisturbed
    <3>1. CASE a \in {"big", "main"} /\ WaitRaise(a)
      BY <3>1 DEF WaitRaise
    <3>2. CASE WaitTest(a)
      BY <3>2 DEF WaitTest
    <3>3. CASE WaitTurn(a)
      BY <3>3 DEF WaitTurn, CountSpin
    <3>4. CASE WaitLower(a)
      BY <3>4 DEF WaitLower
    <3>5. CASE WaitYield(a)
      BY <3>5 DEF WaitYield
    <3>6. CASE WaitReraise(a)
      BY <3>6 DEF WaitReraise, CountSpin
    <3>7. CASE Take(a)
      BY <3>7 DEF Take
    <3>8. CASE Unlock(a)
      <4>1. CASE a = "main"
        BY <3>8, <4>1 DEF Unlock
      <4>2. CASE a = "big"
        <5>1. held' = [held EXCEPT ![0] = FALSE] /\ flag' = flag
          BY <3>8, <4>2 DEF Unlock
        <5>2. held'[1] = held[1]
          <6>1. DOMAIN held = {0, 1} /\ 1 # 0
            OBVIOUS
          <6>2. QED
            BY <5>1, <6>1, Zenon
        <5>3. pc' = [pc EXCEPT !["big"] = "unlock_turn"]
          BY <3>8, <4>2 DEF Unlock
        <5>4. QED
          BY <5>1, <5>2, <5>3
      <4>3. CASE a \in {"isr", "fault"}
        BY <3>8, <4>3 DEF Unlock
      <4>4. QED
        BY <4>1, <4>2, <4>3
    <3>9. CASE UnlockTurn(a)
      BY <3>9 DEF UnlockTurn
    <3>10. CASE UnlockFlag(a)
      BY <3>10 DEF UnlockFlag, AfterPrint
    <3>11. CASE TryRead(a)
      BY <3>11 DEF TryRead
    <3>12. CASE TryLower(a)
      BY <3>12 DEF TryLower, GiveUp
    <3>13. CASE TryRaise(a)
      BY <3>13 DEF TryRaise, GiveUp
    <3>14. QED
      BY <2>3, <3>1, <3>2, <3>3, <3>4, <3>5, <3>6, <3>7, <3>8, <3>9, <3>10,
         <3>11, <3>12, <3>13 DEF WaitStep, LockStep, TryStep
  <2>4. CASE MainPrint \/ MainStep
    BY <2>3, <2>4 DEF MainPrint, MainStep
  <2>5. CASE BigPrint \/ BigStep
    BY <2>3, <2>5 DEF BigPrint, BigStep
  <2>6. CASE IsrEcho \/ FaultTrap
    BY <2>3, <2>6 DEF IsrEcho, FaultTrap
  <2>7. CASE HandlerStep
    BY <2>2, <2>3, <2>7 DEF HandlerStep
  <2>8. ~IsrDrainOverflow
    BY DEF IsrDrainOverflow
  <2>9. QED
    BY <2>1, <2>2, <2>4, <2>5, <2>6, <2>7, <2>8 DEF Next
<1>3. TypeOK /\ IInv /\ [Next]_vars => IInv' /\ (Quiet => Undisturbed)
  BY <1>2, TrapsFixed
<1>4. (Quiet => Undisturbed) =>
        (/\ traps \subseteq {"echo", "fault"} /\ pc["main"] = "cs" /\ pc'["main"] = "cs"
           => flag'[1] = flag[1] /\ held'[1] = held[1])
  OBVIOUS
<1>5. QED
  BY <1>1, <1>3, <1>4, TypeCorrect, PTL DEF Spec, HeldLockUndisturbed
=============================================================================
