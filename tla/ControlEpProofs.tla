--------------------------- MODULE ControlEpProofs ---------------------------
(***************************************************************************)
(* Proofs about control transfers, for every retry budget and every length  *)
(* of the data stage.                                                       *)
(***************************************************************************)
EXTENDS ControlEp, TLAPS

\* While xfer waits, the transaction in the channel is the one it armed, and a
\* halt that it can see is the halt of that transaction.
OwnInv ==
    xpc = "wait" => bus.own /\ (hcint.chhltd => hcint.own)

\* A step of the controller or the device changes neither xfer nor the
\* transaction; if it halts the channel, HCINT speaks of that transaction.
LEMMA HardwareHalts ==
    ASSUME Hardware
    PROVE  xpc' = xpc /\ bus' = bus /\ hcint'.own = bus.own
<1> USE DEF Halt, Halted, xferVars
<1>1. CASE \E lost \in BOOLEAN : HwSetup(lost) \/ HwDataOut(lost) \/ HwStatus(lost)
  BY <1>1 DEF HwSetup, HwDataOut, HwStatus
<1>2. CASE \E lost, short \in BOOLEAN : HwDataIn(lost, short)
  BY <1>2 DEF HwDataIn
<1>3. CASE HwToggleError \/ HwNak \/ HwStall
  BY <1>3 DEF HwToggleError, HwNak, HwStall
<1>4. CASE \E flags \in {{"XACTERR"}, {}} : HwError(flags)
  BY <1>4 DEF HwError
<1>5. QED
  BY <1>1, <1>2, <1>3, <1>4 DEF Hardware

\* Every other step of xfer than Arm leaves it about to arm, or done.
LEMMA TransferStops ==
    ASSUME Transfer
    PROVE  Arm \/ xpc' = "arm"
<1>1. CASE ArmTimeout \/ HaltTimeout \/ XferStall \/ XferXactExhausted
             \/ XferNakExhausted \/ XferNoCompletion
  BY <1>1 DEF ArmTimeout, HaltTimeout, XferStall, XferXactExhausted,
              XferNakExhausted, XferNoCompletion, Fail
<1>2. CASE XferXactRetry \/ XferNakRetry
  BY <1>2 DEF XferXactRetry, XferNakRetry, NextAttempt
<1>3. CASE SetupDone \/ DataDone \/ StatusDone
  BY <1>3 DEF SetupDone, DataDone, StatusDone, BeginXfer
<1>4. QED
  BY <1>1, <1>2, <1>3 DEF Transfer

\* The outcome xfer acts upon is that of the transaction it has just armed: the
\* late completion of one abandoned at a timeout is never taken for it, whatever
\* the controller and the device do and however large the retry budgets
\* (channel.rs:99-102).
THEOREM OutcomeIsOwn == Spec => []StatusIsOwn
<1>1. Init => OwnInv
  BY DEF Init, OwnInv
<1>2. OwnInv /\ [Next]_vars => OwnInv'
  <2> SUFFICES ASSUME OwnInv, [Next]_vars PROVE OwnInv'
    OBVIOUS
  <2>1. CASE UNCHANGED vars
    BY <2>1 DEF vars, xferVars, hwVars, OwnInv
  <2>2. CASE \E r \in Request : Submit(r)
    BY <2>2 DEF Submit, BeginXfer, OwnInv
  <2>3. CASE SubmitEmptyRead
    BY <2>3 DEF SubmitEmptyRead, xferVars, hwVars, OwnInv
  <2>4. CASE Arm
    <3>1. hcint'.chhltd = FALSE /\ bus'.own = TRUE
      BY <2>4 DEF Arm, NotHalted
    <3>2. QED
      BY <3>1 DEF OwnInv
  <2>5. CASE xpc' = "arm"
    BY <2>5 DEF OwnInv
  <2>6. CASE Hardware
    BY <2>6, HardwareHalts DEF OwnInv
  <2>7. QED
    BY <2>1, <2>2, <2>3, <2>4, <2>5, <2>6, TransferStops DEF Next
<1>3. OwnInv => StatusIsOwn
  BY DEF OwnInv, StatusIsOwn
<1>4. QED
  BY <1>1, <1>2, <1>3, PTL DEF Spec

-----------------------------------------------------------------------------
(* Types and counters *)

Active == {"setup", "data", "status"}

\* What keeps the counters in their ranges: xfer waits only within a stage, its
\* loop has not run out there, and neither the host nor the device is past the
\* last chunk while it is in the data stage.
CountInv ==
    /\ xpc = "wait" => stage \in Active
    /\ stage \in Active => attempt <= NAK_RETRIES
    /\ stage = "setup" => chunk = 1
    /\ stage = "data" => chunk <= req.n
    /\ dev.st = "data" => dev.next <= dev.n

\* No request is longer than the longest data stage.
LEMMA RequestLength ==
    \A r \in Request : r.n \in 0..MaxChunks
  BY ControlEpAssumption DEF Request

\* A request that ends with an error.
LEMMA FailTypes ==
    ASSUME TypeOK, CountInv, NEW e \in {"stall", "protocol", "timeout"}, Fail(e),
           hcint' \in {hcint, NotHalted},
           UNCHANGED <<req, chunk, data1, clean, fresh, chena, dma, dev>>
    PROVE  TypeOK' /\ CountInv'
<1>1. hcint' \in [chhltd : BOOLEAN,
                  flags : {{}, {"STALL"}, {"XACTERR"}, {"NAK"}, {"XFERCOMPL"}},
                  own : BOOLEAN]
  <2>1. CASE hcint' = hcint
    BY <2>1 DEF TypeOK
  <2>2. CASE hcint' = NotHalted
    BY <2>2 DEF NotHalted
  <2>3. QED
    BY <2>1, <2>2
<1>2. bus' \in [stage : {"setup", "data", "status"}, in : BOOLEAN, data1 : BOOLEAN,
                chunk : 1..(MaxChunks + 1), own : BOOLEAN]
  BY DEF TypeOK, Fail
<1>3. QED
  BY <1>1, <1>2 DEF TypeOK, CountInv, Fail, Active

\* One step of xfer or of a stage.
LEMMA TransferTypes ==
    ASSUME TypeOK, CountInv, Transfer
    PROVE  TypeOK' /\ CountInv'
<1> USE ControlEpAssumption, RequestLength
<1>0. hcint' = NotHalted => hcint' \in [chhltd : BOOLEAN,
                  flags : {{}, {"STALL"}, {"XACTERR"}, {"NAK"}, {"XFERCOMPL"}},
                  own : BOOLEAN]
  BY DEF NotHalted
<1>1. CASE Arm
  <2>1. DirIn \in BOOLEAN
    <3>1. IsRead(req) \in BOOLEAN
      BY DEF IsRead
    <3>2. stage \in {"setup", "data", "status"}
      BY <1>1 DEF Arm
    <3>3. CASE stage = "data"
      BY <3>1, <3>3 DEF DirIn
    <3>4. CASE stage = "status"
      BY <3>1, <3>4 DEF DirIn
    <3>5. CASE stage = "setup"
      BY <3>5 DEF DirIn
    <3>6. QED
      BY <3>2, <3>3, <3>4, <3>5
  <2>2. bus' \in [stage : {"setup", "data", "status"}, in : BOOLEAN, data1 : BOOLEAN,
                  chunk : 1..(MaxChunks + 1), own : BOOLEAN]
    BY <1>1, <2>1 DEF Arm, TypeOK
  <2>3. dma' \in [chunk : 1..(MaxChunks + 1), head : BOOLEAN, tail : BOOLEAN]
    BY <1>1 DEF Arm, TypeOK
  <2>4. QED
    BY <1>0, <1>1, <2>2, <2>3 DEF Arm, TypeOK, CountInv, Active, callVars, epVars
<1>2. CASE ArmTimeout \/ HaltTimeout
  BY <1>2, FailTypes DEF ArmTimeout, HaltTimeout
<1>3. CASE XferStall \/ XferXactExhausted \/ XferNakExhausted \/ XferNoCompletion
  BY <1>3, FailTypes DEF XferStall, XferXactExhausted, XferNakExhausted,
                         XferNoCompletion, Snapshot
<1>4. CASE XferXactRetry
  BY <1>0, <1>4 DEF XferXactRetry, Snapshot, NextAttempt, TypeOK, CountInv, Active, callVars
<1>5. CASE XferNakRetry
  BY <1>0, <1>5 DEF XferNakRetry, Snapshot, NextAttempt, TypeOK, CountInv, Active, callVars
<1>6. CASE SetupDone
  <2>1. req.n \in Nat /\ chunk = 1
    BY <1>6 DEF SetupDone, TypeOK, CountInv
  <2>2. QED
    BY <1>0, <1>6, <2>1 DEF SetupDone, XferOk, Snapshot, BeginXfer, TypeOK, CountInv,
                            Active, callVars
<1>7. CASE DataDone
  <2>1. clean' \in BOOLEAN /\ fresh' \in BOOLEAN
    BY <1>7 DEF DataDone, CopyChunk
  <2>2. data1' \in BOOLEAN
    BY <1>7 DEF DataDone
  <2>3. QED
    BY <1>0, <1>7, <2>1, <2>2 DEF DataDone, XferOk, Snapshot, BeginXfer, TypeOK,
                                   CountInv, Active, callVars
<1>8. CASE StatusDone
  <2>1. bus' \in [stage : {"setup", "data", "status"}, in : BOOLEAN, data1 : BOOLEAN,
                  chunk : 1..(MaxChunks + 1), own : BOOLEAN]
    BY <1>8 DEF StatusDone, TypeOK
  <2>2. QED
    BY <1>0, <1>8, <2>1 DEF StatusDone, XferOk, Snapshot, TypeOK, CountInv, Active
<1>9. QED
  BY <1>1, <1>2, <1>3, <1>4, <1>5, <1>6, <1>7, <1>8 DEF Transfer

\* One step of the controller or the device.
LEMMA HardwareTypes ==
    ASSUME TypeOK, CountInv, Hardware
    PROVE  TypeOK' /\ CountInv'
<1> DEFINE DevType == [st : {"idle", "data", "status", "halt"}, in : BOOLEAN,
                       n : 0..MaxChunks, next : 1..(MaxChunks + 1), exact : BOOLEAN]
           DevOk == dev' \in DevType /\ (dev'.st = "data" => dev'.next <= dev'.n)
           Flags == {{}, {"STALL"}, {"XACTERR"}, {"NAK"}, {"XFERCOMPL"}}
           DmaOk == dma' \in [chunk : 1..(MaxChunks + 1), head : BOOLEAN, tail : BOOLEAN]
<1> USE ControlEpAssumption, RequestLength
<1>0. ASSUME dev.st = "data", dev'.n = dev.n, dev'.in = dev.in,
             dev'.exact \in BOOLEAN, dev'.next = dev.next + 1,
             dev'.st \in {"data", "status"}, dev.next = dev.n => dev'.st = "status",
             dev' = [st |-> dev'.st, in |-> dev'.in, n |-> dev'.n,
                     next |-> dev'.next, exact |-> dev'.exact]
      PROVE  DevOk
  <2>1. dev.next \in 1..dev.n /\ dev.n \in 0..MaxChunks /\ dev.in \in BOOLEAN
    BY <1>0 DEF TypeOK, CountInv
  <2>2. dev'.next \in 1..(MaxChunks + 1)
    BY <1>0, <2>1
  <2>3. dev'.st = "data" => dev'.next <= dev'.n
    BY <1>0, <2>1
  <2>4. QED
    BY <1>0, <2>1, <2>2, <2>3
<1>1. ASSUME NEW flags \in Flags, Halt(flags), DevOk, DmaOk,
             UNCHANGED <<callVars, epVars, xferVars, bus>>
      PROVE  TypeOK' /\ CountInv'
  <2>1. hcint' \in [chhltd : BOOLEAN, flags : Flags, own : BOOLEAN]
    BY <1>1 DEF Halt, Halted, TypeOK
  <2>2. chena' \in BOOLEAN
    BY <1>1 DEF Halt
  <2>3. /\ req' = req /\ result' = result /\ stage' = stage /\ chunk' = chunk
        /\ data1' = data1 /\ clean' = clean /\ fresh' = fresh
        /\ xpc' = xpc /\ attempt' = attempt /\ xactLeft' = xactLeft /\ bus' = bus
    BY <1>1 DEF callVars, epVars, xferVars
  <2>4. CountInv'
    BY <1>1, <2>3 DEF CountInv
  <2>5. TypeOK'
    BY <1>1, <2>1, <2>2, <2>3 DEF TypeOK
  <2>6. QED
    BY <2>4, <2>5
<1>2. DmaOk \/ dma' # dma
  BY DEF TypeOK
<1>3. dev' = dev => DevOk
  BY DEF TypeOK, CountInv
<1>4. \A lost \in BOOLEAN : OutFlags(lost) \in Flags
  BY DEF OutFlags
<1>5. ASSUME NEW lost \in BOOLEAN, HwSetup(lost) PROVE TypeOK' /\ CountInv'
  <2>1. DevOk
    <3>1. req.n \in 0..MaxChunks /\ IsRead(req) \in BOOLEAN
      BY DEF TypeOK, IsRead
    <3>2. QED
      BY <1>5, <3>1 DEF HwSetup
  <2>2. QED
    BY <1>1, <1>2, <1>4, <1>5, <2>1 DEF HwSetup
<1>6. ASSUME NEW lost \in BOOLEAN, HwDataOut(lost) PROVE TypeOK' /\ CountInv'
  <2>1. CASE dev' = dev
    BY <1>1, <1>2, <1>3, <1>4, <1>6, <2>1 DEF HwDataOut
  <2>2. CASE dev' # dev
    <3>1. /\ dev.st = "data"
          /\ dev' = [dev EXCEPT !.next = @ + 1,
                                !.st = IF dev.next = dev.n THEN "status" ELSE "data",
                                !.exact = @ /\ bus.chunk = dev.next]
      BY <1>6, <2>2 DEF HwDataOut
    <3>2. DevOk
      BY <1>0, <3>1 DEF TypeOK
    <3>3. QED
      BY <1>1, <1>2, <1>4, <1>6, <3>2 DEF HwDataOut
  <2>3. QED
    BY <2>1, <2>2
<1>7. ASSUME NEW lost \in BOOLEAN, HwStatus(lost) PROVE TypeOK' /\ CountInv'
  <2>1. DevOk
    BY <1>3, <1>7 DEF HwStatus, TypeOK
  <2>2. QED
    BY <1>1, <1>2, <1>4, <1>7, <2>1 DEF HwStatus
<1>8. ASSUME NEW lost \in BOOLEAN, NEW short \in BOOLEAN, HwDataIn(lost, short)
      PROVE  TypeOK' /\ CountInv'
  <2>1. DevOk
    <3>1. CASE lost
      BY <1>3, <1>8, <3>1 DEF HwDataIn
    <3>2. CASE ~lost
      BY <1>0, <1>8, <3>2 DEF HwDataIn, TypeOK
    <3>3. QED
      BY <3>1, <3>2
  <2>2. DmaOk
    BY <1>8 DEF HwDataIn, TypeOK, CountInv
  <2>3. QED
    BY <1>1, <1>8, <2>1, <2>2 DEF HwDataIn
<1>9. CASE HwToggleError
  <2>1. DevOk
    BY <1>0, <1>9 DEF HwToggleError, TypeOK
  <2>2. QED
    BY <1>1, <1>2, <1>9, <2>1 DEF HwToggleError
<1>10. CASE HwNak
  BY <1>1, <1>2, <1>3, <1>10 DEF HwNak
<1>11. CASE HwStall
  <2>1. DevOk
    BY <1>11 DEF HwStall, TypeOK
  <2>2. QED
    BY <1>1, <1>2, <1>11, <2>1 DEF HwStall
<1>12. ASSUME NEW flags \in {{"XACTERR"}, {}}, HwError(flags) PROVE TypeOK' /\ CountInv'
  BY <1>1, <1>2, <1>3, <1>12 DEF HwError
<1>13. QED
  BY <1>5, <1>6, <1>7, <1>8, <1>9, <1>10, <1>11, <1>12 DEF Hardware

\* Types and ranges are kept together.
LEMMA TypesAndCounts == Spec => [](TypeOK /\ CountInv)
<1>1. Init => TypeOK /\ CountInv
  <2> SUFFICES ASSUME Init PROVE TypeOK /\ CountInv
    OBVIOUS
  <2> USE ControlEpAssumption
  <2>1. req \in Request
    BY DEF Init, Request
  <2>2. dev \in [st : {"idle", "data", "status", "halt"}, in : BOOLEAN,
                 n : 0..MaxChunks, next : 1..(MaxChunks + 1), exact : BOOLEAN]
    BY DEF Init
  <2>3. dma \in [chunk : 1..(MaxChunks + 1), head : BOOLEAN, tail : BOOLEAN]
    BY DEF Init
  <2>4. bus \in [stage : {"setup", "data", "status"}, in : BOOLEAN, data1 : BOOLEAN,
                 chunk : 1..(MaxChunks + 1), own : BOOLEAN]
    BY DEF Init
  <2>5. hcint \in [chhltd : BOOLEAN,
                   flags : {{}, {"STALL"}, {"XACTERR"}, {"NAK"}, {"XFERCOMPL"}},
                   own : BOOLEAN]
    BY DEF Init, NotHalted
  <2>6. /\ chunk \in 1..(MaxChunks + 1) /\ attempt \in 0..(NAK_RETRIES + 1)
        /\ xactLeft \in 0..XACT_RETRIES
    BY DEF Init
  <2>7. CountInv
    BY DEF Init, CountInv, Active
  <2>8. QED
    BY <2>1, <2>2, <2>3, <2>4, <2>5, <2>6, <2>7 DEF Init, TypeOK
<1>2. TypeOK /\ CountInv /\ [Next]_vars => TypeOK' /\ CountInv'
  <2> SUFFICES ASSUME TypeOK, CountInv, [Next]_vars PROVE TypeOK' /\ CountInv'
    OBVIOUS
  <2>1. CASE UNCHANGED vars
    BY <2>1 DEF vars, callVars, epVars, xferVars, hwVars, TypeOK, CountInv
  <2>2. ASSUME NEW r \in Request, Submit(r) PROVE TypeOK' /\ CountInv'
    BY <2>2, ControlEpAssumption DEF Submit, BeginXfer, hwVars, TypeOK, CountInv, Active
  <2>3. CASE SubmitEmptyRead
    BY <2>3 DEF SubmitEmptyRead, epVars, xferVars, hwVars, TypeOK, CountInv
  <2>4. QED
    BY <2>1, <2>2, <2>3, TransferTypes, HardwareTypes DEF Next
<1>3. QED
  BY <1>1, <1>2, PTL DEF Spec

\* Registers, budgets and counters of a control transfer stay in their ranges:
\* attempt never passes NAK_RETRIES + 1, xact_left never falls below zero, no
\* chunk beyond the end of the buffer is ever asked for.
THEOREM TypeCorrect == Spec => []TypeOK
  BY TypesAndCounts, PTL

-----------------------------------------------------------------------------
(* What a request that returns Ok has delivered *)

\* The transaction xfer waits for has ended with XFERCOMPL.
Completed == xpc = "wait" /\ hcint.chhltd /\ "XFERCOMPL" \in hcint.flags

\* While xfer waits, the channel holds the packet of the stage and chunk at hand,
\* and has either halted or is still enabled; an abandoned transaction holds the
\* channel at most up to the first Arm of a request; the data toggle goes with the
\* chunk; a SETUP stage that completed was understood.
ChannelInv ==
    /\ xpc = "wait" =>
         /\ bus.stage = stage /\ bus.chunk = chunk
         /\ bus.in <=> DirIn
         /\ stage = "data" => (bus.data1 <=> data1)
         /\ chena <=> ~hcint.chhltd
    /\ (stage \in {"data", "status"} /\ xpc = "arm") => ~chena
    /\ result = "ok" => stage = "idle" /\ ~chena
    /\ stage = "data" => (data1 <=> Toggle(chunk))
    /\ stage = "setup" => data1 /\ clean
    /\ (stage = "setup" /\ Completed) => dev.n = req.n /\ dev.next = 1 /\ dev.exact

\* A write: the device is at the chunk of the host, or one ahead because only the
\* handshake was lost.
WriteInv ==
    (req.kind = "write" /\ req.n > 0) =>
        /\ stage = "data" =>
             /\ dev.n = req.n /\ dev.exact
             /\ dev.next \in {chunk, chunk + 1}
             /\ Completed => dev.next = chunk + 1
        /\ (stage = "status" \/ result = "ok") =>
             dev.n = req.n /\ dev.next = req.n + 1 /\ dev.exact

\* A read: the device is at the chunk of the host, or one behind because it did not
\* hear the host's handshake.
ReadInv ==
    IsRead(req) =>
        /\ stage = "data" =>
             /\ clean
             /\ ~Completed => dev.next \in {chunk - 1, chunk}
             /\ Completed => dev.next \in {chunk, chunk + 1} /\ dma.chunk = chunk
        /\ (stage = "status" \/ result = "ok") => clean /\ chunk = req.n + 1

DeliveryInv == ChannelInv /\ WriteInv /\ ReadInv

\* Consecutive chunks have different toggles.
LEMMA ToggleAlternates == \A k \in Nat : Toggle(k + 1) <=> ~Toggle(k)
  BY DEF Toggle

\* Neither an error nor a request that is only beginning leaves anything to show.
LEMMA DeliveryReset ==
    ASSUME xpc' = "arm", stage' \in {"idle", "panic"}, result' # "ok"
    PROVE  DeliveryInv'
  BY DEF DeliveryInv, ChannelInv, WriteInv, ReadInv, Completed

LEMMA TransferDelivers ==
    ASSUME TypeOK, CountInv, DeliveryInv, Transfer
    PROVE  DeliveryInv'
<1> USE DEF DeliveryInv
<1>1. CASE Arm
  <2>1. xpc' = "wait" /\ hcint'.chhltd = FALSE /\ ~Completed' /\ ~Completed
    BY <1>1 DEF Arm, NotHalted, Completed
  <2>2. /\ UNCHANGED <<req, result, stage, chunk, data1, clean, dev>> /\ chena'
        /\ stage \in Active /\ dma'.chunk = dma.chunk
        /\ bus' = [stage |-> stage, in |-> DirIn, data1 |-> (stage = "data" => data1),
                   chunk |-> chunk, own |-> TRUE]
    BY <1>1 DEF Arm, callVars, epVars, Active, TypeOK
  <2>3. DirIn' = DirIn
    BY <2>2 DEF DirIn
  <2>4. ChannelInv'
    BY <2>1, <2>2, <2>3 DEF ChannelInv, Active
  <2>5. WriteInv' /\ ReadInv'
    BY <2>1, <2>2 DEF WriteInv, ReadInv
  <2>6. QED
    BY <2>4, <2>5
<1>2. CASE \/ ArmTimeout \/ HaltTimeout \/ XferStall \/ XferXactExhausted
           \/ XferNakExhausted \/ XferNoCompletion
  <2>1. xpc' = "arm" /\ stage' = "idle" /\ result' # "ok"
    BY <1>2 DEF ArmTimeout, HaltTimeout, XferStall, XferXactExhausted,
                XferNakExhausted, XferNoCompletion, Fail
  <2>2. QED
    BY <2>1, DeliveryReset DEF DeliveryInv
<1>3. CASE XferXactRetry \/ XferNakRetry
  <2>1. /\ xpc = "wait" /\ hcint.chhltd /\ xpc' = "arm" /\ stage' \in {stage, "panic"}
        /\ UNCHANGED <<req, result, chunk, data1, clean, chena, dma, dev>>
    BY <1>3 DEF XferXactRetry, XferNakRetry, Snapshot, NextAttempt, callVars
  <2>2. ~Completed /\ ~Completed'
    BY <1>3, <2>1 DEF XferXactRetry, XferNakRetry, NakSeen, Completed, TypeOK
  <2>3. stage \in Active /\ result # "ok" /\ ~chena
    BY <2>1 DEF CountInv, ChannelInv, Active
  <2>4. QED
    BY <2>1, <2>2, <2>3 DEF ChannelInv, WriteInv, ReadInv
<1>4. CASE SetupDone
  <2>1. /\ Completed /\ stage = "setup" /\ chunk = 1 /\ xpc' = "arm" /\ ~Completed'
        /\ stage' = IF req.n > 0 THEN "data" ELSE "status"
        /\ UNCHANGED <<req, result, chunk, data1, clean, chena, dev>>
    BY <1>4 DEF SetupDone, XferOk, Snapshot, BeginXfer, Completed, CountInv, callVars
  <2>2. /\ ~chena /\ result # "ok" /\ data1 /\ clean
        /\ dev.n = req.n /\ dev.next = 1 /\ dev.exact
    BY <2>1 DEF ChannelInv, Completed
  <2>3. ChannelInv'
    BY <2>1, <2>2 DEF ChannelInv, Toggle
  <2>4. IsRead(req) => req.n > 0
    BY DEF TypeOK, Request, IsRead
  <2>5. WriteInv' /\ ReadInv'
    BY <2>1, <2>2, <2>4 DEF WriteInv, ReadInv, IsRead
  <2>6. QED
    BY <2>3, <2>5
<1>5. CASE DataDone
  <2>1. /\ Completed /\ stage = "data" /\ xpc' = "arm" /\ ~Completed'
        /\ chunk' = chunk + 1 /\ (data1' <=> ~data1)
        /\ stage' = IF chunk = req.n THEN "status" ELSE "data"
        /\ UNCHANGED <<req, result, chena, dev>>
    BY <1>5 DEF DataDone, XferOk, Snapshot, BeginXfer, Completed, callVars
  <2>2. chunk \in Nat /\ req.n \in Nat
    BY RequestLength, ControlEpAssumption DEF TypeOK
  <2>3. /\ ~chena /\ result # "ok" /\ (data1 <=> Toggle(chunk))
    BY <2>1 DEF ChannelInv, Completed
  <2>4. ChannelInv'
    BY <2>1, <2>2, <2>3, ToggleAlternates DEF ChannelInv
  <2>5. WriteInv'
    BY <2>1, <2>2, <2>3 DEF WriteInv
  <2>6. ReadInv'
    <3>1. CASE IsRead(req)
      <4>1. clean /\ dma.chunk = chunk /\ dev.next \in {chunk, chunk + 1}
        BY <2>1, <3>1 DEF ReadInv
      <4>2. clean'
        BY <1>5, <4>1 DEF DataDone, CopyChunk
      <4>3. QED
        BY <2>1, <2>2, <2>3, <4>1, <4>2 DEF ReadInv, IsRead
    <3>2. CASE ~IsRead(req)
      BY <2>1, <3>2 DEF ReadInv, IsRead
    <3>3. QED
      BY <3>1, <3>2
  <2>7. QED
    BY <2>4, <2>5, <2>6
<1>6. CASE StatusDone
  <2>1. /\ stage = "status" /\ xpc = "wait" /\ hcint.chhltd /\ xpc' = "arm" /\ stage' = "idle"
        /\ UNCHANGED <<req, chunk, clean, chena, dev>>
    BY <1>6 DEF StatusDone, XferOk, Snapshot
  <2>2. ~chena
    BY <2>1 DEF ChannelInv
  <2>3. QED
    BY <2>1, <2>2 DEF ChannelInv, WriteInv, ReadInv, IsRead, Completed
<1>7. QED
  BY <1>1, <1>2, <1>3, <1>4, <1>5, <1>6 DEF Transfer

LEMMA HardwareDelivers ==
    ASSUME TypeOK, CountInv, DeliveryInv, Hardware
    PROVE  DeliveryInv'
<1> USE DEF DeliveryInv
<1> DEFINE Rest == <<req, result, stage, chunk, data1, clean, xpc, bus>>
<1>0. UNCHANGED Rest /\ chena /\ ~chena' /\ hcint'.chhltd
  <2> USE DEF Halt, Halted, callVars, epVars, xferVars
  <2>1. CASE \E lost \in BOOLEAN : HwSetup(lost) \/ HwDataOut(lost) \/ HwStatus(lost)
    BY <2>1 DEF HwSetup, HwDataOut, HwStatus
  <2>2. CASE \E lost, short \in BOOLEAN : HwDataIn(lost, short)
    BY <2>2 DEF HwDataIn
  <2>3. CASE HwToggleError \/ HwNak \/ HwStall
    BY <2>3 DEF HwToggleError, HwNak, HwStall
  <2>4. CASE \E flags \in {{"XACTERR"}, {}} : HwError(flags)
    BY <2>4 DEF HwError
  <2>5. QED
    BY <2>1, <2>2, <2>3, <2>4 DEF Hardware
<1>1. CASE xpc = "arm"
  <2>1. stage \notin {"data", "status"} /\ result # "ok" /\ ~Completed'
    BY <1>0, <1>1 DEF ChannelInv, Completed
  <2>2. QED
    BY <1>0, <1>1, <2>1 DEF ChannelInv, WriteInv, ReadInv
<1>2. CASE xpc = "wait"
  <2>1. /\ ~hcint.chhltd /\ ~Completed /\ stage \in Active /\ result # "ok"
        /\ bus.stage = stage /\ bus.chunk = chunk /\ (bus.in <=> DirIn)
        /\ stage = "data" => (bus.data1 <=> data1) /\ (data1 <=> Toggle(chunk))
    BY <1>0, <1>2 DEF ChannelInv, Completed, CountInv, Active
  <2>2. /\ chunk \in Nat /\ dev.next \in Nat /\ dev.n \in Nat /\ req.n \in Nat
        /\ stage = "data" => chunk <= req.n
    BY RequestLength, ControlEpAssumption DEF TypeOK, CountInv
  <2>3. ASSUME stage = "setup" /\ Completed' => dev'.n = req.n /\ dev'.next = 1 /\ dev'.exact
        PROVE  ChannelInv'
    <3>1. DirIn' = DirIn
      BY <1>0 DEF DirIn
    <3>2. QED
      BY <1>0, <1>2, <2>1, <2>3, <3>1 DEF ChannelInv
  \* The device is left where it was, and the packet did not go through.
  <2>4. ASSUME UNCHANGED <<dev, dma>>, ~Completed' PROVE DeliveryInv'
    BY <1>0, <2>1, <2>3, <2>4 DEF WriteInv, ReadInv
  <2>5. ASSUME NEW lost \in BOOLEAN, HwSetup(lost) PROVE DeliveryInv'
    <3>1. stage = "setup"
      BY <2>1, <2>5 DEF HwSetup
    <3>2. dev'.n = req.n /\ dev'.next = 1 /\ dev'.exact
      BY <2>5 DEF HwSetup
    <3>3. QED
      BY <1>0, <2>1, <2>3, <3>1, <3>2 DEF WriteInv, ReadInv
  <2>6. ASSUME NEW lost \in BOOLEAN, HwDataOut(lost) PROVE DeliveryInv'
    <3>1. stage = "data" /\ ~IsRead(req)
      BY <2>1, <2>6 DEF HwDataOut, DirIn
    <3>2. ASSUME req.kind = "write", req.n > 0
          PROVE  dev'.n = req.n /\ dev'.exact /\ dev'.next = chunk + 1
      <4>1. dev.n = req.n /\ dev.exact /\ dev.next \in {chunk, chunk + 1}
        BY <3>1, <3>2 DEF WriteInv
      <4>2. CASE bus.data1 # Toggle(dev.next)
        <5>1. dev' = dev
          BY <2>6, <4>2 DEF HwDataOut
        <5>2. dev.next # chunk
          BY <2>1, <3>1, <4>2 DEF TypeOK, Toggle
        <5>3. QED
          BY <4>1, <5>1, <5>2
      <4>3. CASE bus.data1 = Toggle(dev.next)
        <5>1. dev.next = chunk
          BY <2>1, <2>2, <3>1, <4>1, <4>3, ToggleAlternates
        <5>2. /\ dev'.next = dev.next + 1 /\ dev'.n = dev.n
              /\ dev'.exact = (dev.exact /\ bus.chunk = dev.next)
          BY <2>6, <4>3 DEF HwDataOut, TypeOK
        <5>3. QED
          BY <2>1, <4>1, <5>1, <5>2
      <4>4. QED
        BY <4>2, <4>3
    <3>3. QED
      BY <1>0, <2>1, <2>2, <2>3, <3>1, <3>2 DEF WriteInv, ReadInv, IsRead
  <2>7. ASSUME NEW lost \in BOOLEAN, HwStatus(lost) PROVE DeliveryInv'
    <3>1. stage = "status" /\ dev'.n = dev.n /\ dev'.next = dev.next /\ dev'.exact = dev.exact
      BY <2>1, <2>7 DEF HwStatus, TypeOK
    <3>2. QED
      BY <1>0, <2>1, <2>3, <3>1 DEF WriteInv, ReadInv
  <2>8. ASSUME NEW lost \in BOOLEAN, NEW short \in BOOLEAN, HwDataIn(lost, short)
        PROVE  DeliveryInv'
    <3>1. stage = "data" /\ IsRead(req) /\ req.kind # "write"
      BY <2>1, <2>8 DEF HwDataIn, DirIn, IsRead
    <3>2. dev.next = chunk
      <4>1. dev.next \in {chunk - 1, chunk}
        BY <2>1, <3>1 DEF ReadInv
      <4>2. Toggle(dev.next) <=> Toggle(chunk)
        BY <2>1, <2>8, <3>1 DEF HwDataIn
      <4>3. dev.next = chunk - 1 => (Toggle(chunk) <=> ~Toggle(dev.next))
        BY <2>2, ToggleAlternates
      <4>4. QED
        BY <4>1, <4>2, <4>3
    <3>3. dma'.chunk = chunk /\ dev'.next \in {chunk, chunk + 1}
      BY <2>8, <3>2 DEF HwDataIn, TypeOK
    <3>4. Completed'
      BY <1>0, <1>2, <2>8 DEF HwDataIn, Halt, Halted, Completed
    <3>5. ChannelInv'
      BY <2>3, <3>1
    <3>6. WriteInv'
      BY <1>0, <3>1 DEF WriteInv
    <3>7. ReadInv'
      BY <1>0, <2>1, <3>1, <3>3, <3>4 DEF ReadInv
    <3>8. QED
      BY <3>5, <3>6, <3>7
  <2>9. CASE HwToggleError
    <3>1. stage = "data" /\ IsRead(req) /\ req.kind # "write" /\ ~Completed'
      BY <2>1, <2>9 DEF HwToggleError, DirIn, IsRead, Halt, Halted, Completed
    <3>2. dev.next = chunk - 1 /\ dev'.next = dev.next + 1
      <4>1. dev.next \in {chunk - 1, chunk}
        BY <2>1, <3>1 DEF ReadInv
      <4>2. dev.next # chunk
        BY <2>1, <2>9, <3>1 DEF HwToggleError, TypeOK, Toggle
      <4>3. dev'.next = dev.next + 1
        BY <2>9 DEF HwToggleError, TypeOK
      <4>4. QED
        BY <4>1, <4>2, <4>3
    <3>3. QED
      BY <1>0, <2>1, <2>2, <2>3, <3>1, <3>2 DEF WriteInv, ReadInv
  <2>10. CASE HwNak
    BY <2>4, <2>10 DEF HwNak, Halt, Halted, Completed
  <2>11. CASE HwStall
    <3>1. /\ dev'.n = dev.n /\ dev'.next = dev.next /\ dev'.exact = dev.exact
          /\ ~Completed' /\ dma' = dma
      BY <2>11 DEF HwStall, Halt, Halted, Completed, TypeOK
    <3>2. QED
      BY <1>0, <2>1, <2>3, <3>1 DEF WriteInv, ReadInv
  <2>12. ASSUME NEW flags \in {{"XACTERR"}, {}}, HwError(flags) PROVE DeliveryInv'
    BY <2>4, <2>12 DEF HwError, Halt, Halted, Completed
  <2>13. QED
    BY <2>5, <2>6, <2>7, <2>8, <2>9, <2>10, <2>11, <2>12 DEF Hardware
<1>3. QED
  BY <1>1, <1>2 DEF TypeOK

LEMMA DeliveryInvariant == Spec => []DeliveryInv
<1>1. Init => DeliveryInv
  BY DEF Init, DeliveryInv, ChannelInv, WriteInv, ReadInv, IsRead
<1>2. TypeOK /\ CountInv /\ DeliveryInv /\ [Next]_vars => DeliveryInv'
  <2> SUFFICES ASSUME TypeOK, CountInv, DeliveryInv, [Next]_vars PROVE DeliveryInv'
    OBVIOUS
  <2>1. CASE UNCHANGED vars
    BY <2>1 DEF vars, callVars, epVars, xferVars, hwVars, DeliveryInv, ChannelInv,
                WriteInv, ReadInv, Completed, DirIn
  <2>2. ASSUME NEW r \in Request, Submit(r) PROVE DeliveryInv'
    BY <2>2 DEF Submit, BeginXfer, DeliveryInv, ChannelInv, WriteInv, ReadInv, Completed
  <2>3. CASE SubmitEmptyRead
    <3>1. stage = "idle" /\ result' # "ok" /\ UNCHANGED <<epVars, xferVars>>
      BY <2>3 DEF SubmitEmptyRead
    <3>2. xpc' = "arm" /\ stage' = "idle"
      BY <3>1 DEF epVars, xferVars, CountInv, Active, TypeOK
    <3>3. QED
      BY <3>1, <3>2, DeliveryReset
  <2>4. QED
    BY <2>1, <2>2, <2>3, TransferDelivers, HardwareDelivers DEF Next
<1>3. QED
  BY <1>1, <1>2, TypesAndCounts, PTL DEF Spec

\* A write that returns Ok has put every chunk into the device exactly once and in
\* order: a chunk whose handshake was lost is sent again with the same toggle, so
\* the device drops it, and the late end of a transaction abandoned by an earlier
\* request reaches no data or status stage of this one (control.rs, data_stage;
\* channel.rs, xfer).
THEOREM WritesExactlyOnce == Spec => []WriteExactlyOnce
<1>1. DeliveryInv => WriteExactlyOnce
  BY DEF DeliveryInv, WriteInv, WriteExactlyOnce
<1>2. QED
  BY <1>1, DeliveryInvariant, PTL

\* A read that returns Ok has copied all chunks out of the DMA window, each the one
\* the device sent for that place: a chunk sent twice because its handshake was lost
\* carries the wrong toggle and ends the request.
THEOREM ReadsInOrder == Spec => []ReadInOrder
<1>1. DeliveryInv => ReadInOrder
  BY DEF DeliveryInv, ReadInv, ReadInOrder
<1>2. QED
  BY <1>1, DeliveryInvariant, PTL
=============================================================================
