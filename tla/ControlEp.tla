----------------------------- MODULE ControlEp ------------------------------
(***************************************************************************)
(* Control transfers on host channel 0 of the DWC2 controller:              *)
(* ControlEp of usb/dwc2/control.rs (SETUP, DATA and STATUS stages) on top  *)
(* of Channel of usb/dwc2/channel.rs (arm, wait_halted and the bounded      *)
(* retries of xfer).                                                        *)
(*                                                                          *)
(* The controller and the device are external: the channel executes one     *)
(* armed transaction and halts with the HCINT flags, or never halts; on the *)
(* bus a packet or its handshake may be lost, and the device may answer NAK *)
(* or STALL or send less than it was asked for.  An abandoned transaction   *)
(* stays armed and may still complete later.                                *)
(*                                                                          *)
(* A data stage is a number of chunks of at most the packet size of         *)
(* endpoint 0; a chunk in the DMA window has a head and a tail, each marked *)
(* with whether the device wrote it in the transaction now armed.           *)
(***************************************************************************)
EXTENDS Integers

CONSTANTS
    NAK_RETRIES,   \* 64 in the code
    XACT_RETRIES,  \* 8 in the code
    MaxChunks,     \* longest data stage of this instance
    MayShort       \* the device may send less than wLength

ASSUME ControlEpAssumption ==
    /\ NAK_RETRIES \in Nat /\ XACT_RETRIES \in Nat
    /\ MaxChunks \in Nat
    /\ MayShort \in BOOLEAN

VARIABLES
    \* the caller
    req,       \* the request under way, or the last one
    result,    \* "none" while it is under way, then what it returned
    \* ControlEp
    stage,     \* "idle", "setup", "data", "status", or "panic"
    chunk,     \* which chunk the data stage is at
    data1,     \* its next data toggle is DATA1
    clean,     \* a read copied the chunks sent, in order, each once
    fresh,     \* a read copied only bytes the device sent for it
    \* Channel::xfer
    xpc,       \* "arm" or "wait"
    attempt,   \* loop counter of xfer
    xactLeft,  \* xact_left of xfer
    \* channel registers and the DMA window (external)
    chena,     \* HCCHAR.CHENA
    bus,       \* the transaction the channel was armed with
    hcint,     \* HCINT: halted, with which flags, for the current request?
    dma,       \* the chunk in the window: which one, and is it the device's
    \* device (external)
    dev

callVars == <<req, result>>
epVars   == <<stage, chunk, data1, clean, fresh>>
xferVars == <<xpc, attempt, xactLeft>>
hwVars   == <<chena, bus, hcint, dma>>
vars     == <<callVars, epVars, xferVars, hwVars, dev>>

Kinds == {"probe", "read", "write", "nodata"}

\* probe_default_addr reads 18 bytes in one packet; write may have no data.
Request ==
    [kind : {"probe"}, n : {1} \cap (0..MaxChunks)]
      \cup [kind : {"read"}, n : 1..MaxChunks]
      \cup [kind : {"write"}, n : 0..MaxChunks]
      \cup [kind : {"nodata"}, n : {0}]

IsRead(r) == r.kind \in {"probe", "read"}

Toggle(k) == k % 2 = 1

Halted(flags, own) == [chhltd |-> TRUE, flags |-> flags, own |-> own]

NotHalted == [chhltd |-> FALSE, flags |-> {}, own |-> FALSE]

Init ==
    /\ req = [kind |-> "nodata", n |-> 0] /\ result = "ok"
    /\ stage = "idle" /\ chunk = 1 /\ data1 = TRUE /\ clean = TRUE /\ fresh = TRUE
    /\ xpc = "arm" /\ attempt = 0 /\ xactLeft = 0
    /\ chena = FALSE /\ hcint = NotHalted
    /\ bus = [stage |-> "setup", in |-> FALSE, data1 |-> FALSE, chunk |-> 1, own |-> FALSE]
    /\ dma = [chunk |-> 1, head |-> FALSE, tail |-> FALSE]
    /\ dev = [st |-> "idle", in |-> FALSE, n |-> 0, next |-> 1, exact |-> TRUE]

-----------------------------------------------------------------------------
(* Channel::xfer *)

\* Entry of xfer: fresh retry budgets.
BeginXfer ==
    /\ xpc' = "arm"
    /\ attempt' = 0
    /\ xactLeft' = XACT_RETRIES

\* An error leaves the request where it is (the ? operator at every level).
Fail(error) ==
    /\ stage' = "idle"
    /\ result' = error
    /\ xpc' = "arm"
    /\ bus' = [bus EXCEPT !.own = FALSE]
    /\ UNCHANGED <<attempt, xactLeft>>

\* Direction of the stage: the status stage runs against the data stage.
DirIn ==
    CASE stage = "data" -> IsRead(req)
      [] stage = "status" -> ~IsRead(req)
      [] OTHER -> FALSE

\* Mutant: arm does not clear the channel's interrupt flags.
ArmKeepsHcint ==
    /\ stage \in {"setup", "data", "status"}
    /\ xpc = "arm"
    /\ ~chena
    /\ chena' = TRUE
    /\ bus' = [stage |-> stage, in |-> DirIn, data1 |-> (stage = "data" => data1),
               chunk |-> chunk, own |-> TRUE]
    /\ dma' = [dma EXCEPT !.head = FALSE, !.tail = FALSE]
    /\ xpc' = "wait"
    /\ UNCHANGED <<callVars, epVars, attempt, xactLeft, hcint, dev>>

\* arm: the channel is disabled; clear HCINT, program the transfer, enable.
Arm ==
    /\ stage \in {"setup", "data", "status"}
    /\ xpc = "arm"
    /\ ~chena
    /\ hcint' = NotHalted
    /\ chena' = TRUE
    /\ bus' = [stage |-> stage, in |-> DirIn, data1 |-> (stage = "data" => data1),
               chunk |-> chunk, own |-> TRUE]
    /\ dma' = [dma EXCEPT !.head = FALSE, !.tail = FALSE]
    /\ xpc' = "wait"
    /\ UNCHANGED <<callVars, epVars, attempt, xactLeft, dev>>

\* wait_disabled runs out: an abandoned transaction still holds the channel.
ArmTimeout ==
    /\ stage \in {"setup", "data", "status"}
    /\ xpc = "arm"
    /\ chena
    /\ Fail("timeout")
    /\ UNCHANGED <<req, chunk, data1, clean, fresh, chena, hcint, dma, dev>>

\* wait_halted runs out: CHENA stays set.
HaltTimeout ==
    /\ xpc = "wait"
    /\ ~hcint.chhltd
    /\ Fail("timeout")
    /\ UNCHANGED <<req, chunk, data1, clean, fresh, chena, hcint, dma, dev>>

\* wait_halted returned this snapshot, and has written it back to clear it.
Snapshot == xpc = "wait" /\ hcint.chhltd /\ hcint' = NotHalted

XferStall ==
    /\ Snapshot
    /\ "STALL" \in hcint.flags
    /\ Fail("stall")
    /\ UNCHANGED <<req, chunk, data1, clean, fresh, chena, dma, dev>>

XferXactExhausted ==
    /\ Snapshot
    /\ "STALL" \notin hcint.flags
    /\ "XACTERR" \in hcint.flags
    /\ xactLeft = 0
    /\ Fail("protocol")
    /\ UNCHANGED <<req, chunk, data1, clean, fresh, chena, dma, dev>>

\* The loop runs for attempt in 0..=NAK_RETRIES; what follows it is
\* unreachable!().
NextAttempt ==
    /\ xpc' = "arm"
    /\ attempt' = attempt + 1
    /\ stage' = IF attempt = NAK_RETRIES THEN "panic" ELSE stage

\* Mutant: a retried packet is sent with the other data toggle.
XferXactRetryToggles ==
    /\ Snapshot
    /\ "STALL" \notin hcint.flags
    /\ "XACTERR" \in hcint.flags
    /\ xactLeft > 0
    /\ xactLeft' = xactLeft - 1
    /\ NextAttempt
    /\ data1' = ~data1
    /\ UNCHANGED <<callVars, chunk, clean, fresh, chena, bus, dma, dev>>

XferXactRetry ==
    /\ Snapshot
    /\ "STALL" \notin hcint.flags
    /\ "XACTERR" \in hcint.flags
    /\ xactLeft > 0
    /\ xactLeft' = xactLeft - 1
    /\ NextAttempt
    /\ UNCHANGED <<callVars, chunk, data1, clean, fresh, chena, bus, dma, dev>>

NakSeen == hcint.flags \cap {"STALL", "XACTERR", "NAK"} = {"NAK"}

XferNakExhausted ==
    /\ Snapshot
    /\ NakSeen
    /\ attempt = NAK_RETRIES
    /\ Fail("protocol")
    /\ UNCHANGED <<req, chunk, data1, clean, fresh, chena, dma, dev>>

\* Mutant: a NAK is retried without counting the attempt.
XferNakRetryForever ==
    /\ Snapshot
    /\ NakSeen
    /\ attempt # NAK_RETRIES
    /\ xpc' = "arm"
    /\ UNCHANGED <<callVars, epVars, attempt, xactLeft, chena, bus, dma, dev>>

XferNakRetry ==
    /\ Snapshot
    /\ NakSeen
    /\ attempt # NAK_RETRIES
    /\ NextAttempt
    /\ UNCHANGED <<callVars, chunk, data1, clean, fresh, xactLeft, chena, bus, dma, dev>>

XferNoCompletion ==
    /\ Snapshot
    /\ hcint.flags \cap {"STALL", "XACTERR", "NAK", "XFERCOMPL"} = {}
    /\ Fail("protocol")
    /\ UNCHANGED <<req, chunk, data1, clean, fresh, chena, dma, dev>>

\* xfer returned Ok.
XferOk ==
    /\ Snapshot
    /\ hcint.flags \cap {"STALL", "XACTERR", "NAK"} = {}
    /\ "XFERCOMPL" \in hcint.flags

-----------------------------------------------------------------------------
(* ControlEp: the stages of a request *)

\* read, write, write_no_data or probe_default_addr is called.
Submit(r) ==
    /\ stage = "idle"
    /\ req' = r
    /\ result' = "none"
    /\ stage' = "setup"
    /\ BeginXfer
    /\ chunk' = 1 /\ data1' = TRUE /\ clean' = TRUE /\ fresh' = TRUE
    /\ UNCHANGED <<hwVars, dev>>

\* read refuses an empty buffer before it touches the bus.
SubmitEmptyRead ==
    /\ stage = "idle"
    /\ result' = "protocol"
    /\ UNCHANGED <<req, epVars, xferVars, hwVars, dev>>

SetupDone ==
    /\ stage = "setup"
    /\ XferOk
    /\ BeginXfer
    /\ stage' = IF req.n > 0 THEN "data" ELSE "status"
    /\ UNCHANGED <<callVars, chunk, data1, clean, fresh, chena, bus, dma, dev>>

\* A read copies the whole chunk out of the window, however much arrived.
CopyChunk ==
    /\ clean' = (clean /\ (IsRead(req) => dma.chunk = chunk))
    /\ fresh' = (fresh /\ (IsRead(req) => dma.head /\ dma.tail))

\* Mutant: the data toggle does not alternate.
DataDoneKeepsToggle ==
    /\ stage = "data"
    /\ XferOk
    /\ BeginXfer
    /\ CopyChunk
    /\ chunk' = chunk + 1
    /\ stage' = IF chunk = req.n THEN "status" ELSE "data"
    /\ UNCHANGED <<callVars, data1, chena, bus, dma, dev>>

\* One chunk is through.
DataDone ==
    /\ stage = "data"
    /\ XferOk
    /\ BeginXfer
    /\ CopyChunk
    /\ chunk' = chunk + 1
    /\ data1' = ~data1
    /\ stage' = IF chunk = req.n THEN "status" ELSE "data"
    /\ UNCHANGED <<callVars, chena, bus, dma, dev>>

StatusDone ==
    /\ stage = "status"
    /\ XferOk
    /\ stage' = "idle"
    /\ result' = "ok"
    /\ xpc' = "arm"
    /\ bus' = [bus EXCEPT !.own = FALSE]
    /\ UNCHANGED <<req, chunk, data1, clean, fresh, attempt, xactLeft, chena, dma, dev>>

-----------------------------------------------------------------------------
(* Controller and device (external).  lost: the handshake of this packet    *)
(* does not arrive.                                                         *)

Halt(flags) == chena' = FALSE /\ hcint' = Halted(flags, bus.own)

\* An OUT packet whose handshake is lost reaches the device all the same.
OutFlags(lost) == IF lost THEN {"XACTERR"} ELSE {"XFERCOMPL"}

\* A SETUP packet is always accepted and starts a new request.  It is fetched
\* from the DMA window, where setup_stage has put the latest request.
HwSetup(lost) ==
    /\ chena
    /\ bus.stage = "setup"
    /\ dev' = [st |-> IF req.n > 0 THEN "data" ELSE "status", in |-> IsRead(req),
               n |-> req.n, next |-> 1, exact |-> TRUE]
    /\ Halt(OutFlags(lost))
    /\ UNCHANGED <<callVars, epVars, xferVars, bus, dma>>

\* The device drops a packet with the toggle of the one it has already taken.
HwDataOut(lost) ==
    /\ chena
    /\ bus.stage = "data" /\ ~bus.in
    /\ ~dev.in
    /\ dev.st = "data" \/ (dev.st = "status" /\ bus.data1 # Toggle(dev.next))
    /\ dev' = IF bus.data1 # Toggle(dev.next) THEN dev
              ELSE [dev EXCEPT !.next = @ + 1,
                               !.st = IF dev.next = dev.n THEN "status" ELSE "data",
                               !.exact = @ /\ bus.chunk = dev.next]
    /\ Halt(OutFlags(lost))
    /\ UNCHANGED <<callVars, epVars, xferVars, bus, dma>>

\* The device sends its next chunk.  If the host's handshake is lost, it will
\* send the same chunk again, with the same toggle.
HwDataIn(lost, short) ==
    /\ chena
    /\ bus.stage = "data" /\ bus.in
    /\ dev.st = "data" /\ dev.in
    /\ bus.data1 = Toggle(dev.next)
    /\ short => MayShort
    /\ dev' = IF lost THEN dev
              ELSE [dev EXCEPT !.next = @ + 1,
                               !.st = IF short \/ dev.next = dev.n THEN "status" ELSE "data"]
    /\ dma' = [chunk |-> dev.next, head |-> TRUE, tail |-> ~short]
    /\ Halt({"XFERCOMPL"})
    /\ UNCHANGED <<callVars, epVars, xferVars, bus>>

\* A chunk with the wrong toggle is acknowledged and thrown away.
HwToggleError ==
    /\ chena
    /\ bus.stage = "data" /\ bus.in
    /\ dev.st = "data" /\ dev.in
    /\ bus.data1 # Toggle(dev.next)
    /\ dev' = [dev EXCEPT !.next = @ + 1,
                          !.st = IF dev.next = dev.n THEN "status" ELSE "data"]
    /\ Halt({})
    /\ UNCHANGED <<callVars, epVars, xferVars, bus, dma>>

\* A status packet may come again when its handshake was lost.
HwStatus(lost) ==
    /\ chena
    /\ bus.stage = "status"
    /\ dev.st \in {"status", "idle"}
    /\ dev' = IF lost /\ bus.in THEN dev ELSE [dev EXCEPT !.st = "idle"]
    /\ Halt(IF bus.in THEN {"XFERCOMPL"} ELSE OutFlags(lost))
    /\ UNCHANGED <<callVars, epVars, xferVars, bus, dma>>

\* The device is not ready.
HwNak ==
    /\ chena
    /\ bus.stage # "setup"
    /\ Halt({"NAK"})
    /\ UNCHANGED <<callVars, epVars, xferVars, bus, dma, dev>>

\* The device refuses the request, or gets a packet it has no use for.
HwStall ==
    /\ chena
    /\ bus.stage # "setup"
    /\ Halt({"STALL"})
    /\ dev' = [dev EXCEPT !.st = "halt"]
    /\ UNCHANGED <<callVars, epVars, xferVars, bus, dma>>

\* The packet is lost or damaged, or the channel halts for another reason.
HwError(flags) ==
    /\ chena
    /\ Halt(flags)
    /\ UNCHANGED <<callVars, epVars, xferVars, bus, dma, dev>>

-----------------------------------------------------------------------------

Transfer ==
    \/ Arm \/ ArmTimeout \/ HaltTimeout
    \/ XferStall \/ XferXactExhausted \/ XferXactRetry
    \/ XferNakExhausted \/ XferNakRetry \/ XferNoCompletion
    \/ SetupDone \/ DataDone \/ StatusDone

Hardware ==
    \/ \E lost \in BOOLEAN : HwSetup(lost) \/ HwDataOut(lost) \/ HwStatus(lost)
    \/ \E lost, short \in BOOLEAN : HwDataIn(lost, short)
    \/ HwToggleError \/ HwNak \/ HwStall
    \/ \E flags \in {{"XACTERR"}, {}} : HwError(flags)

Next ==
    \/ \E r \in Request : Submit(r)
    \/ SubmitEmptyRead
    \/ Transfer
    \/ Hardware

Spec == Init /\ [][Next]_vars

\* Fairness: the small core executes, and both of its polls are bounded.
\* Nothing is assumed of the controller or the device.
FairSpec == Spec /\ WF_vars(Transfer)

-----------------------------------------------------------------------------
(* Properties *)

TypeOK ==
    /\ req \in Request
    /\ result \in {"none", "ok", "stall", "protocol", "timeout"}
    /\ stage \in {"idle", "setup", "data", "status", "panic"}
    /\ chunk \in 1..(MaxChunks + 1)
    /\ data1 \in BOOLEAN /\ clean \in BOOLEAN /\ fresh \in BOOLEAN
    /\ xpc \in {"arm", "wait"}
    /\ attempt \in 0..(NAK_RETRIES + 1)
    /\ xactLeft \in 0..XACT_RETRIES
    /\ chena \in BOOLEAN
    /\ bus \in [stage : {"setup", "data", "status"}, in : BOOLEAN, data1 : BOOLEAN,
                chunk : 1..(MaxChunks + 1), own : BOOLEAN]
    /\ hcint \in [chhltd : BOOLEAN,
                  flags : {{}, {"STALL"}, {"XACTERR"}, {"NAK"}, {"XFERCOMPL"}},
                  own : BOOLEAN]
    /\ dma \in [chunk : 1..(MaxChunks + 1), head : BOOLEAN, tail : BOOLEAN]
    /\ dev \in [st : {"idle", "data", "status", "halt"}, in : BOOLEAN,
                n : 0..MaxChunks, next : 1..(MaxChunks + 1), exact : BOOLEAN]

\* The halt that wait_halted reports is that of the transaction xfer has just
\* armed, never the late completion of one abandoned at a timeout
\* (channel.rs:99-102).
StatusIsOwn == (xpc = "wait" /\ hcint.chhltd) => hcint.own

\* A write that returns Ok has delivered every chunk to the device exactly once
\* and in order, whatever was lost, retried or abandoned on the way, in this
\* request or in the ones before it.
WriteExactlyOnce ==
    (result = "ok" /\ req.kind = "write" /\ req.n > 0) =>
        dev.n = req.n /\ dev.next = req.n + 1 /\ dev.exact

\* A read that returns Ok has copied the device's chunks in order, each once.
ReadInOrder == (result = "ok" /\ IsRead(req)) => clean /\ chunk = req.n + 1

\* Whatever the controller and the device do, a request comes to its end.
RequestEnds == (stage \in {"setup", "data", "status"}) ~> (stage \in {"idle", "panic"})

\* The loop of xfer always returns from inside: what follows it is marked
\* unreachable!() (channel.rs:160).
LoopExitUnreachable == stage # "panic"

\* "After the invalidate, what is read back is the data the device has just
\* written" (control.rs:230).
ReadBackIsDeviceData == (result = "ok" /\ IsRead(req)) => fresh
=============================================================================
