---------------------------- MODULE UsbHostProofs ----------------------------
(***************************************************************************)
(* Proofs about the USB host, for every tree of hubs and devices and every  *)
(* version, FIFO memory and number of channels of the controller.           *)
(*                                                                          *)
(* The walk is proved about on its own (Spec of UsbTree); HostSpec takes    *)
(* only steps of that walk, so the results carry over.                      *)
(***************************************************************************)
EXTENDS UsbHost, WellFoundedInduction, TLAPS

Frame == [hub : DOMAIN Ports, port : Nat \ {0}]

\* The device at the port that a level of the walk has reached.
At(f) == Ports[f.hub][f.port]

\* The steps between the reset of a port and the dispatch of its device.
Busy == {"after", "probe", "address", "configure", "dispatch"}

\* The stack is a path of the tree: it starts at the root, each hub hangs at the
\* port its predecessor has reached, and no hub occurs twice.
StackInv ==
    /\ stack \in Seq(Frame)
    /\ \A i \in 1..Len(stack) : stack[i].port <= Len(Ports[stack[i].hub])
    /\ Len(stack) > 0 => stack[1].hub = "root"
    /\ \A i \in 1..(Len(stack) - 1) : stack[i + 1].hub = At(stack[i])
    /\ \A i, j \in 1..Len(stack) : stack[i].hub = stack[j].hub => i = j
    /\ pc \in Busy \cup {"port"} => Len(stack) > 0
    /\ pc \in Busy => Child # None

\* Addresses are handed out in increasing order, and only the device at hand
\* listens at address 0, apart from those given up after their reset.
AddrInv ==
    /\ nextAddr \in 1..MAX_USB_ADDR
    /\ pc = "address" => nextAddr < MAX_USB_ADDR
    /\ addr \in [Devices -> Nat \cup {None}]
    /\ \A d \in Devices : addr[d] # None => addr[d] < nextAddr
    /\ \A d, e \in Devices \ late : (d # e /\ addr[d] # None) => addr[d] # addr[e]
    /\ \A d \in Devices \ late :
          addr[d] = 0 => pc = "end" \/ (pc \in {"after", "probe", "address"} /\ d = Child)
    /\ pc \in {"after", "probe", "address"} => addr[Child] = 0
    /\ pc = "configure" =>
         addr[Child] = handle /\ \A d \in Devices \ late : addr[d] = handle => d = Child

\* Configured, given up, or not there.
Done == ready \cup given \cup {None}

\* Every port behind the current one of each level is done, and so is every port
\* of a configured hub that is neither on the stack nor about to be walked.
WalkInv ==
    /\ late \subseteq given
    /\ pc = "bus" => ready = {}
    /\ pc = "end" <=> result # "none"
    /\ pc # "end" =>
         /\ \A i \in 1..Len(stack) :
               \A p \in 1..(stack[i].port - 1) : Ports[stack[i].hub][p] \in Done
         /\ \A i \in 1..(Len(stack) - 1) : At(stack[i]) \in Done
         /\ pc = "dispatch" => Child \in ready
         /\ \A h \in (ready \cap Hubs) \ given :
               \/ \E i \in 1..Len(stack) : stack[i].hub = h
               \/ pc = "dispatch" /\ h = Child
               \/ \A p \in DOMAIN Ports[h] : Ports[h][p] \in Done
    /\ CompleteWalk

TreeInv == StackInv /\ AddrInv /\ WalkInv

Layout(f) == <<<<0, f[1]>>, <<f[1], f[2]>>, <<f[1] + f[2], f[3]>>>>

\* A reset that is not over shows in the flag that core_soft_reset waits for.
CoreInv ==
    /\ at \in 0..16
    /\ core.resetting => at \in {0, 3, 7} /\ core.csftrst /\ ~core.done
    /\ core.flushing => at \in {0, 11, 14}
    /\ fifo # << >> => fifo = Layout(HostFifos(core.depth, core.hc))

\* After the first soft reset the port is enabled by port_reset_pulse only.
RootInv ==
    /\ RootPortKept
    /\ (at >= 3 /\ rp \in {"none", "cleared"}) => ~wire.up
    /\ AtRoot("after") => rp = "done"
    /\ Phase # "scan" => rp = "none" /\ pc = "bus"
-----------------------------------------------------------------------------
(* The bring-up of the controller *)

\* Where the phases lie.
LEMMA PhaseFacts ==
    ASSUME at \in 0..16
    PROVE  /\ Phase = "idle" <=> at \in {1, 5, 9, 12}
           /\ Phase = "soft" <=> at \in {2, 6}
           /\ Phase = "reset" <=> at \in {3, 7}
           /\ Phase = "mode" <=> at = 4
           /\ Phase = "fifos" <=> at = 8
           /\ Phase \in {"tx", "rx"} <=> at \in {10, 13}
           /\ Phase = "flush" <=> at \in {11, 14}
           /\ Phase = "power" <=> at = 15
           /\ Phase = "scan" <=> at = 16
           /\ Phase = "panic" <=> at = 0
  BY DEF Phase, Phases

CoreType == [version : Versions, depth : Depths, hc : Channels, done : BOOLEAN,
             csftrst : BOOLEAN, resetting : BOOLEAN, flushing : BOOLEAN]

\* The steps that leave the core alone and do not move the bring-up.
LEMMA ScanLeavesCore ==
    ASSUME \/ ClearConnectionChange \/ ResetPulse \/ ResetRelease
           \/ WaitConnect \/ WaitConnectTimesOut \/ SkipPort \/ ResetHubPort
           \/ SeePortEnabled \/ SeePortDisabled \/ Walk
           \/ Connect \/ Enable \/ Unplug
    PROVE  UNCHANGED <<at, core, fifo>>
  BY DEF ClearConnectionChange, ResetPulse, ResetRelease, WaitConnect, WaitConnectTimesOut,
         SkipPort, ResetHubPort, SeePortEnabled, SeePortDisabled, Walk, Scan,
         Connect, Enable, Unplug, Hardware

LEMMA CoreStep ==
    ASSUME core \in CoreType, CoreInv, [HostNext]_hostVars
    PROVE  core' \in CoreType /\ CoreInv'
<1> USE DEF CoreInv, CoreType
<1>0. at \in 0..16
  OBVIOUS
<1>1. CASE AhbIdle \/ HostMode
  <2>1. at \in {1, 4, 5, 9, 12} /\ at' = at + 1 /\ UNCHANGED <<core, fifo>>
    BY <1>0, <1>1, PhaseFacts DEF AhbIdle, HostMode, Step
  <2>2. QED
    BY <2>1
<1>2. CASE SoftReset
  <2>1. at \in {2, 6} /\ at' = at + 1 /\ fifo' = fifo
    BY <1>0, <1>2, PhaseFacts DEF SoftReset, Step
  <2>2. /\ core' \in CoreType /\ core'.csftrst /\ ~core'.done
        /\ core'.depth = core.depth /\ core'.hc = core.hc /\ core'.flushing = core.flushing
    BY <1>2 DEF SoftReset
  <2>3. QED
    BY <2>1, <2>2
<1>3. CASE SoftResetSeen
  <2>1. at \in {3, 7} /\ at' = at + 1 /\ fifo' = fifo
    BY <1>0, <1>3, PhaseFacts DEF SoftResetSeen, Step
  <2>2. ~core.resetting
    BY <1>3 DEF SoftResetSeen, ResetSeen
  <2>3. /\ core' \in CoreType /\ core'.resetting = core.resetting
        /\ core'.depth = core.depth /\ core'.hc = core.hc /\ core'.flushing = core.flushing
    <3>1. core' = [core EXCEPT !.csftrst = FALSE, !.done = IF new_rst_seq THEN FALSE ELSE @]
      BY <1>3 DEF SoftResetSeen
    <3>2. (IF new_rst_seq THEN FALSE ELSE core.done) \in BOOLEAN
      OBVIOUS
    <3>3. QED
      BY <3>1, <3>2
  <2>4. QED
    BY <2>1, <2>2, <2>3
<1>4. CASE SetFifos
  <2>1. at = 8 /\ at' = 9 /\ core' = core
    BY <1>0, <1>4, PhaseFacts DEF SetFifos, Step
  <2>2. QED
    BY <1>4, <2>1 DEF SetFifos, Layout
<1>5. CASE Flush
  <2>1. at \in {10, 13} /\ at' = at + 1 /\ fifo' = fifo
    BY <1>0, <1>5, PhaseFacts DEF Flush, Step
  <2>2. /\ core' \in CoreType /\ core'.resetting = core.resetting
        /\ core'.depth = core.depth /\ core'.hc = core.hc
    BY <1>5 DEF Flush
  <2>3. QED
    BY <2>1, <2>2
<1>6. CASE FlushSeen
  <2>1. at \in {11, 14} /\ at' = at + 1 /\ UNCHANGED <<core, fifo>> /\ ~core.flushing
    BY <1>0, <1>6, PhaseFacts DEF FlushSeen, Step
  <2>2. QED
    BY <2>1
<1>7. CASE TimesOut
  BY <1>7 DEF TimesOut
<1>8. CASE PortPower
  <2>1. at = 15 /\ at' = 16 /\ UNCHANGED <<core, fifo>>
    BY <1>0, <1>8, PhaseFacts DEF PortPower, Step
  <2>2. QED
    BY <2>1
<1>9. CASE ResetDone
  <2>1. /\ UNCHANGED <<at, fifo>> /\ core.resetting
        /\ core' = [core EXCEPT !.resetting = FALSE, !.done = core'.done, !.csftrst = core'.csftrst]
        /\ core'.done \in BOOLEAN /\ core'.csftrst \in BOOLEAN
    BY <1>9 DEF ResetDone, Hardware
  <2>2. core'.depth = core.depth /\ core'.hc = core.hc /\ core'.flushing = core.flushing
        /\ core'.resetting = FALSE /\ core' \in CoreType
    BY <2>1
  <2>3. QED
    BY <2>1, <2>2
<1>10. CASE FlushDone
  BY <1>10 DEF FlushDone, Hardware
<1>11. CASE UNCHANGED <<at, core, fifo>>
  BY <1>11
<1>12. QED
  BY <1>1, <1>2, <1>3, <1>4, <1>5, <1>6, <1>7, <1>8, <1>9, <1>10, <1>11, ScanLeavesCore
     DEF HostNext, Driver, hostVars

\* The FIFOs that init_host_fifos_cv182x lays out fit the memory of a core that can
\* hold the receive and the non-periodic one.
LEMMA LayoutFits ==
    ASSUME core \in CoreType, CoreInv, fifo # << >>, core.depth >= 516 + core.hc + 256
    PROVE  FifosFit
<1>1. core.depth \in Nat /\ core.hc \in Nat
  BY UsbHostAssumption DEF CoreType
<1> DEFINE f == HostFifos(core.depth, core.hc)
<1>2. /\ f[1] \in Nat /\ f[2] \in Nat /\ f[3] \in Nat
      /\ f[1] + f[2] + f[3] <= core.depth
  <2> DEFINE rest == core.depth - (516 + core.hc) - 256
  <2>1. rest \in Nat
    BY <1>1
  <2>2. CASE 536 + 32 + 768 > core.depth
    <3>1. f = <<516 + core.hc, 256, IF rest >= 768 THEN 768 ELSE IF rest > 0 THEN rest ELSE 0>>
      BY <2>2 DEF HostFifos
    <3>2. /\ f[1] = 516 + core.hc /\ f[2] = 256
          /\ f[3] = IF rest >= 768 THEN 768 ELSE IF rest > 0 THEN rest ELSE 0
      BY <3>1
    <3>3. QED
      BY <1>1, <2>1, <3>2
  <2>3. CASE ~(536 + 32 + 768 > core.depth)
    <3>1. f = <<536, 32, 768>>
      BY <2>3 DEF HostFifos
    <3>2. QED
      BY <1>1, <2>3, <3>1
  <2>4. QED
    BY <2>2, <2>3
<1>3. fifo = Layout(f)
  BY DEF CoreInv
<1> HIDE DEF f
<1>4. QED
  BY <1>2, <1>3 DEF FifosFit, Layout

LEMMA BringUpBegins == HostInit => core \in CoreType /\ CoreInv
<1> SUFFICES ASSUME HostInit PROVE core \in CoreType /\ CoreInv
  OBVIOUS
<1>1. core \in CoreType /\ core.resetting = FALSE /\ core.flushing = FALSE
  BY DEF HostInit, CoreType
<1>2. QED
  BY <1>1 DEF HostInit, CoreInv

\* dwc2_host_init never goes on while a reset or a flush of the controller is
\* under way, whatever flags the boot loader left in GRSTCTL, and leaves FIFOs that
\* fit.
THEOREM BringUpIsSound == HostSpec => []BringUpSound
<1>1. HostInit => core \in CoreType /\ CoreInv
  BY BringUpBegins
<1>2. core \in CoreType /\ CoreInv => BringUpSound
  BY PhaseFacts, LayoutFits DEF CoreInv, BringUpSound
<1>3. core \in CoreType /\ CoreInv /\ [HostNext]_hostVars => (core \in CoreType /\ CoreInv)'
  BY CoreStep
<1>4. QED
  BY <1>1, <1>2, <1>3, PTL DEF HostSpec

-----------------------------------------------------------------------------
(* The root port *)

HprtType == [pwr : BOOLEAN, rst : BOOLEAN, conn : BOOLEAN, conndet : BOOLEAN, ena : BOOLEAN]

WireType == [plugged : BOOLEAN, reset : BOOLEAN, up : BOOLEAN, changed : BOOLEAN, events : Nat]

PortTypes == hprt \in HprtType /\ wire \in WireType

\* Only PortReset brings the walk to "after", and no step but those of Advance
\* and of a dispatched hub change the depth of the walk, which they leave at "port".
LEMMA AfterReset ==
    ASSUME Next \/ UNCHANGED vars, pc' = "after"
    PROVE  PortReset \/ UNCHANGED <<pc, stack>>
<1>1. ASSUME Advance PROVE pc' # "after"
  <2> DEFINE more == {i \in 1..Len(stack) : stack[i].port < Len(Ports[stack[i].hub])}
  <2>1. CASE more = {}
    BY <1>1, <2>1 DEF Advance, Return
  <2>2. CASE more # {}
    BY <1>1, <2>2 DEF Advance
  <2>3. QED
    BY <2>1, <2>2
<1>2. ~HardError
  BY DEF HardError, Return
<1>3. ~NotPresent
  BY <1>1, <1>2 DEF NotPresent
<1>4. QED
  BY <1>1, <1>2, <1>3 DEF Next, vars, BusConnect, BusEmpty, Return, PortSkipped, PortNotEnabled,
     PortGivenUp, PortEnabled, ProbeOk, ProbeError, SetAddressOk, SetAddressError, ConfigureOk,
     ConfigureError, DispatchHub, DispatchEmptyHub, DispatchCamera, DispatchError, DispatchIgnored

\* The bus is driven by the steps of the walk, and by nothing else.
LEMMA WalkSteps == [HostNext]_hostVars => [Next]_vars
<1> SUFFICES ASSUME [HostNext]_hostVars PROVE [Next]_vars
  OBVIOUS
<1>1. CASE \/ AhbIdle \/ SoftReset \/ SoftResetSeen \/ HostMode \/ SetFifos \/ Flush \/ FlushSeen
           \/ TimesOut \/ PortPower \/ ClearConnectionChange \/ ResetPulse
  BY <1>1 DEF AhbIdle, SoftReset, SoftResetSeen, HostMode, SetFifos, Flush, FlushSeen,
     TimesOut, PortPower, ClearConnectionChange, ResetPulse, Step
<1>2. CASE \/ ResetRelease \/ WaitConnect \/ WaitConnectTimesOut \/ SkipPort \/ ResetHubPort
           \/ SeePortEnabled \/ SeePortDisabled \/ Walk
  BY <1>2 DEF ResetRelease, WaitConnect, WaitConnectTimesOut, SkipPort, ResetHubPort,
     SeePortEnabled, SeePortDisabled, Walk, Next
<1>3. CASE ResetDone \/ FlushDone \/ Connect \/ Enable \/ Unplug
  BY <1>3 DEF ResetDone, FlushDone, Connect, Enable, Unplug, Hardware
<1>4. CASE UNCHANGED hostVars
  BY <1>4 DEF hostVars
<1>5. QED
  BY <1>1, <1>2, <1>3, <1>4 DEF HostNext, Driver

\* From power-on to the end, the host does to the bus what the walk of UsbTree does.
THEOREM HostWalks == HostSpec => Spec
<1>1. HostInit => Init
  BY DEF HostInit
<1>2. QED
  BY <1>1, WalkSteps, PTL DEF HostSpec, Spec

LEMMA PortTypesStep ==
    ASSUME PortTypes, [HostNext]_hostVars
    PROVE  PortTypes'
<1> USE DEF PortTypes, HprtType, WireType
<1>1. CASE SoftReset
  <2>1. HPRT0_OFF \in HprtType
    BY DEF HPRT0_OFF
  <2>2. QED
    BY <1>1, <2>1 DEF SoftReset
<1>2. CASE PortPower
  BY <1>2 DEF PortPower, hprt0_port
<1>3. CASE ClearConnectionChange
  BY <1>3 DEF ClearConnectionChange
<1>4. CASE ResetPulse
  BY <1>4 DEF ResetPulse, hprt0_port
<1>5. CASE ResetRelease
  BY <1>5 DEF ResetRelease, hprt0_port
<1>6. CASE Connect
  BY <1>6 DEF Connect
<1>7. CASE Enable
  BY <1>7 DEF Enable
<1>8. CASE Unplug
  <2>1. hprt' \in HprtType
    BY <1>8 DEF Unplug
  <2>2. wire' \in WireType
    BY <1>8 DEF Unplug
  <2>3. QED
    BY <2>1, <2>2
<1>9. CASE UNCHANGED <<hprt, wire>>
  BY <1>9
<1>10. CASE \/ AhbIdle \/ SoftResetSeen \/ HostMode \/ SetFifos \/ Flush \/ FlushSeen \/ TimesOut
            \/ ResetDone \/ FlushDone
  BY <1>9, <1>10 DEF AhbIdle, SoftResetSeen, HostMode, SetFifos, Flush, FlushSeen, TimesOut,
     ResetDone, FlushDone
<1>11. CASE \/ WaitConnect \/ WaitConnectTimesOut \/ SkipPort \/ ResetHubPort
            \/ SeePortEnabled \/ SeePortDisabled \/ Walk
  BY <1>9, <1>11 DEF WaitConnect, WaitConnectTimesOut, SkipPort, ResetHubPort, SeePortEnabled,
     SeePortDisabled, Walk, Scan
<1>12. QED
  BY <1>1, <1>2, <1>3, <1>4, <1>5, <1>6, <1>7, <1>8, <1>9, <1>10, <1>11
     DEF HostNext, Driver, hostVars

LEMMA RootStep ==
    ASSUME PortTypes, at \in 0..16, RootInv, [HostNext]_hostVars
    PROVE  RootInv'
<1> USE DEF PortTypes, HprtType, WireType
<1>0. Phase = "scan" <=> at = 16
  BY PhaseFacts
\* A step of the bring-up: the walk has not begun.
<1>1. ASSUME UNCHANGED <<pc, rp>>, at' \in {0, at + 1}, Phase # "scan",
             \/ UNCHANGED <<wire, hprt.ena, hprt.conndet>> /\ at # 2
             \/ ~wire'.up /\ ~wire'.changed
      PROVE  RootInv'
  <2>1. rp' = "none" /\ pc' = "bus"
    BY <1>1 DEF RootInv
  <2>2. RootPortKept'
    BY <1>1 DEF RootInv, RootPortKept
  <2>3. at' >= 3 => ~wire'.up
    BY <1>1, <2>1 DEF RootInv
  <2>4. QED
    BY <2>1, <2>2, <2>3 DEF RootInv, AtRoot
<1>2. CASE \/ AhbIdle \/ SoftResetSeen \/ HostMode \/ SetFifos \/ Flush \/ FlushSeen \/ TimesOut
  <2>1. UNCHANGED <<pc, rp, wire, hprt>> /\ at' \in {0, at + 1} /\ Phase \notin {"scan", "soft"}
    BY <1>2 DEF AhbIdle, SoftResetSeen, HostMode, SetFifos, Flush, FlushSeen, TimesOut, Step, vars
  <2>2. at # 2
    BY <2>1, PhaseFacts
  <2>3. QED
    BY <1>1, <2>1, <2>2
<1>3. CASE SoftReset
  <2>1. UNCHANGED <<pc, rp>> /\ at' = at + 1 /\ Phase # "scan" /\ ~wire'.up /\ ~wire'.changed
    BY <1>3 DEF SoftReset, Step, vars
  <2>2. QED
    BY <1>1, <2>1
<1>4. CASE PortPower
  <2>1. /\ UNCHANGED <<pc, rp, wire>> /\ at' = at + 1 /\ at = 15 /\ Phase # "scan"
        /\ hprt'.ena = hprt.ena /\ hprt'.conndet = hprt.conndet
    BY <1>4, PhaseFacts DEF PortPower, Step, vars, hprt0_port
  <2>2. QED
    BY <1>1, <2>1
\* A step while the walk rests.
<1>5. ASSUME UNCHANGED <<pc, stack, at>>,
             RootPortKept',
             Phase = "scan" \/ rp' = rp,
             rp = "done" => rp' = "done",
             (at >= 3 /\ rp' \in {"none", "cleared"}) => ~wire'.up
      PROVE  RootInv'
  <2>1. Phase' = Phase
    BY <1>5 DEF Phase
  <2>2. QED
    BY <1>5, <2>1 DEF RootInv, AtRoot
<1>6. CASE ClearConnectionChange
  <2>1. UNCHANGED <<pc, stack, at>> /\ rp = "none" /\ rp' = "cleared" /\ Phase = "scan" /\ at = 16
    BY <1>0, <1>6 DEF ClearConnectionChange, AtRoot, vars
  <2>2. ~wire.up /\ wire'.up = wire.up /\ ~wire'.changed
    BY <1>6, <2>1 DEF ClearConnectionChange, RootInv
  <2>3. QED
    BY <1>5, <2>1, <2>2 DEF RootPortKept
<1>7. CASE ResetPulse
  <2>1. UNCHANGED <<pc, stack, at, wire>> /\ rp = "cleared" /\ rp' = "pulse"
    BY <1>7 DEF ResetPulse, vars
  <2>2. hprt'.ena = hprt.ena /\ hprt'.conndet = hprt.conndet
    BY <1>7 DEF ResetPulse, hprt0_port
  <2>3. Phase = "scan"
    BY <2>1 DEF RootInv
  <2>4. QED
    BY <1>5, <2>1, <2>2, <2>3 DEF RootInv, RootPortKept
<1>8. CASE ResetRelease
  <2>1. at' = at /\ rp = "pulse" /\ rp' = "done"
    BY <1>8 DEF ResetRelease
  <2>2. hprt'.ena = hprt.ena /\ hprt'.conndet = hprt.conndet
        /\ wire'.up = wire.up /\ wire'.changed = wire.changed
    BY <1>8 DEF ResetRelease, hprt0_port
  <2>3. Phase = "scan" /\ Phase' = Phase
    BY <2>1 DEF RootInv, Phase
  <2>4. QED
    BY <2>1, <2>2, <2>3 DEF RootInv, RootPortKept, AtRoot
<1>9. CASE \/ WaitConnect \/ WaitConnectTimesOut \/ SkipPort \/ ResetHubPort
           \/ SeePortEnabled \/ SeePortDisabled \/ Walk
  <2>1. UNCHANGED <<at, hprt, rp, wire>> /\ Phase = "scan" /\ Phase' = Phase
    BY <1>9 DEF WaitConnect, WaitConnectTimesOut, SkipPort, ResetHubPort, SeePortEnabled,
       SeePortDisabled, Walk, Scan, Phase
  <2>2. ASSUME pc' = "after", Len(stack') = 1 PROVE rp = "done"
    <3>1. CASE PortReset
      <4>1. AtRoot("port")
        BY <2>1, <2>2, <3>1 DEF PortReset, AtRoot
      <4>2. /\ ~WaitConnect /\ ~WaitConnectTimesOut /\ ~SeePortEnabled /\ ~SeePortDisabled
            /\ ~Walk /\ ~ResetHubPort
        BY <3>1, <4>1 DEF PortReset, WaitConnect, BusConnect, WaitConnectTimesOut, BusEmpty,
           SeePortEnabled, PortEnabled, SeePortDisabled, PortNotEnabled, ResetHubPort, AtRoot,
           Walk, PortGivenUp, ProbeOk, ProbeError, SetAddressOk, SetAddressError,
           ConfigureOk, ConfigureError, DispatchHub, DispatchEmptyHub, DispatchCamera,
           DispatchError, DispatchIgnored
      <4>3. ~SkipPort
        <5>1. stack' = stack /\ given' = given /\ Child # None /\ pc' = "after"
          BY <3>1 DEF PortReset
        <5>2. SUFFICES ASSUME SkipPort PROVE FALSE
          OBVIOUS
        <5>3. Len(stack) = 1 /\ NotPresent
          BY <4>1, <5>2 DEF SkipPort, PortSkipped, AtRoot
        <5>4. HardError
          BY <5>3 DEF NotPresent
        <5>5. QED
          BY <5>1, <5>4 DEF HardError, Return
      <4>4. QED
        BY <1>9, <4>2, <4>3
    <3>2. CASE UNCHANGED <<pc, stack>>
      BY <2>1, <2>2, <3>2 DEF RootInv, AtRoot
    <3>3. Next
      BY <1>9 DEF WaitConnect, WaitConnectTimesOut, SkipPort, ResetHubPort, SeePortEnabled,
         SeePortDisabled, Walk, Next
    <3>4. QED
      BY <2>2, <3>1, <3>2, <3>3, AfterReset
  <2>3. QED
    BY <2>1, <2>2 DEF RootInv, RootPortKept, AtRoot
<1>10. CASE ResetDone \/ FlushDone
  <2>1. UNCHANGED <<pc, stack, at, rp, hprt, wire>>
    BY <1>10 DEF ResetDone, FlushDone, Hardware, vars
  <2>2. QED
    BY <1>5, <2>1 DEF RootInv, RootPortKept
<1>11. CASE Connect
  <2>1. UNCHANGED <<pc, stack, at, rp>>
    BY <1>11 DEF Connect, Hardware, vars
  <2>2. hprt'.ena = hprt.ena /\ hprt'.conndet /\ wire'.up = wire.up
    BY <1>11 DEF Connect
  <2>3. QED
    BY <1>5, <2>1, <2>2 DEF RootInv, RootPortKept
<1>12. CASE Enable
  <2>1. UNCHANGED <<pc, stack, at, rp>> /\ rp \in {"pulse", "done"}
    BY <1>12 DEF Enable, Hardware, vars, RootInv
  <2>2. hprt'.ena /\ hprt'.conndet = hprt.conndet /\ wire'.changed = wire.changed
    BY <1>12 DEF Enable
  <2>3. QED
    BY <1>5, <2>1, <2>2 DEF RootInv, RootPortKept
<1>13. CASE Unplug
  <2>1. UNCHANGED <<pc, stack, at, rp>>
    BY <1>13 DEF Unplug, Hardware, vars
  <2>2. ~wire'.up /\ (wire'.changed => wire.changed \/ hprt.conn)
    BY <1>13 DEF Unplug
  <2>3. /\ hprt.conn => hprt'.conndet
        /\ ~hprt.conn => hprt'.conndet = hprt.conndet
    BY <1>13 DEF Unplug
  <2>4. QED
    BY <1>5, <2>1, <2>2, <2>3 DEF RootInv, RootPortKept
<1>14. CASE UNCHANGED hostVars
  BY <1>14 DEF hostVars, vars, RootInv, RootPortKept, AtRoot, Phase
<1>15. QED
  BY <1>2, <1>3, <1>4, <1>6, <1>7, <1>8, <1>9, <1>10, <1>11, <1>12, <1>13, <1>14
     DEF HostNext, Driver

\* No access of the driver to HPRT0 disables an enabled root port or loses a
\* connection change that it has not acted on.
THEOREM RootPortIsKept == HostSpec => []RootPortKept
<1>1. HostInit => PortTypes /\ RootInv
  <2> SUFFICES ASSUME HostInit PROVE PortTypes /\ RootInv
    OBVIOUS
  <2>1. PortTypes
    <3> DEFINE plugged == Ports["root"][1] # None
    <3>1. HPRT0_OFF \in HprtType /\ plugged \in BOOLEAN
      BY DEF HPRT0_OFF, HprtType
    <3>2. hprt \in {HPRT0_OFF, [HPRT0_OFF EXCEPT !.pwr = TRUE, !.conn = plugged, !.ena = plugged]}
      BY DEF HostInit
    <3>3. hprt \in HprtType
      BY <3>1, <3>2 DEF HprtType
    <3>4. wire = [plugged |-> plugged, reset |-> FALSE, up |-> hprt.ena,
                  changed |-> FALSE, events |-> 0]
      BY DEF HostInit
    <3>5. wire \in WireType
      BY <3>1, <3>3, <3>4 DEF HprtType, WireType
    <3>6. QED
      BY <3>3, <3>5 DEF PortTypes
  <2>2. wire.up = hprt.ena /\ wire.changed = FALSE
    BY DEF HostInit
  <2>3. at = 1 /\ rp = "none" /\ pc = "bus" /\ Phase = "idle"
    BY DEF HostInit, Init, Phase, Phases
  <2>4. QED
    BY <2>1, <2>2, <2>3 DEF RootInv, RootPortKept, AtRoot
<1>2. HostInit => core \in CoreType /\ CoreInv
  BY BringUpBegins
<1>3. core \in CoreType /\ CoreInv /\ [HostNext]_hostVars => (core \in CoreType /\ CoreInv)'
  BY CoreStep
<1>4. CoreInv /\ PortTypes /\ RootInv /\ [HostNext]_hostVars => PortTypes' /\ RootInv'
  BY PortTypesStep, RootStep DEF CoreInv
<1>5. RootInv => RootPortKept
  BY DEF RootInv
<1>6. QED
  BY <1>1, <1>2, <1>3, <1>4, <1>5, PTL DEF HostSpec

-----------------------------------------------------------------------------
(* The stack of the walk *)

\* A set of indices has a largest one.
LEMMA LargestIndex ==
    ASSUME NEW n \in Nat, NEW T, T \subseteq 1..n, T # {}
    PROVE  \E m \in T : \A k \in T : k <= m
<1> DEFINE R == {n - i : i \in T}
<1>1. R \subseteq Nat /\ R # {}
  <2>1. \A i \in T : i \in 1..n
    OBVIOUS
  <2>2. \A i \in T : n - i \in Nat
    BY <2>1
  <2>3. PICK i \in T : TRUE
    OBVIOUS
  <2>4. n - i \in R
    BY <2>3
  <2>5. QED
    BY <2>2, <2>4
<1>2. PICK x \in R : \A y \in R : ~(<<y, x>> \in OpToRel(<, Nat))
  BY <1>1, NatLessThanWellFounded, WFMin
<1>3. PICK m \in T : x = n - m
  BY <1>2
<1>4. ASSUME NEW k \in T PROVE k <= m
  <2>1. n - k \in R /\ n - k \in Nat /\ x \in Nat
    BY <1>1
  <2>2. ~(n - k < x)
    BY <1>2, <2>1 DEF OpToRel
  <2>3. QED
    BY <1>3, <2>1, <2>2
<1>5. QED
  BY <1>4

\* What the walk finds at a port.
LEMMA PortFacts ==
    ASSUME NEW h \in DOMAIN Ports
    PROVE  /\ Len(Ports[h]) \in Nat /\ DOMAIN Ports[h] = 1..Len(Ports[h])
           /\ \A p \in 1..Len(Ports[h]) : Ports[h][p] \in Devices \cup {None}
  BY UsbTreeAssumption

\* Each level of the stack.
LEMMA LevelFacts ==
    ASSUME stack \in Seq(Frame), NEW i \in 1..Len(stack)
    PROVE  stack[i] \in Frame /\ stack[i].port \in Nat \ {0} /\ stack[i].hub \in DOMAIN Ports
<1>1. stack[i] \in Frame
  OBVIOUS
<1>2. QED
  BY <1>1 DEF Frame

LEMMA ChildType ==
    ASSUME StackInv, Len(stack) > 0
    PROVE  /\ Len(stack) \in Nat \ {0} /\ Top = stack[Len(stack)] /\ Top \in Frame
           /\ Top.hub \in DOMAIN Ports /\ Top.port \in 1..Len(Ports[Top.hub])
           /\ Child = At(Top) /\ Child \in Devices \cup {None}
<1>1. Len(stack) \in Nat \ {0} /\ Top = stack[Len(stack)] /\ Top \in Frame
  BY DEF StackInv, Top
<1>2. Top.hub \in DOMAIN Ports /\ Top.port \in Nat \ {0} /\ Top.port <= Len(Ports[Top.hub])
  BY <1>1 DEF StackInv, Frame
<1>3. Top.port \in 1..Len(Ports[Top.hub])
  BY <1>2, PortFacts
<1>4. QED
  BY <1>1, <1>2, <1>3, PortFacts DEF Child, At

\* Advance: either every level is at its last port, or the innermost level that is
\* not moves on and becomes the top.
AdvancedTo(i) ==
    /\ stack[i].port < Len(Ports[stack[i].hub])
    /\ \A j \in (i + 1)..Len(stack) : stack[j].port = Len(Ports[stack[j].hub])
    /\ stack' \in Seq(Frame) /\ Len(stack') = i
    /\ \A j \in 1..(i - 1) : stack'[j] = stack[j]
    /\ stack'[i].hub = stack[i].hub /\ stack'[i].port = stack[i].port + 1
    /\ pc' = "port" /\ result' = result

AdvancedOut ==
    /\ \A i \in 1..Len(stack) : stack[i].port = Len(Ports[stack[i].hub])
    /\ stack' = << >> /\ pc' = "end" /\ result' = "ok"

LEMMA AdvanceCases ==
    ASSUME StackInv, Advance
    PROVE  AdvancedOut \/ \E i \in 1..Len(stack) : AdvancedTo(i)
<1> DEFINE more == {i \in 1..Len(stack) : stack[i].port < Len(Ports[stack[i].hub])}
<1>0. /\ Len(stack) \in Nat /\ stack \in Seq(Frame)
      /\ \A i \in 1..Len(stack) :
            /\ stack[i] \in Frame /\ stack[i].port \in Nat \ {0} /\ stack[i].hub \in DOMAIN Ports
            /\ Len(Ports[stack[i].hub]) \in Nat
            /\ i \notin more => stack[i].port = Len(Ports[stack[i].hub])
  <2>1. \A i \in 1..Len(stack) :
            stack[i] \in Frame /\ stack[i].port \in Nat \ {0} /\ stack[i].hub \in DOMAIN Ports
    BY LevelFacts DEF StackInv
  <2>2. QED
    BY <2>1, PortFacts DEF StackInv
<1>1. CASE more = {}
  <2>1. AdvancedOut
    BY <1>0, <1>1 DEF Advance, Return, AdvancedOut
  <2>2. QED
    BY <2>1
<1>2. CASE more # {}
  <2> DEFINE i == CHOOSE n \in more : \A m \in more : m <= n
  <2>1. i \in more /\ \A m \in more : m <= i
    BY <1>0, <1>2, LargestIndex
  <2>2. /\ stack' = [SubSeq(stack, 1, i) EXCEPT ![i].port = @ + 1]
        /\ pc' = "port" /\ result' = result
    BY <1>2 DEF Advance
  <2> HIDE DEF i
  <2>3. i \in 1..Len(stack) /\ stack[i].port < Len(Ports[stack[i].hub])
    BY <2>1
  <2>4. \A j \in (i + 1)..Len(stack) : stack[j].port = Len(Ports[stack[j].hub])
    BY <1>0, <2>1, <2>3
  <2> DEFINE s == SubSeq(stack, 1, i)
  <2>5. s \in Seq(Frame) /\ Len(s) = i /\ \A j \in 1..i : s[j] = stack[j]
    BY <1>0, <2>3
  <2>6. /\ stack' \in Seq(Frame) /\ Len(stack') = i
        /\ \A j \in 1..(i - 1) : stack'[j] = stack[j]
        /\ stack'[i] = [stack[i] EXCEPT !.port = @ + 1]
    <3>1. [stack[i] EXCEPT !.port = @ + 1] \in Frame
      BY <1>0, <2>3 DEF Frame
    <3>2. stack' = [s EXCEPT ![i] = [stack[i] EXCEPT !.port = @ + 1]]
      <4>1. s[i] = stack[i]
        BY <2>3, <2>5
      <4>2. stack' = [s EXCEPT ![i] = [s[i] EXCEPT !.port = s[i].port + 1]]
        BY <2>2
      <4>3. QED
        BY <4>1, <4>2
    <3> HIDE DEF s
    <3>3. QED
      BY <2>3, <2>5, <3>1, <3>2
  <2>7. stack'[i].hub = stack[i].hub /\ stack'[i].port = stack[i].port + 1
    BY <1>0, <2>3, <2>6 DEF Frame
  <2>8. QED
    BY <2>2, <2>3, <2>4, <2>6, <2>7 DEF AdvancedTo
<1>3. QED
  BY <1>1, <1>2

LEMMA AdvanceStack ==
    ASSUME StackInv, Advance
    PROVE  StackInv'
<1>0. Busy \cap {"port", "end"} = {}
  BY DEF Busy
<1>1. CASE AdvancedOut
  BY <1>0, <1>1 DEF AdvancedOut, StackInv
<1>2. ASSUME NEW i \in 1..Len(stack), AdvancedTo(i) PROVE StackInv'
  <2>0. /\ Len(stack) \in Nat /\ i \in Nat \ {0} /\ stack' \in Seq(Frame) /\ Len(stack') = i
        /\ \A j \in 1..(i - 1) : stack'[j] = stack[j]
        /\ stack'[i].hub = stack[i].hub /\ stack'[i].port = stack[i].port + 1
        /\ stack[i].port < Len(Ports[stack[i].hub]) /\ pc' = "port"
    BY <1>2 DEF AdvancedTo, StackInv
  <2>1. \A j \in 1..i : stack'[j].hub = stack[j].hub
    BY <2>0
  <2>2. \A j \in 1..i : stack'[j].port <= Len(Ports[stack'[j].hub])
    <3>1. \A j \in 1..(i - 1) : stack'[j].port <= Len(Ports[stack'[j].hub])
      BY <2>0 DEF StackInv
    <3>2. stack'[i].port <= Len(Ports[stack'[i].hub])
      <4>1. stack[i].port \in Nat /\ stack[i].hub \in DOMAIN Ports
        BY LevelFacts DEF StackInv
      <4>2. QED
        BY <2>0, <4>1, PortFacts
    <3>3. QED
      BY <2>0, <3>1, <3>2
  <2>3. \A j \in 1..(i - 1) : stack'[j + 1].hub = At(stack'[j])
    <3>1. \A j \in 1..(i - 1) : stack[j + 1].hub = At(stack[j])
      BY <2>0 DEF StackInv
    <3>2. QED
      BY <2>0, <2>1, <3>1 DEF At
  <2>4. \A j, k \in 1..i : stack'[j].hub = stack'[k].hub => j = k
    BY <2>0, <2>1 DEF StackInv
  <2>5. stack'[1].hub = "root"
    BY <2>0, <2>1 DEF StackInv
  <2>6. QED
    BY <1>0, <2>0, <2>2, <2>3, <2>4, <2>5 DEF StackInv
<1>3. QED
  BY <1>1, <1>2, AdvanceCases

\* A failure behind a port ends the walk or moves it on.
LEMMA NotPresentCases ==
    ASSUME NotPresent
    PROVE  /\ \/ HardError /\ Len(stack) = 1
              \/ Advance /\ UNCHANGED <<camera, opened>>
           /\ given' = IF Child = None THEN given ELSE given \cup {Child}
  BY DEF NotPresent

\* Every position of the tree holds a device of its own.
LEMMA OnePlace ==
    ASSUME NEW h \in DOMAIN Ports, NEW g \in DOMAIN Ports,
           NEW p \in 1..Len(Ports[h]), NEW q \in 1..Len(Ports[g]),
           Ports[h][p] = Ports[g][q], Ports[h][p] # None
    PROVE  h = g /\ p = q
  BY PortFacts, UsbTreeAssumption

\* A hub that is about to be walked is not being walked already.
LEMMA NewLevel ==
    ASSUME StackInv, Len(stack) > 0, Child \in Hubs, NEW i \in 1..Len(stack)
    PROVE  stack[i].hub # Child
<1> SUFFICES ASSUME stack[i].hub = Child PROVE FALSE
  OBVIOUS
<1>1. Child \in Devices /\ Child # None /\ Child # "root"
  BY UsbTreeAssumption
<1>2. i # 1
  BY <1>1 DEF StackInv
<1> DEFINE j == i - 1
<1>3. Len(stack) \in Nat /\ j \in 1..(Len(stack) - 1) /\ j \in 1..Len(stack) /\ j + 1 = i
  BY <1>2 DEF StackInv
<1> HIDE DEF j
<1>4. Child = Ports[stack[j].hub][stack[j].port]
  BY <1>3 DEF StackInv, At
<1>5. stack[j].hub \in DOMAIN Ports /\ stack[j].port \in 1..Len(Ports[stack[j].hub])
  BY <1>3, LevelFacts, PortFacts DEF StackInv
<1>6. stack[j].hub = Top.hub
  BY <1>1, <1>4, <1>5, ChildType, OnePlace DEF At
<1>7. j = Len(stack)
  BY <1>3, <1>6, ChildType DEF StackInv
<1>8. QED
  BY <1>3, <1>7

LEMMA StackStep ==
    ASSUME StackInv, [Next]_vars
    PROVE  StackInv'
<1>0. {"end", "bus", "port"} \cap Busy = {} /\ Busy \cap {"end", "bus", "port"} = {}
  BY DEF Busy
<1>1. ASSUME stack' = stack, pc' = "end" PROVE StackInv'
  BY <1>0, <1>1 DEF StackInv
<1>2. ASSUME stack' = stack, pc \in Busy, pc' \in Busy PROVE StackInv'
  <2>1. Child' = Child
    BY <1>2 DEF Child, Top
  <2>2. QED
    BY <1>0, <1>2, <2>1 DEF StackInv
<1>3. CASE BusConnect
  <2> DEFINE f == [hub |-> "root", port |-> 1]
  <2>1. f \in Frame /\ f.hub = "root" /\ f.port = 1
    BY UsbTreeAssumption DEF Frame
  <2>2. stack' = <<f>> /\ pc' = "port"
    BY <1>3 DEF BusConnect
  <2> HIDE DEF f
  <2>3. stack' \in Seq(Frame) /\ Len(stack') = 1 /\ stack'[1] = f
    BY <2>1, <2>2
  <2>4. stack'[1].port <= Len(Ports[stack'[1].hub])
    BY <2>1, <2>3, UsbTreeAssumption
  <2>5. QED
    BY <1>0, <2>1, <2>2, <2>3, <2>4 DEF StackInv
<1>4. CASE \/ BusEmpty \/ ProbeError \/ SetAddressError \/ ConfigureError \/ DispatchError
  BY <1>1, <1>4 DEF BusEmpty, ProbeError, SetAddressError, ConfigureError, DispatchError,
     HardError, Return
<1>5. CASE \/ PortSkipped \/ PortNotEnabled \/ PortGivenUp
  <2>1. NotPresent
    BY <1>5 DEF PortSkipped, PortNotEnabled, PortGivenUp
  <2>2. QED
    BY <1>1, <2>1, NotPresentCases, AdvanceStack DEF HardError, Return
<1>6. CASE PortReset
  <2>1. Child' = Child /\ Child # None /\ stack' = stack /\ pc' = "after" /\ pc = "port"
    BY <1>6 DEF PortReset, Child, Top
  <2>2. QED
    BY <2>1 DEF StackInv, Busy
<1>7. CASE PortEnabled \/ ProbeOk \/ SetAddressOk \/ ConfigureOk
  BY <1>2, <1>7 DEF PortEnabled, ProbeOk, SetAddressOk, ConfigureOk, Busy
<1>8. CASE DispatchHub
  <2> DEFINE f == [hub |-> Child, port |-> 1]
  <2> DEFINE n == Len(stack)
  <2>0. pc = "dispatch" /\ Child \in Hubs /\ Len(Ports[Child]) > 0 /\ pc' = "port"
        /\ stack' = Append(stack, f)
    BY <1>8 DEF DispatchHub
  <2>1. Child \in DOMAIN Ports /\ Len(Ports[Child]) \in Nat
    BY <2>0, PortFacts DEF Hubs
  <2>2. f \in Frame /\ f.hub = Child /\ f.port = 1
    BY <2>1 DEF Frame
  <2> HIDE DEF f
  <2>3. n > 0 /\ stack \in Seq(Frame)
    BY <2>0 DEF StackInv, Busy
  <2>4. /\ stack' \in Seq(Frame) /\ Len(stack') = n + 1 /\ stack'[n + 1] = f /\ n \in Nat
        /\ \A i \in 1..n : stack'[i] = stack[i]
    BY <2>0, <2>2, <2>3
  <2> HIDE DEF n
  <2>5. \A i \in 1..(n + 1) : i \in 1..n \/ i = n + 1
    BY <2>4
  <2>6. \A i \in 1..(n + 1) : stack'[i].port <= Len(Ports[stack'[i].hub])
    <3>1. \A i \in 1..n : stack'[i].port <= Len(Ports[stack'[i].hub])
      BY <2>4 DEF StackInv, n
    <3>2. stack'[n + 1].port <= Len(Ports[stack'[n + 1].hub])
      BY <2>0, <2>1, <2>2, <2>4
    <3>3. QED
      BY <2>5, <3>1, <3>2
  <2>7. stack'[1].hub = "root"
    BY <2>3, <2>4 DEF StackInv, n
  <2>8. \A i \in 1..n : stack'[i + 1].hub = At(stack'[i])
    <3>1. \A i \in 1..(n - 1) : stack'[i + 1].hub = At(stack'[i])
      <4>1. \A i \in 1..(n - 1) : i \in 1..n /\ i + 1 \in 1..n
        BY <2>4
      <4>2. \A i \in 1..(n - 1) : stack[i + 1].hub = At(stack[i])
        BY DEF StackInv, n
      <4>3. QED
        BY <2>4, <4>1, <4>2
    <3>2. stack'[n + 1].hub = At(stack'[n])
      <4>1. stack'[n] = Top
        BY <2>3, <2>4 DEF Top, n
      <4>2. Child = At(Top)
        BY <2>3, ChildType DEF n
      <4>3. QED
        BY <2>2, <2>4, <4>1, <4>2
    <3>3. \A i \in 1..n : i \in 1..(n - 1) \/ i = n
      BY <2>4
    <3>4. QED
      BY <3>1, <3>2, <3>3
  <2>9. \A i, j \in 1..(n + 1) : stack'[i].hub = stack'[j].hub => i = j
    <3>1. \A i \in 1..n : stack[i].hub # Child
      BY <2>0, <2>3, NewLevel DEF n
    <3>2. \A i, j \in 1..n : stack[i].hub = stack[j].hub => i = j
      BY DEF StackInv, n
    <3>3. QED
      BY <2>2, <2>4, <2>5, <3>1, <3>2
  <2>10. \A i \in 1..(Len(stack') - 1) : i \in 1..n
    BY <2>4
  <2>11. QED
    BY <1>0, <2>0, <2>4, <2>6, <2>7, <2>8, <2>9, <2>10 DEF StackInv
<1>9. CASE DispatchEmptyHub \/ DispatchCamera \/ DispatchIgnored
  BY <1>9, AdvanceStack DEF DispatchEmptyHub, DispatchCamera, DispatchIgnored
<1>10. CASE UNCHANGED vars
  <2>1. UNCHANGED <<pc, stack>> /\ Child' = Child
    BY <1>10 DEF vars, Child, Top
  <2>2. QED
    BY <2>1 DEF StackInv
<1>11. QED
  BY <1>3, <1>4, <1>5, <1>6, <1>7, <1>8, <1>9, <1>10 DEF Next

-----------------------------------------------------------------------------
(* Addresses *)

\* Where Advance leads.
LEMMA AdvanceEnds ==
    ASSUME StackInv, Advance
    PROVE  pc' \in {"port", "end"}
  BY AdvanceCases DEF AdvancedTo, AdvancedOut

LEMMA NotPresentEnds ==
    ASSUME StackInv, NotPresent
    PROVE  pc' \in {"port", "end"}
  BY NotPresentCases, AdvanceEnds DEF HardError, Return

LEMMA AddrStep ==
    ASSUME StackInv, AddrInv, [Next]_vars
    PROVE  AddrInv'
<1>0. /\ None \notin Nat /\ MAX_USB_ADDR \in Nat \ {0}
      /\ nextAddr \in Nat \ {0} /\ nextAddr <= MAX_USB_ADDR /\ 0 # None
      /\ \A d \in Devices : addr[d] \in Nat \cup {None}
  <2>1. None \notin Nat /\ MAX_USB_ADDR \in Nat \ {0}
    BY UsbTreeAssumption
  <2>2. nextAddr \in Nat \ {0} /\ nextAddr <= MAX_USB_ADDR
    BY <2>1 DEF AddrInv
  <2>3. \A d \in Devices : addr[d] \in Nat \cup {None}
    BY DEF AddrInv
  <2>4. QED
    BY <2>1, <2>2, <2>3
\* Steps that move the walk and leave the devices at their addresses.
<1>1. ASSUME UNCHANGED <<addr, nextAddr>>, late' \in {late, late \cup {Child}},
             \/ pc' = "end"
             \/ pc' = "port" /\ \A d \in Devices \ late' : addr[d] # 0
      PROVE  AddrInv'
  BY <1>0, <1>1 DEF AddrInv
<1>2. ASSUME pc \in {"after", "probe", "address", "configure", "dispatch"}
      PROVE  Child \in Devices
  <2>1. Len(stack) > 0 /\ Child # None
    BY <1>2 DEF StackInv, Busy
  <2>2. QED
    BY <2>1, ChildType
<1>3. CASE BusConnect \/ BusEmpty
  BY <1>1, <1>3 DEF BusConnect, BusEmpty, Return, AddrInv, devVars
<1>4. CASE PortSkipped
  <2>1. pc' \in {"port", "end"} /\ UNCHANGED <<addr, nextAddr, late>> /\ pc = "port"
    BY <1>4, NotPresentEnds DEF PortSkipped, devVars
  <2>2. \A d \in Devices \ late : addr[d] # 0
    BY <2>1 DEF AddrInv
  <2>3. QED
    BY <1>1, <2>1, <2>2
<1>5. CASE PortReset
  <2>1. /\ pc = "port" /\ pc' = "after" /\ Child # None /\ UNCHANGED <<stack, nextAddr, late>>
        /\ addr' = [addr EXCEPT ![Child] = 0] /\ Child' = Child
    BY <1>5 DEF PortReset, Child, Top
  <2>2. Child \in Devices
    BY <2>1, ChildType DEF StackInv
  <2>3. \A d \in Devices \ late : addr[d] # 0
    BY <2>1 DEF AddrInv
  <2>4. addr' \in [Devices -> Nat \cup {None}]
    BY <2>1, <2>2 DEF AddrInv
  <2>5. addr'[Child] = 0 /\ \A d \in Devices \ {Child} : addr'[d] = addr[d]
    BY <2>1, <2>2 DEF AddrInv
  <2>6. \A d \in Devices : addr'[d] # None => addr'[d] < nextAddr
    BY <1>0, <2>5 DEF AddrInv
  <2>7. \A d, e \in Devices \ late : (d # e /\ addr'[d] # None) => addr'[d] # addr'[e]
    BY <2>3, <2>5 DEF AddrInv
  <2>8. \A d \in Devices \ late : addr'[d] = 0 => d = Child
    BY <2>3, <2>5
  <2>9. QED
    BY <2>1, <2>4, <2>5, <2>6, <2>7, <2>8 DEF AddrInv
<1>6. CASE PortNotEnabled
  <2>1. /\ pc = "after" /\ pc' \in {"port", "end"} /\ UNCHANGED <<nextAddr, late>>
        /\ addr' = [addr EXCEPT ![Child] = None]
    BY <1>6, NotPresentEnds DEF PortNotEnabled
  <2>2. Child \in Devices
    BY <1>2, <2>1
  <2>3. addr' \in [Devices -> Nat \cup {None}]
    BY <2>1 DEF AddrInv
  <2>4. addr'[Child] = None /\ \A d \in Devices \ {Child} : addr'[d] = addr[d]
    BY <2>1, <2>2 DEF AddrInv
  <2>5. \A d \in Devices : addr'[d] # None => addr'[d] < nextAddr
    BY <2>4 DEF AddrInv
  <2>6. \A d, e \in Devices \ late : (d # e /\ addr'[d] # None) => addr'[d] # addr'[e]
    BY <2>4 DEF AddrInv
  <2>7. \A d \in Devices \ late : addr'[d] # 0
    BY <1>0, <2>1, <2>4 DEF AddrInv
  <2>8. QED
    BY <2>1, <2>3, <2>5, <2>6, <2>7 DEF AddrInv
<1>7. CASE PortGivenUp
  <2>1. /\ pc = "after" /\ pc' \in {"port", "end"} /\ UNCHANGED <<addr, nextAddr>>
        /\ late' = late \cup {Child}
    BY <1>7, NotPresentEnds DEF PortGivenUp, devVars
  <2>2. \A d \in Devices \ late' : addr[d] # 0
    BY <2>1 DEF AddrInv
  <2>3. QED
    BY <1>1, <2>1, <2>2
<1>8. CASE PortEnabled \/ ProbeOk
  <2>1. /\ UNCHANGED <<stack, nextAddr, addr, late>> /\ Child' = Child
        /\ pc \in {"after", "probe"} /\ pc' \in {"probe", "address"}
        /\ pc' = "address" => nextAddr < MAX_USB_ADDR
    BY <1>8 DEF PortEnabled, ProbeOk, devVars, Child, Top
  <2>2. QED
    BY <2>1 DEF AddrInv
\* The device at hand, and no other that is not given up, takes the new address.
<1>9. ASSUME pc = "address",
             addr' = [d \in Devices |-> IF addr[d] = 0 THEN nextAddr ELSE addr[d]],
             nextAddr' = nextAddr + 1
      PROVE  /\ nextAddr' \in 1..MAX_USB_ADDR
             /\ addr' \in [Devices -> Nat \cup {None}]
             /\ \A d \in Devices : addr'[d] # None => addr'[d] < nextAddr'
             /\ \A d, e \in Devices \ late : (d # e /\ addr'[d] # None) => addr'[d] # addr'[e]
             /\ \A d \in Devices \ late : addr'[d] # 0
             /\ addr'[Child] = nextAddr
             /\ \A d \in Devices \ late : addr'[d] = nextAddr => d = Child
  <2>1. \A d \in Devices : addr'[d] = IF addr[d] = 0 THEN nextAddr ELSE addr[d]
    BY <1>9
  <2>2. nextAddr < MAX_USB_ADDR
    BY <1>9 DEF AddrInv
  <2>3. nextAddr' \in 1..MAX_USB_ADDR
    BY <1>0, <1>9, <2>2
  <2>4. addr' \in [Devices -> Nat \cup {None}]
    BY <1>0, <1>9
  <2>5. \A d \in Devices : addr[d] # None => addr[d] < nextAddr /\ addr[d] # nextAddr
    BY <1>0 DEF AddrInv
  <2>6. \A d \in Devices : addr'[d] # None => addr'[d] < nextAddr'
    BY <1>0, <1>9, <2>1, <2>5
  <2>7. \A d \in Devices \ late : addr[d] = 0 => d = Child
    BY <1>9 DEF AddrInv
  <2>8. \A d \in Devices \ late : addr'[d] # 0
    BY <1>0, <2>1
  <2>9. addr'[Child] = nextAddr
    BY <1>2, <1>9, <2>1 DEF AddrInv
  <2>10. nextAddr # None
    BY <1>0
  <2>11. \A d \in Devices \ late : addr'[d] = nextAddr => d = Child
    BY <2>1, <2>5, <2>7, <2>10
  <2>12. ASSUME NEW d \in Devices \ late, NEW e \in Devices \ late, d # e, addr'[d] # None
         PROVE  addr'[d] # addr'[e]
    <3>1. CASE addr[d] = 0
      BY <2>1, <2>11, <2>12, <3>1
    <3>2. CASE addr[e] = 0
      BY <2>1, <2>11, <2>12, <3>2
    <3>3. CASE addr[d] # 0 /\ addr[e] # 0
      BY <2>1, <2>12, <3>3 DEF AddrInv
    <3>4. QED
      BY <3>1, <3>2, <3>3
  <2>13. QED
    BY <2>3, <2>4, <2>6, <2>8, <2>9, <2>11, <2>12
<1>10. CASE SetAddressOk
  <2>1. /\ pc = "address" /\ pc' = "configure" /\ handle' = nextAddr /\ late' = late
        /\ addr' = [d \in Devices |-> IF addr[d] = 0 THEN nextAddr ELSE addr[d]]
        /\ nextAddr' = nextAddr + 1 /\ Child' = Child
    BY <1>10 DEF SetAddressOk, Child, Top
  <2>2. QED
    BY <1>9, <2>1 DEF AddrInv
<1>11. CASE SetAddressError
  <2>1. /\ pc = "address" /\ pc' = "end" /\ late' = late /\ nextAddr' = nextAddr + 1
        /\ \/ addr' = [d \in Devices |-> IF addr[d] = 0 THEN nextAddr ELSE addr[d]]
           \/ addr' = addr
    BY <1>11 DEF SetAddressError, HardError, Return
  <2>2. CASE addr' = addr
    <3>1. nextAddr' \in 1..MAX_USB_ADDR
      BY <1>0, <2>1 DEF AddrInv
    <3>2. \A d \in Devices : addr'[d] # None => addr'[d] < nextAddr'
      BY <1>0, <2>1, <2>2 DEF AddrInv
    <3>3. QED
      BY <2>1, <2>2, <3>1, <3>2 DEF AddrInv
  <2>3. CASE addr' = [d \in Devices |-> IF addr[d] = 0 THEN nextAddr ELSE addr[d]]
    BY <1>9, <2>1, <2>3 DEF AddrInv
  <2>4. QED
    BY <2>1, <2>2, <2>3
<1>12. CASE ConfigureOk
  BY <1>12 DEF ConfigureOk, AddrInv
<1>13. CASE ProbeError \/ ConfigureError \/ DispatchError
  BY <1>1, <1>13 DEF ProbeError, ConfigureError, DispatchError, HardError, Return, devVars
<1>14. CASE DispatchHub \/ DispatchEmptyHub \/ DispatchCamera \/ DispatchIgnored
  <2>1. pc = "dispatch" /\ pc' \in {"port", "end"} /\ UNCHANGED <<addr, nextAddr, late>>
    BY <1>14, AdvanceEnds DEF DispatchHub, DispatchEmptyHub, DispatchCamera, DispatchIgnored, devVars
  <2>2. \A d \in Devices \ late : addr[d] # 0
    BY <2>1 DEF AddrInv
  <2>3. QED
    BY <1>1, <2>1, <2>2
<1>15. CASE UNCHANGED vars
  <2>1. UNCHANGED <<pc, addr, nextAddr, late, handle>> /\ Child' = Child
    BY <1>15 DEF vars, devVars, Child, Top
  <2>2. QED
    BY <2>1 DEF AddrInv
<1>16. QED
  BY <1>3, <1>4, <1>5, <1>6, <1>7, <1>8, <1>10, <1>11, <1>12, <1>13, <1>14, <1>15 DEF Next

LEMMA WalkBegins == Init => StackInv /\ AddrInv
<1> SUFFICES ASSUME Init PROVE StackInv /\ AddrInv
  OBVIOUS
<1>1. stack = << >> /\ pc = "bus" /\ nextAddr = 1
  BY DEF Init
<1>2. StackInv
  BY <1>1 DEF StackInv, Busy
<1>3. \A d \in Devices : addr[d] = None
  BY DEF Init
<1>4. AddrInv
  BY <1>1, <1>3, UsbTreeAssumption DEF Init, AddrInv
<1>5. QED
  BY <1>2, <1>4

\* Whatever transfer fails and whatever port is given up, two devices that the
\* driver has not given up never listen at the same address, and no address is
\* beyond the ones there are (device.rs, enumerate; hub.rs, enumerate_child).
THEOREM AddressesStayValid == Spec => []AddressesValid
<1>1. Init => StackInv /\ AddrInv
  BY WalkBegins
<1>2. StackInv /\ AddrInv /\ [Next]_vars => (StackInv /\ AddrInv)'
  BY StackStep, AddrStep
<1>3. AddrInv => AddressesValid
  <2> SUFFICES ASSUME AddrInv, NEW d \in Devices, addr[d] # None
               PROVE  addr[d] < MAX_USB_ADDR
    BY DEF AddrInv, AddressesValid
  <2>1. addr[d] \in Nat /\ addr[d] < nextAddr
    BY DEF AddrInv
  <2>2. QED
    BY <2>1, UsbTreeAssumption DEF AddrInv
<1>4. QED
  BY <1>1, <1>2, <1>3, PTL DEF Spec

-----------------------------------------------------------------------------
(* The walk misses no port *)

\* A hub all of whose ports are done.
HubDone(h) == \A p \in DOMAIN Ports[h] : Ports[h][p] \in Done

\* ... after the step.
DoneAfter(h) == \A p \in DOMAIN Ports[h] : Ports[h][p] \in Done'

OnStack(h) == \E i \in 1..Len(stack) : stack[i].hub = h

\* The part of WalkInv that holds until the walk ends.
Progress ==
    /\ \A i \in 1..Len(stack) :
          \A p \in 1..(stack[i].port - 1) : Ports[stack[i].hub][p] \in Done
    /\ \A i \in 1..(Len(stack) - 1) : At(stack[i]) \in Done
    /\ pc = "dispatch" => Child \in ready
    /\ \A h \in (ready \cap Hubs) \ given :
          OnStack(h) \/ (pc = "dispatch" /\ h = Child) \/ HubDone(h)

LEMMA WalkParts ==
    WalkInv <=> /\ late \subseteq given
                /\ pc = "bus" => ready = {}
                /\ pc = "end" <=> result # "none"
                /\ pc # "end" => Progress
                /\ CompleteWalk
  BY DEF WalkInv, Progress, HubDone, OnStack

\* An error ends the walk without a claim.
LEMMA WalkFails ==
    ASSUME pc' = "end", result' = "error", late' \subseteq given'
    PROVE  WalkInv'
  BY DEF WalkInv, CompleteWalk

\* Moving on from a port that is done leaves only done ports behind.
LEMMA AdvanceWalk ==
    ASSUME StackInv, WalkInv, Advance, Len(stack) > 0, pc # "end",
           Child \in Done', ready' = ready, given \subseteq given', late' \subseteq given',
           pc = "dispatch" /\ Child \in Hubs => HubDone(Child)
    PROVE  WalkInv'
<1>0. /\ stack \in Seq(Frame) /\ Len(stack) \in Nat \ {0} /\ Done \subseteq Done'
      /\ Progress /\ result = "none"
  BY WalkParts DEF StackInv, Done
<1>1. ASSUME NEW j \in 1..Len(stack) PROVE At(stack[j]) \in Done'
  <2>1. CASE j = Len(stack)
    BY <2>1, ChildType
  <2>2. CASE j \in 1..(Len(stack) - 1)
    BY <1>0, <2>2 DEF Progress
  <2>3. QED
    BY <1>0, <2>1, <2>2
\* The ports up to and including the one at hand.
<1>2. ASSUME NEW j \in 1..Len(stack), NEW p \in 1..stack[j].port
      PROVE  Ports[stack[j].hub][p] \in Done'
  <2>1. stack[j].port \in Nat
    BY <1>0, LevelFacts
  <2>2. CASE p = stack[j].port
    BY <1>1, <2>2 DEF At
  <2>3. CASE p \in 1..(stack[j].port - 1)
    BY <1>0, <2>3 DEF Progress
  <2>4. QED
    BY <2>1, <2>2, <2>3
<1>3. ASSUME NEW j \in 1..Len(stack), stack[j].port = Len(Ports[stack[j].hub])
      PROVE  DoneAfter(stack[j].hub)
  <2>1. DOMAIN Ports[stack[j].hub] = 1..stack[j].port
    BY <1>0, <1>3, LevelFacts, PortFacts
  <2>2. QED
    BY <1>2, <2>1 DEF DoneAfter
<1>4. \A h \in (ready' \cap Hubs) \ given' : OnStack(h) \/ DoneAfter(h)
  <2> SUFFICES ASSUME NEW h \in (ready' \cap Hubs) \ given', ~OnStack(h) PROVE DoneAfter(h)
    OBVIOUS
  <2>1. HubDone(h)
    <3>1. h \in (ready \cap Hubs) \ given
      OBVIOUS
    <3>2. (pc = "dispatch" /\ h = Child) \/ HubDone(h)
      BY <1>0, <3>1 DEF Progress
    <3>3. QED
      BY <3>1, <3>2
  <2>2. QED
    BY <1>0, <2>1 DEF HubDone, DoneAfter
<1>5. CASE AdvancedOut
  <2>1. \A j \in 1..Len(stack) : DoneAfter(stack[j].hub)
    BY <1>3, <1>5 DEF AdvancedOut
  <2>2. DoneAfter("root")
    BY <1>0, <2>1 DEF StackInv
  <2>3. \A h \in (ready' \cap Hubs) \ given' : DoneAfter(h)
    BY <1>4, <2>1 DEF OnStack
  <2>4. CompleteWalk'
    BY <2>2, <2>3 DEF CompleteWalk, DoneAfter, Done
  <2>5. QED
    BY <1>5, <2>4 DEF AdvancedOut, WalkInv
<1>6. ASSUME NEW i \in 1..Len(stack), AdvancedTo(i) PROVE WalkInv'
  <2>0. /\ i \in Nat \ {0} /\ Len(stack') = i /\ pc' = "port" /\ result' = "none"
        /\ \A j \in (i + 1)..Len(stack) : stack[j].port = Len(Ports[stack[j].hub])
        /\ \A j \in 1..(i - 1) : stack'[j] = stack[j]
        /\ stack'[i].hub = stack[i].hub /\ stack'[i].port = stack[i].port + 1
        /\ stack[i].port \in Nat
    BY <1>0, <1>6, LevelFacts DEF AdvancedTo
  <2>1. \A j \in 1..i : j \in 1..Len(stack) /\ (j = i \/ j \in 1..(i - 1))
    BY <1>0, <2>0
  <2>2. \A j \in 1..i : stack'[j].hub = stack[j].hub
    BY <2>0, <2>1
  <2>3. \A j \in 1..i : \A p \in 1..(stack'[j].port - 1) : Ports[stack'[j].hub][p] \in Done'
    <3>1. ASSUME NEW p \in 1..(stack'[i].port - 1) PROVE Ports[stack'[i].hub][p] \in Done'
      <4>1. p \in 1..stack[i].port
        BY <2>0
      <4>2. QED
        BY <1>2, <2>0, <4>1
    <3>2. ASSUME NEW j \in 1..(i - 1), NEW p \in 1..(stack'[j].port - 1)
          PROVE  Ports[stack'[j].hub][p] \in Done'
      <4>1. j \in 1..Len(stack) /\ stack'[j] = stack[j]
        BY <2>0, <1>0
      <4>2. Ports[stack[j].hub][p] \in Done
        BY <1>0, <4>1 DEF Progress
      <4>3. QED
        BY <1>0, <4>1, <4>2
    <3>3. QED
      BY <2>1, <3>1, <3>2
  <2>4. \A j \in 1..(i - 1) : At(stack'[j]) \in Done'
    BY <1>0, <1>1, <2>0
  <2>5. \A h \in (ready' \cap Hubs) \ given' : OnStack(h)' \/ DoneAfter(h)
    <3> SUFFICES ASSUME NEW h \in (ready' \cap Hubs) \ given', OnStack(h), ~OnStack(h)'
                 PROVE  DoneAfter(h)
      BY <1>4
    <3>1. PICK j \in 1..Len(stack) : stack[j].hub = h
      BY DEF OnStack
    <3>2. j \notin 1..i
      BY <2>0, <2>2, <3>1 DEF OnStack
    <3>3. j \in (i + 1)..Len(stack)
      BY <1>0, <2>0, <3>2
    <3>4. QED
      BY <1>3, <2>0, <3>1, <3>3
  <2>6. Progress'
    BY <2>0, <2>3, <2>4, <2>5 DEF Progress, HubDone, DoneAfter
  <2>7. QED
    BY <2>0, <2>6 DEF WalkInv, CompleteWalk, Progress, HubDone, OnStack
<1>7. QED
  BY <1>5, <1>6, AdvanceCases

\* A port that is skipped: its device, if any, is given up.
LEMMA NotPresentWalk ==
    ASSUME StackInv, WalkInv, NotPresent, Len(stack) > 0, pc \in {"port", "after"},
           ready' = ready, late' \in {late, late \cup {Child}}, pc = "port" => late' = late
    PROVE  WalkInv'
<1>1. given' = IF Child = None THEN given ELSE given \cup {Child}
  BY NotPresentCases
<1>2. Child \in Done' /\ given \subseteq given'
  BY <1>1 DEF Done
<1>3. late' \subseteq given'
  <2>1. late \subseteq given
    BY WalkParts
  <2>2. CASE pc = "port"
    BY <1>2, <2>1, <2>2
  <2>3. CASE pc = "after"
    BY <1>1, <2>1, <2>3 DEF StackInv, Busy
  <2>4. QED
    BY <2>2, <2>3
<1>4. CASE HardError
  BY <1>3, <1>4, WalkFails DEF HardError, Return
<1>5. CASE Advance
  BY <1>2, <1>3, <1>5, AdvanceWalk
<1>6. QED
  BY <1>4, <1>5, NotPresentCases

LEMMA WalkStep ==
    ASSUME StackInv, AddrInv, WalkInv, [Next]_vars
    PROVE  WalkInv'
<1>0. late \subseteq given /\ (pc = "end" <=> result # "none") /\ (pc # "end" => Progress)
  BY WalkParts
<1>1. ASSUME pc \in {"port", "after", "configure", "dispatch"}
      PROVE  /\ Len(stack) > 0 /\ result = "none" /\ Progress
             /\ pc # "port" => Child \in Devices /\ Child # None
  <2>1. Len(stack) > 0 /\ (pc # "port" => Child # None)
    BY <1>1 DEF StackInv, Busy
  <2>2. QED
    BY <1>0, <1>1, <2>1, ChildType
<1>2. CASE BusConnect
  <2>1. /\ stack' = <<[hub |-> "root", port |-> 1]>> /\ pc' = "port" /\ result' = result
        /\ UNCHANGED <<ready, given, late>> /\ pc = "bus"
    BY <1>2 DEF BusConnect, devVars
  <2>2. ready = {} /\ result = "none"
    BY <1>0, <2>1 DEF WalkInv
  <2>3. Len(stack') = 1 /\ stack'[1].port = 1
    BY <2>1
  <2>4. Progress'
    BY <2>1, <2>2, <2>3 DEF Progress
  <2>5. QED
    BY <1>0, <2>1, <2>2, <2>4 DEF WalkInv, CompleteWalk, Progress, HubDone, OnStack
<1>3. CASE BusEmpty \/ ProbeError \/ SetAddressError \/ ConfigureError \/ DispatchError
  BY <1>0, <1>3, WalkFails DEF BusEmpty, ProbeError, SetAddressError, ConfigureError,
     DispatchError, HardError, Return
<1>4. CASE PortSkipped \/ PortNotEnabled \/ PortGivenUp
  <2>1. /\ NotPresent /\ pc \in {"port", "after"} /\ ready' = ready
        /\ late' \in {late, late \cup {Child}}
        /\ pc = "port" => late' = late
    BY <1>4 DEF PortSkipped, PortNotEnabled, PortGivenUp, devVars
  <2>2. Len(stack) > 0
    BY <1>1, <2>1
  <2>3. QED
    BY <2>1, <2>2, NotPresentWalk
\* A reset takes a device back out of the configured ones: it is not one of those
\* that the walk has left behind.
<1>5. CASE PortReset
  <2>1. /\ pc = "port" /\ Child # None /\ pc' = "after" /\ ready' = ready \ {Child}
        /\ UNCHANGED <<stack, given, late, result>>
    BY <1>5 DEF PortReset
  <2>2. /\ Len(stack) \in Nat \ {0} /\ stack \in Seq(Frame) /\ Progress
        /\ Top.hub \in DOMAIN Ports /\ Top.port \in 1..Len(Ports[Top.hub])
        /\ Child = Ports[Top.hub][Top.port] /\ Top = stack[Len(stack)]
    BY <1>1, <2>1, ChildType DEF StackInv, At
  <2>3. ASSUME NEW h \in DOMAIN Ports, NEW p \in 1..Len(Ports[h]),
               Ports[h][p] \in Done, h # Top.hub \/ p # Top.port
        PROVE  Ports[h][p] \in Done'
    <3>1. Ports[h][p] # Child
      BY <2>1, <2>2, <2>3, OnePlace
    <3>2. QED
      BY <2>1, <2>3, <3>1 DEF Done
  <2>4. ASSUME NEW i \in 1..Len(stack), i # Len(stack) PROVE stack[i].hub # Top.hub
    BY <2>2, <2>4 DEF StackInv
  <2>5. ASSUME NEW i \in 1..Len(stack), NEW p \in 1..(stack[i].port - 1)
        PROVE  Ports[stack[i].hub][p] \in Done'
    <3>1. /\ stack[i].hub \in DOMAIN Ports /\ p \in 1..Len(Ports[stack[i].hub])
          /\ p # stack[i].port
      BY <2>2, LevelFacts, PortFacts DEF StackInv
    <3>2. Ports[stack[i].hub][p] \in Done
      BY <2>2 DEF Progress
    <3>3. stack[i].hub # Top.hub \/ p # Top.port
      BY <2>2, <2>4, <3>1
    <3>4. QED
      BY <2>3, <3>1, <3>2, <3>3
  <2>6. ASSUME NEW i \in 1..(Len(stack) - 1) PROVE At(stack[i]) \in Done'
    <3>1. i \in 1..Len(stack) /\ i # Len(stack)
      BY <2>2
    <3>2. stack[i].hub \in DOMAIN Ports /\ stack[i].port \in 1..Len(Ports[stack[i].hub])
      BY <2>2, <3>1, LevelFacts, PortFacts DEF StackInv
    <3>3. At(stack[i]) \in Done
      BY <2>2 DEF Progress
    <3>4. QED
      BY <2>3, <2>4, <3>1, <3>2, <3>3 DEF At
  <2>7. ASSUME NEW h \in (ready' \cap Hubs) \ given' PROVE OnStack(h)' \/ HubDone(h)'
    <3>1. h \in (ready \cap Hubs) \ given /\ h \in DOMAIN Ports
      BY <2>1 DEF Hubs
    <3>2. CASE OnStack(h)
      BY <2>1, <3>2 DEF OnStack
    <3>3. CASE ~OnStack(h) /\ HubDone(h)
      <4>1. h # Top.hub
        BY <2>2, <3>3 DEF OnStack
      <4>2. \A p \in 1..Len(Ports[h]) : Ports[h][p] \in Done'
        BY <2>3, <3>1, <3>3, <4>1, PortFacts DEF HubDone
      <4>3. QED
        BY <3>1, <4>2, PortFacts DEF HubDone
    <3>4. QED
      BY <2>1, <2>2, <3>1, <3>2, <3>3 DEF Progress
  <2>8. Progress'
    BY <2>1, <2>5, <2>6, <2>7 DEF Progress
  <2>9. result' = "none"
    BY <1>1, <2>1
  <2>10. QED
    BY <1>0, <2>1, <2>8, <2>9 DEF WalkInv, CompleteWalk, Progress, HubDone, OnStack
<1>6. CASE PortEnabled \/ ProbeOk \/ SetAddressOk
  <2>1. /\ UNCHANGED <<stack, ready, given, late, result>>
        /\ pc \notin {"dispatch", "end"} /\ pc' \notin {"bus", "dispatch", "end"}
    BY <1>6 DEF PortEnabled, ProbeOk, SetAddressOk, devVars
  <2>2. Progress'
    BY <1>0, <2>1 DEF Progress, OnStack, HubDone, Done
  <2>3. QED
    BY <1>0, <2>1, <2>2 DEF WalkInv, CompleteWalk, Progress, HubDone, OnStack
\* The device at hand is configured, and apart from it only devices given up.
<1>7. CASE ConfigureOk
  <2>1. /\ pc = "configure" /\ pc' = "dispatch" /\ ready' = ready \cup Listening(handle)
        /\ UNCHANGED <<stack, given, late, result>> /\ Child' = Child
    BY <1>7 DEF ConfigureOk, Child, Top
  <2>2. Child \in Devices /\ result = "none" /\ Progress
    BY <1>1, <2>1
  <2>3. Child \in ready'
    BY <2>1, <2>2 DEF Listening, AddrInv
  <2>4. \A h \in Listening(handle) \ given : h = Child
    BY <1>0, <2>1 DEF Listening, AddrInv
  <2>5. Done \subseteq Done'
    BY <2>1 DEF Done
  <2>6. ASSUME NEW h \in (ready' \cap Hubs) \ given'
        PROVE  OnStack(h)' \/ h = Child \/ HubDone(h)'
    <3>1. h = Child \/ h \in (ready \cap Hubs) \ given
      BY <2>1, <2>4
    <3>2. h = Child \/ OnStack(h) \/ HubDone(h)
      BY <2>1, <2>2, <3>1 DEF Progress
    <3>3. QED
      BY <2>1, <2>5, <3>2 DEF OnStack, HubDone
  <2>7. Progress'
    BY <2>1, <2>2, <2>3, <2>5, <2>6 DEF Progress
  <2>8. QED
    BY <1>0, <2>1, <2>2, <2>7 DEF WalkInv, CompleteWalk, Progress, HubDone, OnStack
<1>8. CASE DispatchHub
  <2> DEFINE f == [hub |-> Child, port |-> 1]
  <2> DEFINE n == Len(stack)
  <2>1. /\ pc = "dispatch" /\ pc' = "port" /\ stack' = Append(stack, f)
        /\ UNCHANGED <<ready, given, late, result>>
    BY <1>8 DEF DispatchHub, devVars
  <2>2. result = "none" /\ Progress /\ n > 0 /\ stack \in Seq(Frame) /\ Child \in ready
    BY <1>1, <2>1 DEF StackInv, Progress
  <2>3. /\ n \in Nat /\ Len(stack') = n + 1 /\ \A i \in 1..n : stack'[i] = stack[i]
        /\ stack'[n + 1].hub = Child /\ stack'[n + 1].port = 1
    BY <2>1, <2>2
  <2>4. Done' = Done
    BY <2>1 DEF Done
  <2>5. stack[n] = Top /\ Child = At(Top)
    BY <2>2, ChildType
  <2> HIDE DEF f
  <2>6. \A i \in 1..(n + 1) : \A p \in 1..(stack'[i].port - 1) : Ports[stack'[i].hub][p] \in Done'
    <3>1. \A i \in 1..n : \A p \in 1..(stack'[i].port - 1) : Ports[stack'[i].hub][p] \in Done'
      BY <2>2, <2>3, <2>4 DEF Progress
    <3>2. \A p \in 1..(stack'[n + 1].port - 1) : FALSE
      BY <2>3
    <3>3. \A i \in 1..(n + 1) : i \in 1..n \/ i = n + 1
      BY <2>3
    <3>4. QED
      BY <3>1, <3>2, <3>3
  <2>7. \A i \in 1..n : At(stack'[i]) \in Done'
    <3>1. \A i \in 1..(n - 1) : At(stack[i]) \in Done
      BY <2>2 DEF Progress
    <3>2. At(stack[n]) \in Done
      BY <2>2, <2>5 DEF Done
    <3>3. \A i \in 1..n : i \in 1..(n - 1) \/ i = n
      BY <2>3
    <3>4. QED
      BY <2>3, <2>4, <3>1, <3>2, <3>3
  <2>8. \E i \in 1..Len(stack') : stack'[i].hub = Child
    <3>1. n + 1 \in 1..Len(stack') /\ stack'[n + 1].hub = Child
      BY <2>3
    <3>2. QED
      BY <3>1
  <2>9. ASSUME NEW h \in (ready' \cap Hubs) \ given' PROVE OnStack(h)' \/ HubDone(h)'
    <3>1. OnStack(h) \/ h = Child \/ HubDone(h)
      BY <2>1, <2>2 DEF Progress
    <3>2. OnStack(h) => OnStack(h)'
      BY <2>3 DEF OnStack
    <3>3. h = Child => OnStack(h)'
      BY <2>8 DEF OnStack
    <3>4. HubDone(h) => HubDone(h)'
      BY <2>4 DEF HubDone
    <3>5. QED
      BY <3>1, <3>2, <3>3, <3>4
  <2>10. \A i \in 1..(Len(stack') - 1) : i \in 1..n
    BY <2>3
  <2>11. Progress'
    BY <2>1, <2>3, <2>6, <2>7, <2>9, <2>10 DEF Progress
  <2>12. QED
    BY <1>0, <2>1, <2>2, <2>11 DEF WalkInv, CompleteWalk, Progress, HubDone, OnStack
<1>9. CASE DispatchEmptyHub \/ DispatchCamera \/ DispatchIgnored
  <2>1. /\ pc = "dispatch" /\ Advance /\ UNCHANGED <<ready, given, late>>
        /\ Child \in Hubs => Len(Ports[Child]) = 0
    BY <1>9, UsbTreeAssumption
       DEF DispatchEmptyHub, DispatchCamera, DispatchIgnored, IsCamera, devVars
  <2>2. Child \in Done'
    BY <1>1, <2>1 DEF Progress, Done
  <2>3. Child \in Hubs => HubDone(Child)
    BY <2>1, PortFacts DEF Hubs, HubDone
  <2>4. QED
    BY <1>0, <1>1, <2>1, <2>2, <2>3, AdvanceWalk
<1>10. CASE UNCHANGED vars
  <2>1. UNCHANGED <<pc, stack, ready, given, late, result>> /\ Child' = Child
    BY <1>10 DEF vars, devVars, Child, Top
  <2>2. QED
    BY <2>1 DEF WalkInv, CompleteWalk, Done
<1>11. QED
  BY <1>2, <1>3, <1>4, <1>5, <1>6, <1>7, <1>8, <1>9, <1>10 DEF Next

\* When enumerate_bus returns Ok, every port of every hub that was walked has been
\* dealt with: however the tree looks and whatever fails behind a port, no soft
\* failure hides another port (hub.rs, walk_subtree and enumerate_child).
THEOREM WalkIsComplete == Spec => []CompleteWalk
<1>1. Init => StackInv /\ AddrInv /\ WalkInv
  <2>1. Init => WalkInv
    BY DEF Init, WalkInv, CompleteWalk
  <2>2. QED
    BY <2>1, WalkBegins
<1>2. StackInv /\ AddrInv /\ WalkInv /\ [Next]_vars => (StackInv /\ AddrInv /\ WalkInv)'
  BY StackStep, AddrStep, WalkStep
<1>3. WalkInv => CompleteWalk
  BY DEF WalkInv
<1>4. QED
  BY <1>1, <1>2, <1>3, PTL DEF Spec

\* The same of the host from power-on: it takes no step on the bus but the walk's.
THEOREM HostEnumerates == HostSpec => [](AddressesValid /\ CompleteWalk)
  BY HostWalks, AddressesStayValid, WalkIsComplete, PTL

=============================================================================
