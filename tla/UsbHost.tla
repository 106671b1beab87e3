------------------------------ MODULE UsbHost -------------------------------
(***************************************************************************)
(* The USB host from power-on to the end of the enumeration, as rust_main   *)
(* runs it: dwc2_host_init (usb/dwc2/controller.rs, usb/dwc2/cv182x.rs),    *)
(* then RootHub::enumerate_bus with the root port's operations              *)
(* (usb/root.rs) on the register HPRT0, around UsbTree's walk.              *)
(*                                                                          *)
(* The controller is external: the core and its FIFOs finish a reset or a   *)
(* flush in their own time, a device comes and goes, and the port becomes   *)
(* enabled while PRTRST is driven or after it.  Flags that are cleared by   *)
(* writing 1 (CONNDET, ENA, CSFTRST_DONE) are cleared by a                  *)
(* read-modify-write that reads 1 and does not mask them; ENACHG and        *)
(* OVRCURCHG, which nobody reads, are left out.  Unplugging behind an       *)
(* enabled root port is a failing transfer of UsbTree.                      *)
(***************************************************************************)
EXTENDS UsbTree

CONSTANTS
    Versions,   \* GSNPSID.VERSION
    Depths,     \* GHWCFG3.DFIFO_DEPTH
    Channels,   \* 1 + GHWCFG2.NUM_HOST_CHAN
    MaxEvents   \* bound on unplugging

DWC2_CORE_REV_4_20A == 16906    \* 0x420a

ASSUME UsbHostAssumption ==
    /\ Versions \subseteq Nat /\ Depths \subseteq Nat /\ Channels \subseteq Nat \ {0}
    /\ MaxEvents \in Nat

VARIABLES
    at,      \* position in Phases; 0 after a failed bring-up (expect panics)
    core,    \* the core: identification, GRSTCTL, what it is busy with
    fifo,    \* GRXFSIZ, GNPTXFSIZ, HPTXFSIZ as <<start, depth>> each
    hprt,    \* HPRT0
    rp,      \* the root port's reset sequence
    wire     \* the port itself: plugged in, reset, enabled, a change nobody asked for;
             \* number of events

hostVars == <<vars, at, core, fifo, hprt, rp, wire>>

\* Steps of dwc2_host_init: a soft reset, host mode, another soft reset, FIFO sizes,
\* the two flushes; then enumerate_bus powers the root port and scans.
Phases == <<"idle", "soft", "reset", "mode", "idle", "soft", "reset", "fifos",
            "idle", "tx", "flush", "idle", "rx", "flush", "power", "scan">>

Phase == IF at = 0 THEN "panic" ELSE Phases[at]

HPRT0_OFF == [pwr |-> FALSE, rst |-> FALSE, conn |-> FALSE, conndet |-> FALSE,
              ena |-> FALSE]

\* The boot loader may have used the controller before.
HostInit ==
    /\ Init
    /\ at = 1 /\ rp = "none" /\ fifo = << >>
    /\ core \in [version : Versions, depth : Depths, hc : Channels, done : BOOLEAN,
                 csftrst : {FALSE}, resetting : {FALSE}, flushing : {FALSE}]
    /\ LET plugged == Ports["root"][1] # None
       IN  /\ hprt \in {HPRT0_OFF,
                         [HPRT0_OFF EXCEPT !.pwr = TRUE, !.conn = plugged, !.ena = plugged]}
           /\ wire = [plugged |-> plugged, reset |-> FALSE, up |-> hprt.ena,
                      changed |-> FALSE, events |-> 0]

-----------------------------------------------------------------------------
(* dwc2_host_init *)

Step(phase) ==
    /\ Phase = phase
    /\ at' = at + 1
    /\ UNCHANGED <<vars, rp>>

\* wait_ahb_idle sees AHBIDLE, which nothing else depends on.
AhbIdle == Step("idle") /\ UNCHANGED <<core, fifo, hprt, wire>>

\* Mutant: CSFTRST is written without the rest of GRSTCTL.
SoftResetWrite ==
    /\ Step("soft")
    /\ core' = [core EXCEPT !.csftrst = TRUE, !.resetting = TRUE]
    /\ hprt' = HPRT0_OFF
    /\ wire' = [wire EXCEPT !.up = FALSE, !.changed = FALSE]
    /\ UNCHANGED fifo

\* core_soft_reset: the modify writes CSFTRST_DONE back as read, which clears it.
\* A reset turns the port off.
SoftReset ==
    /\ Step("soft")
    /\ core' = [core EXCEPT !.csftrst = TRUE, !.resetting = TRUE, !.done = FALSE]
    /\ hprt' = HPRT0_OFF
    /\ wire' = [wire EXCEPT !.up = FALSE, !.changed = FALSE]
    /\ UNCHANGED fifo

new_rst_seq == core.version >= DWC2_CORE_REV_4_20A

\* CSFTRST clears itself, or CSFTRST_DONE comes up and both are cleared.
ResetSeen == IF new_rst_seq THEN core.done ELSE ~core.csftrst

SoftResetSeen ==
    /\ Step("reset")
    /\ ResetSeen
    /\ core' = [core EXCEPT !.csftrst = FALSE, !.done = IF new_rst_seq THEN FALSE ELSE @]
    /\ UNCHANGED <<fifo, hprt, wire>>

\* force_host_mode sees CURMODE_HOST.
HostMode == Step("mode") /\ UNCHANGED <<core, fifo, hprt, wire>>

\* init_host_fifos_cv182x: depths of the receive, the non-periodic and the periodic
\* transmit FIFO.
HostFifos(total, hc) ==
    LET rest == total - (516 + hc) - 256
    IN  IF 536 + 32 + 768 > total
        THEN <<516 + hc, 256, IF rest >= 768 THEN 768 ELSE IF rest > 0 THEN rest ELSE 0>>
        ELSE <<536, 32, 768>>

SetFifos ==
    /\ Step("fifos")
    /\ LET f == HostFifos(core.depth, core.hc)
       IN  fifo' = <<<<0, f[1]>>, <<f[1], f[2]>>, <<f[1] + f[2], f[3]>>>>
    /\ UNCHANGED <<core, hprt, wire>>

Flush ==
    /\ Step("tx") \/ Step("rx")
    /\ core' = [core EXCEPT !.flushing = TRUE]
    /\ UNCHANGED <<fifo, hprt, wire>>

\* wait_grstctl_handshake
FlushSeen ==
    /\ Step("flush")
    /\ ~core.flushing
    /\ UNCHANGED <<core, fifo, hprt, wire>>

\* Every wait is bounded; its end is the end of the program.
TimesOut ==
    /\ \/ Phase \in {"idle", "mode"}
       \/ Phase = "reset" /\ ~ResetSeen
       \/ Phase = "flush" /\ core.flushing
    /\ at' = 0
    /\ UNCHANGED <<vars, core, fifo, hprt, rp, wire>>

-----------------------------------------------------------------------------
(* HPRT0 *)

\* Mutant: what was read is written back, W1C flags included.
Hprt0PortUnmasked(pwr, rst) ==
    hprt' = [hprt EXCEPT !.pwr = pwr, !.rst = rst,
                         !.conndet = FALSE, !.ena = FALSE]

\* hprt0_port: the W1C flags are written as 0.
hprt0_port(pwr, rst) == hprt' = [hprt EXCEPT !.pwr = pwr, !.rst = rst]

\* RootHub::port_power
PortPower ==
    /\ Step("power")
    /\ hprt0_port(TRUE, FALSE)
    /\ UNCHANGED <<core, fifo, wire>>

\* The walk is at the root port.
AtRoot(where) == Phase = "scan" /\ pc = where /\ Len(stack) = 1

\* enumerate_child sees a connection; clear_connection_change writes back all that
\* it read.
ClearConnectionChange ==
    /\ AtRoot("port") /\ rp = "none" /\ hprt.conn
    /\ hprt' = IF hprt.conndet
               THEN [hprt EXCEPT !.conndet = FALSE, !.ena = FALSE]
               ELSE hprt
    /\ wire' = [wire EXCEPT !.changed = FALSE]
    /\ rp' = "cleared"
    /\ UNCHANGED <<vars, at, core, fifo>>

\* port_reset_pulse: PRTRST on, 60 ms, PRTRST off, 80 ms.
ResetPulse ==
    /\ rp = "cleared"
    /\ hprt0_port(TRUE, TRUE)
    /\ rp' = "pulse"
    /\ UNCHANGED <<vars, at, core, fifo, wire>>

ResetRelease ==
    /\ rp = "pulse"
    /\ hprt0_port(TRUE, FALSE)
    /\ rp' = "done"
    /\ wire' = [wire EXCEPT !.reset = hprt.conn]
    /\ PortReset
    /\ UNCHANGED <<at, core, fifo>>

-----------------------------------------------------------------------------
(* The walk: at the root port it goes by HPRT0. *)

Scan == Phase = "scan" /\ UNCHANGED <<at, core, fifo, hprt, rp, wire>>

WaitConnect == Scan /\ hprt.conn /\ BusConnect
WaitConnectTimesOut == Scan /\ ~hprt.conn /\ BusEmpty

SkipPort == Scan /\ (AtRoot("port") => rp = "none" /\ ~hprt.conn) /\ PortSkipped
ResetHubPort == Scan /\ ~AtRoot("port") /\ PortReset
SeePortEnabled == Scan /\ (AtRoot("after") => hprt.ena) /\ PortEnabled
SeePortDisabled == Scan /\ (AtRoot("after") => ~hprt.ena) /\ PortNotEnabled

\* The rest of the walk takes no notice of the root port.
Walk ==
    /\ Scan
    /\ \/ PortGivenUp
       \/ ProbeOk \/ ProbeError \/ SetAddressOk \/ SetAddressError
       \/ ConfigureOk \/ ConfigureError
       \/ DispatchHub \/ DispatchEmptyHub \/ DispatchCamera \/ DispatchError \/ DispatchIgnored

Driver ==
    \/ AhbIdle \/ SoftReset \/ SoftResetSeen \/ HostMode \/ SetFifos \/ Flush \/ FlushSeen
    \/ TimesOut \/ PortPower \/ ClearConnectionChange \/ ResetPulse \/ ResetRelease
    \/ WaitConnect \/ WaitConnectTimesOut \/ SkipPort \/ ResetHubPort
    \/ SeePortEnabled \/ SeePortDisabled \/ Walk

-----------------------------------------------------------------------------
(* The controller and the port *)

Hardware == UNCHANGED <<vars, at, fifo, rp>>

ResetDone ==
    /\ core.resetting
    /\ core' = IF new_rst_seq THEN [core EXCEPT !.resetting = FALSE, !.done = TRUE]
               ELSE [core EXCEPT !.resetting = FALSE, !.csftrst = FALSE]
    /\ Hardware /\ UNCHANGED <<hprt, wire>>

FlushDone ==
    /\ core.flushing
    /\ core' = [core EXCEPT !.flushing = FALSE]
    /\ Hardware /\ UNCHANGED <<hprt, wire>>

Connect ==
    /\ hprt.pwr /\ wire.plugged /\ ~hprt.conn
    /\ hprt' = [hprt EXCEPT !.conn = TRUE, !.conndet = TRUE]
    /\ wire' = [wire EXCEPT !.changed = TRUE]
    /\ Hardware /\ UNCHANGED core

\* The device becomes enabled by a reset: while it lasts or after it.
Enable ==
    /\ hprt.conn /\ ~hprt.ena /\ ~wire.up
    /\ rp = "pulse" \/ (wire.reset /\ AtRoot("after"))
    /\ hprt' = [hprt EXCEPT !.ena = TRUE]
    /\ wire' = [wire EXCEPT !.up = TRUE]
    /\ Hardware /\ UNCHANGED core

\* Unplugged, for good or not, before the walk has left the root port.
Unplug ==
    /\ wire.events < MaxEvents
    /\ Phase \in {"power", "scan"} /\ pc \in {"bus", "port", "after"} /\ Len(stack) <= 1
    /\ wire.plugged
    /\ hprt' = IF hprt.conn
               THEN [hprt EXCEPT !.conn = FALSE, !.conndet = TRUE, !.ena = FALSE]
               ELSE hprt
    /\ \E again \in BOOLEAN :
          wire' = [plugged |-> again, reset |-> FALSE, up |-> FALSE,
                   changed |-> wire.changed \/ hprt.conn, events |-> wire.events + 1]
    /\ Hardware /\ UNCHANGED core

HostNext ==
    \/ Driver
    \/ ResetDone \/ FlushDone \/ Connect \/ Enable \/ Unplug

HostSpec == HostInit /\ [][HostNext]_hostVars

\* Fairness: the small core executes.  Nothing is asked of the controller and the
\* port: every wait for them is bounded.
FairHostSpec == HostSpec /\ WF_hostVars(Driver)

-----------------------------------------------------------------------------
(* Properties *)

\* Start and end of the FIFOs: consecutive, and inside the memory the core has.
FifosFit ==
    /\ fifo[1][1] = 0
    /\ \A k \in 1..2 : fifo[k][1] + fifo[k][2] <= fifo[k + 1][1]
    /\ fifo[3][1] + fifo[3][2] <= core.depth

\* The bring-up never goes on while the core is still resetting or flushing,
\* whatever flags the boot loader left behind, and it leaves a layout of the FIFOs
\* that fits the core's memory if that can hold the receive and the non-periodic
\* FIFO at all (controller.rs, core_soft_reset and wait_grstctl_handshake; cv182x.rs,
\* init_host_fifos_cv182x).
BringUpSound ==
    /\ core.resetting => Phase \in {"reset", "panic"}
    /\ core.flushing => Phase \in {"flush", "panic"}
    /\ (fifo # << >> /\ core.depth >= 516 + core.hc + 256) => FifosFit

\* No register write of the driver disables the root port or drops a connection
\* change it has not acted on: an enabled port stays enabled until its device goes,
\* so that the check after the reset fails only for a port that is not enabled
\* (controller.rs, hprt0_port; root.rs, clear_connection_change).
RootPortKept ==
    /\ wire.up => hprt.ena
    /\ wire.changed => hprt.conndet

\* From power-on, either the bring-up fails, and with it the program, or the
\* enumeration ends with a result: no wait for the controller, for a device or for a
\* transfer is without end.
HostStarts == <>(at = 0 \/ result # "none")
=============================================================================
