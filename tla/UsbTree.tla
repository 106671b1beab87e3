------------------------------ MODULE UsbTree -------------------------------
(***************************************************************************)
(* Enumeration of the USB tree: RootHub::enumerate_bus (usb/root.rs), the   *)
(* Hub trait with enumerate_child and walk_subtree and UsbDevice::dispatch  *)
(* (usb/hub.rs), UsbDevice::enumerate (usb/device.rs) and the UVC driver's  *)
(* probe (usb/uvc/mod.rs, usb/uvc/session.rs).                              *)
(*                                                                          *)
(* The recursion of walk_subtree over dispatch is a stack of (hub, port)    *)
(* pairs.  Every control transfer may fail; whether a failed SET_ADDRESS    *)
(* took effect is open.  The devices are external: after a port reset a     *)
(* device listens at address 0, and every device that listens at an address *)
(* gets what is sent there.                                                 *)
(***************************************************************************)
EXTENDS Naturals, Sequences

CONSTANTS
    Devices,       \* the devices of this instance
    None,          \* no device: an empty port, no camera; no address
    Ports,         \* Ports[h]: what hangs at each port of hub h ("root" too)
    Cameras,       \* devices whose first interface is of class Video
    MAX_USB_ADDR   \* 127 in the code

Hubs == DOMAIN Ports \ {"root"}

ASSUME UsbTreeAssumption ==
    /\ "root" \in DOMAIN Ports /\ Hubs \subseteq Devices
    /\ \A h \in DOMAIN Ports : Ports[h] \in Seq(Devices \cup {None})
    /\ Len(Ports["root"]) = 1
    /\ \A h, g \in DOMAIN Ports : \A p \in DOMAIN Ports[h], q \in DOMAIN Ports[g] :
          (Ports[h][p] = Ports[g][q] /\ Ports[h][p] # None) => h = g /\ p = q
    /\ Cameras \subseteq Devices \ Hubs
    /\ None \notin Devices /\ None \notin Nat /\ "root" \notin Devices
    /\ MAX_USB_ADDR \in Nat \ {0}

VARIABLES
    pc,        \* what the enumeration does next
    stack,     \* the hubs being walked, innermost last, with the port at hand
    nextAddr,  \* next_addr
    handle,    \* address of the control endpoint of the device at hand
    class,     \* its interface class was read
    addr,      \* addr[d]: the address d listens at, or None before its reset
    ready,     \* devices that took SET_CONFIGURATION
    given,     \* devices given up: their port was skipped ...
    late,      \* ... after it had been reset
    camera,    \* CAMERA
    opened,    \* cameras opened so far
    result     \* of enumerate_bus

devVars == <<addr, ready>>
vars == <<pc, stack, nextAddr, handle, class, devVars, given, late, camera, opened, result>>

Top == stack[Len(stack)]

\* The device behind the port at hand.
Child == Ports[Top.hub][Top.port]

Listening(a) == {d \in Devices : addr[d] = a}

Init ==
    /\ pc = "bus" /\ stack = << >>
    /\ nextAddr = 1 /\ handle = 0 /\ class = FALSE
    /\ addr = [d \in Devices |-> None] /\ ready = {}
    /\ given = {} /\ late = {}
    /\ camera = None /\ opened = {} /\ result = "none"

-----------------------------------------------------------------------------

\* enumerate_bus powers the root port and waits for a connection.
BusConnect ==
    /\ pc = "bus"
    /\ Ports["root"][1] # None
    /\ stack' = <<[hub |-> "root", port |-> 1]>>
    /\ pc' = "port"
    /\ UNCHANGED <<nextAddr, handle, class, devVars, given, late, camera, opened, result>>

\* The whole enumeration returns: an error unwinds every level.
Return(r) == pc' = "end" /\ result' = r

\* wait_connect sees no device within five seconds.
BusEmpty ==
    /\ pc = "bus"
    /\ Return("error")
    /\ UNCHANGED <<stack, nextAddr, handle, class, devVars, given, late, camera, opened>>

HardError == Return("error") /\ UNCHANGED <<stack, camera, opened>>

\* Mutant: the last port of a hub is left out.
AdvanceStopsEarly ==
    LET more == {i \in 1..Len(stack) : stack[i].port + 1 < Len(Ports[stack[i].hub])}
    IN  IF more = {}
          THEN Return("ok") /\ stack' = << >>
          ELSE LET i == CHOOSE n \in more : \A m \in more : m <= n
               IN  /\ stack' = [SubSeq(stack, 1, i) EXCEPT ![i].port = @ + 1]
                   /\ pc' = "port"
                   /\ UNCHANGED result

\* Mutant: the loop over the ports does not move on.
AdvanceStuck == pc' = "port" /\ UNCHANGED <<stack, result>>

\* The port at hand is done: on to the next port of this hub, or of the nearest
\* hub above that has one.
Advance ==
    LET more == {i \in 1..Len(stack) : stack[i].port < Len(Ports[stack[i].hub])}
    IN  IF more = {}
          THEN Return("ok") /\ stack' = << >>
          ELSE LET i == CHOOSE n \in more : \A m \in more : m <= n
               IN  /\ stack' = [SubSeq(stack, 1, i) EXCEPT ![i].port = @ + 1]
                   /\ pc' = "port"
                   /\ UNCHANGED result

\* A port-level failure is NotPresent: walk_subtree skips the port, but
\* enumerate_bus turns it into an error.
NotPresent ==
    /\ IF Len(stack) = 1 THEN HardError
       ELSE Advance /\ UNCHANGED <<camera, opened>>
    /\ given' = IF Child = None THEN given ELSE given \cup {Child}

\* enumerate_child: the port is empty (its device unplugged in the meantime), or its
\* status cannot be read, or the connection change cannot be cleared, or the reset
\* request fails.
PortSkipped ==
    /\ pc = "port"
    /\ NotPresent
    /\ UNCHANGED <<nextAddr, handle, class, devVars, late>>

\* Requests to the root port are register accesses and do not fail.
OnHub == Len(stack) > 1

\* Connected and reset: the device falls back to address 0.
PortReset ==
    /\ pc = "port"
    /\ Child # None
    /\ addr' = [addr EXCEPT ![Child] = 0]
    /\ ready' = ready \ {Child}
    /\ pc' = "after"
    /\ UNCHANGED <<stack, nextAddr, handle, class, given, late, camera, opened, result>>

\* The reset did not enable the port: nothing answers behind it.
PortNotEnabled ==
    /\ pc = "after"
    /\ addr' = [addr EXCEPT ![Child] = None]
    /\ NotPresent
    /\ UNCHANGED <<nextAddr, handle, class, ready, late>>

\* The reset change cannot be cleared, or the status cannot be read again: the
\* port is given up with its device listening at address 0.
PortGivenUp ==
    /\ pc = "after"
    /\ OnHub
    /\ NotPresent
    /\ late' = late \cup {Child}
    /\ UNCHANGED <<nextAddr, handle, class, devVars>>

PortEnabled ==
    /\ pc = "after"
    /\ pc' = "probe"
    /\ UNCHANGED <<stack, nextAddr, handle, class, devVars, given, late, camera, opened, result>>

\* UsbDevice::enumerate: the device descriptor, read at address 0.
ProbeOk ==
    /\ pc = "probe"
    /\ nextAddr < MAX_USB_ADDR
    /\ pc' = "address"
    /\ UNCHANGED <<stack, nextAddr, handle, class, devVars, given, late, camera, opened, result>>

\* ... fails, or there is no address left.
ProbeError ==
    /\ pc = "probe"
    /\ HardError
    /\ UNCHANGED <<nextAddr, handle, class, devVars, given, late>>

\* Mutant: the counter is not advanced.
SetAddressReuses ==
    /\ pc = "address"
    /\ addr' = [d \in Devices |-> IF addr[d] = 0 THEN nextAddr ELSE addr[d]]
    /\ handle' = nextAddr
    /\ pc' = "configure"
    /\ UNCHANGED <<stack, nextAddr, class, ready, given, late, camera, opened, result>>

\* SET_ADDRESS: whoever listens at address 0 takes the new one.
SetAddressOk ==
    /\ pc = "address"
    /\ addr' = [d \in Devices |-> IF addr[d] = 0 THEN nextAddr ELSE addr[d]]
    /\ handle' = nextAddr
    /\ nextAddr' = nextAddr + 1
    /\ pc' = "configure"
    /\ UNCHANGED <<stack, class, ready, given, late, camera, opened, result>>

\* The address is used up whether or not the device has heard of it.
SetAddressError ==
    /\ pc = "address"
    /\ \/ addr' = [d \in Devices |-> IF addr[d] = 0 THEN nextAddr ELSE addr[d]]
       \/ UNCHANGED addr
    /\ nextAddr' = nextAddr + 1
    /\ HardError
    /\ UNCHANGED <<handle, class, ready, given, late>>

\* SET_CONFIGURATION, then the class of the first interface; a failure to read
\* it only means "unknown".
ConfigureOk ==
    /\ pc = "configure"
    /\ ready' = ready \cup Listening(handle)
    /\ class' \in BOOLEAN
    /\ pc' = "dispatch"
    /\ UNCHANGED <<stack, nextAddr, handle, addr, given, late, camera, opened, result>>

ConfigureError ==
    /\ pc = "configure"
    /\ \/ ready' = ready \cup Listening(handle)
       \/ UNCHANGED ready
    /\ HardError
    /\ UNCHANGED <<nextAddr, handle, class, addr, given, late>>

\* dispatch, a hub: read its descriptor, power its ports, wait, walk them.
DispatchHub ==
    /\ pc = "dispatch"
    /\ Child \in Hubs
    /\ Len(Ports[Child]) > 0
    /\ stack' = Append(stack, [hub |-> Child, port |-> 1])
    /\ pc' = "port"
    /\ UNCHANGED <<nextAddr, handle, class, devVars, given, late, camera, opened, result>>

DispatchEmptyHub ==
    /\ pc = "dispatch"
    /\ Child \in Hubs
    /\ Len(Ports[Child]) = 0
    /\ Advance
    /\ UNCHANGED <<nextAddr, handle, class, devVars, given, late, camera, opened>>

IsCamera == Child \in Cameras /\ class

\* dispatch, a camera: the driver opens it there and then.
DispatchCamera ==
    /\ pc = "dispatch"
    /\ IsCamera
    /\ camera' = Child
    /\ opened' = opened \cup {Child}
    /\ Advance
    /\ UNCHANGED <<nextAddr, handle, class, devVars, given, late>>

\* The hub descriptor or a step of opening the camera fails.
DispatchError ==
    /\ pc = "dispatch"
    /\ Child \in Hubs \/ IsCamera
    /\ HardError
    /\ UNCHANGED <<nextAddr, handle, class, devVars, given, late>>

\* No driver: the device is ignored.
DispatchIgnored ==
    /\ pc = "dispatch"
    /\ Child \notin Hubs
    /\ ~IsCamera
    /\ Advance
    /\ UNCHANGED <<nextAddr, handle, class, devVars, given, late, camera, opened>>

Next ==
    \/ BusConnect \/ BusEmpty
    \/ PortSkipped \/ PortReset \/ PortNotEnabled \/ PortGivenUp \/ PortEnabled
    \/ ProbeOk \/ ProbeError \/ SetAddressOk \/ SetAddressError
    \/ ConfigureOk \/ ConfigureError
    \/ DispatchHub \/ DispatchEmptyHub \/ DispatchCamera \/ DispatchError \/ DispatchIgnored

Spec == Init /\ [][Next]_vars

-----------------------------------------------------------------------------
(* Properties *)

TypeOK ==
    /\ pc \in {"bus", "port", "after", "probe", "address", "configure", "dispatch", "end"}
    /\ stack \in Seq([hub : DOMAIN Ports, port : Nat \ {0}])
    /\ nextAddr \in 1..MAX_USB_ADDR
    /\ handle \in 0..(MAX_USB_ADDR - 1)
    /\ class \in BOOLEAN
    /\ addr \in [Devices -> (0..(MAX_USB_ADDR - 1)) \cup {None}]
    /\ ready \subseteq Devices /\ given \subseteq Devices /\ late \subseteq Devices
    /\ camera \in Devices \cup {None} /\ opened \subseteq Devices
    /\ result \in {"none", "ok", "error"}

\* No two devices listen at the same address, except for a device whose port was
\* given up after its reset (hub.rs:119-129), which stays at address 0 and takes
\* whatever address comes next; and no address is beyond the ones there are
\* (device.rs:44).
AddressesValid ==
    /\ \A d, e \in Devices \ late :
          (d # e /\ addr[d] # None) => addr[d] # addr[e]
    /\ \A d \in Devices : addr[d] # None => addr[d] < MAX_USB_ADDR

\* When enumerate_bus returns Ok, every device behind a hub that was walked is
\* configured or was given up with its port: no soft failure of one port, however
\* deep, hides the other ports ("a NotPresent of one port only skips it",
\* hub.rs:142).
CompleteWalk ==
    result = "ok" =>
        \A h \in {"root"} \cup ((ready \cap Hubs) \ given) :
            \A p \in DOMAIN Ports[h] : Ports[h][p] \in ready \cup given \cup {None}

\* "probe only records a light match in the middle of the walk; open does the
\* heavy initialisation after the walk" (session.rs:5-7).
OpenedAfterWalk == opened # {} => pc = "end"
=============================================================================
