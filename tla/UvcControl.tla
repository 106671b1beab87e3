----------------------------- MODULE UvcControl -----------------------------
(***************************************************************************)
(* UvcCamera::open as a whole (usb/uvc/session.rs): the stream selection of *)
(* UvcStream, then the search for the camera's control entities             *)
(* (parse_uvc_control_entities, usb/uvc/descriptor.rs) and the image        *)
(* settings (init_controls, usb/uvc/control.rs), then UvcStream's           *)
(* start_stream.                                                            *)
(*                                                                          *)
(* Descriptors are UvcStream's.  Subtype 5 means a processing unit under    *)
(* the control interface and an uncompressed frame under a streaming one:   *)
(* both are the type "frame" here, with the unit's bmControls as a set of   *)
(* bit numbers in the field bm.  A control is <<entity id, bit>>; value 0   *)
(* is its factory default.  The camera is external: all its controls start  *)
(* at one value, a request may fail, with or without having taken effect,   *)
(* at most MaxFaults times, and a camera refuses a white balance            *)
(* temperature while it balances by itself and exposure modes it does not   *)
(* have.                                                                    *)
(***************************************************************************)
EXTENDS UvcStream

CONSTANTS
    AeModes,    \* sets of exposure modes a camera may have
    MaxFaults   \* bound on failing requests

\* Entity ids start at 1 in the class specification: 0 stands for None.
ASSUME UvcControlAssumption ==
    /\ MaxFaults \in Nat
    /\ \A c \in Configs : \A k \in DOMAIN c :
          /\ c[k].ty = "interface" => c[k].vc \in BOOLEAN
          /\ c[k].ty = "frame" /\ ~c[k].mjpeg => c[k].ix # 0
          /\ c[k].ty = "terminal" => c[k].camera \in BOOLEAN /\ c[k].ix # 0

VARIABLES
    cpc,     \* the step of the control phase
    ci,      \* the descriptor parse_uvc_control_entities is at
    inVc,    \* ... and whether it is under the control interface
    ent,     \* UvcControlEntities, with 0 for no entity
    item,    \* position in the list of items, or of exposure modes
    val,     \* camera: value of each control
    start,   \* camera: the value each of them had
    modes,   \* camera: exposure modes it accepts
    lost,    \* history: controls for which a request was lost
    asked    \* history: controls a request was sent for

ctlVars == <<cpc, ci, inVc, ent, item, val, start, modes, lost, asked>>
openVars == <<vars, ctlVars>>

-----------------------------------------------------------------------------
(* The camera *)

InVc(k) == ScopeOf(k) # 0 /\ cfg[ScopeOf(k)].vc

IsUnit(k) == cfg[k].ty = "frame" /\ ~cfg[k].mjpeg
IsCameraTerminal(k) == cfg[k].ty = "terminal" /\ cfg[k].camera

\* Entities of the control interface.
Units == {k \in DOMAIN cfg : IsUnit(k) /\ InVc(k)}
Terminals == {k \in DOMAIN cfg : IsCameraTerminal(k) /\ InVc(k)}

WbTemp(id) == <<id, 6>>
WbAuto(id) == <<id, 12>>
AeMode(id) == <<id, 1>>

Accepts(c, v) ==
    /\ c \in DOMAIN val
    /\ \A k \in Units : c = WbTemp(cfg[k].ix) /\ 12 \in cfg[k].bm => val[WbAuto(cfg[k].ix)] # 1
    /\ \A k \in Terminals : c = AeMode(cfg[k].ix) => v \in modes

-----------------------------------------------------------------------------
(* parse_uvc_control_entities *)

CtlInit ==
    /\ cpc = "scan" /\ ci = 1 /\ inVc = FALSE /\ item = 1
    /\ ent = [ifc |-> 0, ct |-> 0, ctBm |-> {}, pu |-> 0, puBm |-> {}]
    /\ start \in {0, 1}
    /\ val = [c \in {cfg[k].ix : k \in Units \cup Terminals} \X (0..17) |-> start]
    /\ modes \in IF Terminals = {} THEN {{}} ELSE AeModes
    /\ lost = {} /\ asked = {}

\* The control phase lies between the choice of a stream and start_stream.
AtEntity(ty) ==
    /\ pc = "alt0" /\ cpc = "scan" /\ ci <= Len(cfg) /\ cfg[ci].ty \in ty
    /\ ci' = ci + 1
    /\ UNCHANGED <<cpc, item, val, start, modes, lost, asked, vars>>

EntInterface ==
    /\ AtEntity({"interface"})
    /\ inVc' = cfg[ci].vc
    /\ ent' = IF cfg[ci].vc THEN [ent EXCEPT !.ifc = cfg[ci].num] ELSE ent

\* VC_PROCESSING_UNIT.
EntUnit ==
    /\ AtEntity({"frame"})
    /\ ent' = IF inVc /\ IsUnit(ci)
                THEN [ent EXCEPT !.pu = cfg[ci].ix, !.puBm = cfg[ci].bm] ELSE ent
    /\ UNCHANGED inVc

\* VC_INPUT_TERMINAL.
EntTerminal ==
    /\ AtEntity({"terminal"})
    /\ ent' = IF inVc /\ IsCameraTerminal(ci)
                THEN [ent EXCEPT !.ct = cfg[ci].ix, !.ctBm = cfg[ci].bm] ELSE ent
    /\ UNCHANGED inVc

EntOther ==
    /\ AtEntity({"format", "endpoint", "other"})
    /\ UNCHANGED <<inVc, ent>>

\* Where init_controls begins, and where the camera terminal follows the unit.
AfterUnit == IF ent.ct # 0 THEN "ae" ELSE "done"

\* A camera without a control interface has no entities either.
EntEnd ==
    /\ pc = "alt0" /\ cpc = "scan" /\ ci > Len(cfg)
    /\ cpc' = IF ent.pu # 0 THEN "items" ELSE AfterUnit
    /\ UNCHANGED <<ci, inVc, ent, item, val, start, modes, lost, asked, vars>>

-----------------------------------------------------------------------------
(* init_controls.  The outcome of a request only matters where the next one  *)
(* depends on it.                                                           *)

At(step, next) ==
    /\ cpc = step /\ cpc' = next
    /\ UNCHANGED <<ci, inVc, ent, start, modes, vars>>

Loses(c) == Cardinality(lost) < MaxFaults /\ lost' = lost \cup {c}

\* A SET_CUR that returns true.
SetOk(c, v) ==
    /\ Accepts(c, v)
    /\ val' = [val EXCEPT ![c] = v]
    /\ asked' = asked \cup {c}
    /\ UNCHANGED lost

\* ... or false: refused by the camera, or lost on the way there or back.
SetFails(c, v) ==
    /\ asked' = asked \cup {c}
    /\ \/ ~Accepts(c, v) /\ UNCHANGED <<val, lost>>
       \/ Accepts(c, v) /\ Loses(c) /\ val' \in {val, [val EXCEPT ![c] = v]}

SetCur(c, v) == SetOk(c, v) \/ SetFails(c, v)

\* GET_CUR and GET_DEF.
GetOk(c) ==
    /\ c \in DOMAIN val
    /\ asked' = asked \cup {c}
    /\ UNCHANGED <<val, lost>>

GetFails(c) ==
    /\ asked' = asked \cup {c}
    /\ \/ c \notin DOMAIN val /\ UNCHANGED lost
       \/ c \in DOMAIN val /\ Loses(c)
    /\ UNCHANGED val

Quiet == UNCHANGED <<val, lost, asked>>

Items == <<0, 1, 2, 3, 4, 5, 8, 9>>

\* pu_apply_one: GET_CUR, GET_DEF, and SET_CUR if they differ.
ApplyItem ==
    /\ cpc = "items"
    /\ LET c == <<ent.pu, Items[item]>>
       IN  \/ Items[item] \notin ent.puBm /\ Quiet
           \/ Items[item] \in ent.puBm /\ GetFails(c)
           \/ Items[item] \in ent.puBm /\ GetOk(c) /\ val[c] = 0
           \/ Items[item] \in ent.puBm /\ c \in DOMAIN val /\ val[c] # 0 /\ SetCur(c, 0)
    /\ \/ item < Len(Items) /\ At("items", "items") /\ item' = item + 1
       \/ item = Len(Items) /\ At("items", "wb") /\ item' = 1

\* A single setting, if it is advertised.
Setting(step, next, c, v, advertised) ==
    /\ At(step, next)
    /\ IF advertised THEN SetCur(c, v) ELSE Quiet
    /\ UNCHANGED item

\* Automatic balance off, so that the temperature can be set; without automatic
\* balance only the temperature.
WbAutoOff ==
    \/ 12 \in ent.puBm /\ Setting("wb", "wbTemp", WbAuto(ent.pu), 0, TRUE)
    \/ 12 \notin ent.puBm /\ Setting("wb", "wbManual", WbAuto(ent.pu), 0, FALSE)

WbTempDefault ==
    \/ Setting("wbTemp", "wbOn", WbTemp(ent.pu), 0, 6 \in ent.puBm)
    \/ 6 \in ent.puBm /\ At("wbTemp", "wbOn") /\ GetFails(WbTemp(ent.pu)) /\ UNCHANGED item

\* Mutant: automatic balance stays off.
WbAutoOnForgotten == At("wbOn", "wbRead") /\ Quiet /\ UNCHANGED item

WbAutoOn == Setting("wbOn", "wbRead", WbAuto(ent.pu), 1, TRUE)

\* The temperature is read for the log, advertised or not.
WbRead ==
    /\ At("wbRead", "hue")
    /\ GetOk(WbTemp(ent.pu)) \/ GetFails(WbTemp(ent.pu))
    /\ UNCHANGED item

\* The default, or 4500 K if it cannot be read.
WbManual ==
    \/ Setting("wbManual", "hue", WbTemp(ent.pu), 0, 6 \in ent.puBm)
    \/ 6 \in ent.puBm /\ At("wbManual", "wb4500") /\ GetFails(WbTemp(ent.pu)) /\ UNCHANGED item

Wb4500 == Setting("wb4500", "hue", WbTemp(ent.pu), 4500, TRUE)

HueAuto == Setting("hue", "line", <<ent.pu, 11>>, 1, 11 \in ent.puBm)

PowerLine50 == Setting("line", AfterUnit, <<ent.pu, 10>>, 1, 10 \in ent.puBm)

AeOrder == <<2, 8, 4>>

AeSkipped == 1 \notin ent.ctBm /\ At("ae", "focus") /\ Quiet /\ UNCHANGED item

AeAccepted ==
    /\ 1 \in ent.ctBm /\ At("ae", "priority")
    /\ SetOk(AeMode(ent.ct), AeOrder[item])
    /\ UNCHANGED item

AeTryNext ==
    /\ cpc = "ae" /\ 1 \in ent.ctBm
    /\ SetFails(AeMode(ent.ct), AeOrder[item])
    /\ \/ item < Len(AeOrder) /\ At("ae", "ae") /\ item' = item + 1
       \/ item = Len(AeOrder) /\ At("ae", "priority") /\ UNCHANGED item

AePriority == Setting("priority", "focus", <<ent.ct, 2>>, 1, 2 \in ent.ctBm)

FocusAuto == Setting("focus", "done", <<ent.ct, 17>>, 1, 17 \in ent.ctBm)

CtlNext ==
    \/ EntInterface \/ EntUnit \/ EntTerminal \/ EntOther \/ EntEnd
    \/ ApplyItem \/ WbAutoOff \/ WbTempDefault \/ WbAutoOn \/ WbRead \/ WbManual \/ Wb4500
    \/ HueAuto \/ PowerLine50
    \/ AeSkipped \/ AeAccepted \/ AeTryNext \/ AePriority \/ FocusAuto

-----------------------------------------------------------------------------
(* UvcCamera::open                                                          *)

OpenInit == Init /\ CtlInit

OpenNext ==
    \/ Next /\ (pc = "alt0" => cpc = "done") /\ UNCHANGED ctlVars
    \/ CtlNext

OpenSpec == OpenInit /\ [][OpenNext]_openVars

-----------------------------------------------------------------------------
(* Properties *)

\* The entities requests are sent to are those of the control interface, with
\* their own bmControls: an uncompressed frame with the unit's subtype, or another
\* input terminal, is not taken for one (descriptor.rs, parse_uvc_control_entities).
EntitiesInScope ==
    cpc # "scan" =>
        /\ ent.pu = 0 <=> Units = {}
        /\ ent.ct = 0 <=> Terminals = {}
        /\ ent.pu # 0 => \E k \in Units : ent.pu = cfg[k].ix /\ ent.puBm = cfg[k].bm
        /\ ent.ct # 0 => \E k \in Terminals : ent.ct = cfg[k].ix /\ ent.ctBm = cfg[k].bm

\* Control c has value v, unless a request about it got lost.
Has(c, v) == val[c] = v \/ c \in lost

\* The n-th exposure mode is the first one that the camera has.
Preferred(n) == AeOrder[n] \in modes /\ \A j \in 1..(n - 1) : AeOrder[j] \notin modes

\* Once the stream is up the camera shows what init_controls promises
\* (control.rs:99-103): picture items at their default, white balance, hue and
\* focus automatic, 50 Hz, the best exposure mode the camera has; and a control it
\* did not advertise keeps the value it had.  Refusals and losses of other
\* requests make no difference.
SettingsAsPromised ==
    Armed =>
        /\ \A k \in Units :
            LET bm == cfg[k].bm
                is(b, v) == b \in bm => Has(<<cfg[k].ix, b>>, v)
            IN  /\ \A b \in ToSet(Items) : is(b, 0)
                /\ is(12, 1) /\ is(11, 1) /\ is(10, 1)
                /\ 12 \notin bm => is(6, 0)
                /\ \A b \in 0..17 \ bm : val[<<cfg[k].ix, b>>] = start
        /\ \A k \in Terminals :
            LET bm == cfg[k].bm
                is(b, v) == b \in bm => Has(<<cfg[k].ix, b>>, v)
            IN  /\ \A n \in 1..3 : Preferred(n) => is(1, AeOrder[n])
                /\ 1 \in bm => is(2, 1)
                /\ is(17, 1)
                /\ \A b \in 0..17 \ bm : val[<<cfg[k].ix, b>>] = start

\* "Every item is sent or not by bmControls; what is not supported is skipped"
\* (control.rs:2-3, 99-100).  Does not hold: with automatic white balance the
\* temperature is read whether it is advertised or not.
OnlyAdvertisedAsked ==
    \A c \in asked : \E k \in Units \cup Terminals : c[1] = cfg[k].ix /\ c[2] \in cfg[k].bm

\* "Failure does not block: go on with the factory defaults" (session.rs, open).
\* Does not hold: a camera that came with automatic white balance is left without
\* when the request that turns it on again is lost.
DefaultsSurviveLoss ==
    Armed => \A k \in Units : (start = 1 /\ 12 \in cfg[k].bm) => val[WbAuto(cfg[k].ix)] = 1
=============================================================================
