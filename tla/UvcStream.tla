----------------------------- MODULE UvcStream ------------------------------
(***************************************************************************)
(* Opening the video stream of a camera: the scan of its configuration      *)
(* descriptor (parse_uvc_video_stream and its helpers, usb/uvc/             *)
(* descriptor.rs) and the negotiation that follows (start_stream, usb/uvc/  *)
(* stream.rs): PROBE, the camera's answer, the choice of an alternate       *)
(* setting, COMMIT, SET_INTERFACE.                                          *)
(*                                                                          *)
(* A configuration descriptor is the sequence of its descriptors that the   *)
(* scan reaches, each reduced to the fields the scan reads; one too short   *)
(* for its fields counts as "other".  Option<T> is a sequence of length at  *)
(* most one.  The dwMaxVideoFrameSize hint and GET_MAX's answer, which is   *)
(* only logged, are left out.  The camera is external: any control request  *)
(* may fail, with or without having taken effect, and the camera answers    *)
(* PROBE with a payload size of its own, the rest as the host wrote it.     *)
(***************************************************************************)
EXTENDS Integers, Sequences, SequencesExt, FiniteSets, FiniteSetsExt

CONSTANTS
    Configs,     \* configuration descriptors the camera may have
    PrefW, PrefH,  \* preferred frame size, 640 x 480 in the code
    PrefTicks,   \* preferred frame interval in 100 ns ticks, 0 for none
    Payloads,    \* dwMaxPayloadTransferSize values the camera may answer
    MaxAlts      \* length of isoch_alts, 8 in the code

PrefArea == PrefW * PrefH
EXACT_RANK == 2000000

ASSUME UvcStreamAssumption ==
    /\ PrefW \in Nat /\ PrefH \in Nat /\ PrefTicks \in Nat
    /\ PrefArea < EXACT_RANK
    /\ Payloads \subseteq Nat
    /\ MaxAlts \in Nat \ {0}
    /\ \A c \in Configs :
          /\ Len(c) \in Nat /\ DOMAIN c = 1..Len(c)
          /\ \A k \in DOMAIN c :
                /\ c[k].ty = "interface" => c[k].vs \in BOOLEAN
                /\ c[k].ty = "frame" =>
                      /\ c[k].w \in Nat /\ c[k].h \in Nat /\ c[k].mjpeg \in BOOLEAN
                      /\ c[k].w * c[k].h <= 2147483647  \* frame_rank's i32
                      /\ c[k].dflt \in Nat /\ c[k].ivals \in Seq(Nat)
                      /\ c[k].continuous \in BOOLEAN
                /\ c[k].ty = "endpoint" =>
                      c[k].raw \in Nat /\ c[k].in \in BOOLEAN /\ c[k].isoch \in BOOLEAN

VARIABLES
    cfg,      \* the descriptor being scanned
    pc,       \* the step of open at hand
    i,        \* index of the descriptor at hand
    cur,      \* cur_ifc_num, cur_alt and whether the interface is a VS one
    fmtIx,    \* cur_fmt_ix
    best,     \* IsochCandidates.best
    alts,     \* IsochCandidates.alts and count
    mjpeg,    \* mjpeg_pick
    uncomp,   \* uncomp_pick
    sel,      \* UvcStreamSelection
    probe,    \* the probe buffer of start_stream
    cam       \* the camera: current alternate setting, PROBE and COMMIT state

scanVars == <<cfg, i, cur, fmtIx, best, alts, mjpeg, uncomp>>
vars == <<scanVars, pc, sel, probe, cam>>

-----------------------------------------------------------------------------
(* wMaxPacketSize and frame intervals *)

\* Low eleven bits; the bits above hold the transactions per microframe.
wmax_mps(raw) == raw % 2048
wmax_payload_per_uframe(raw) == wmax_mps(raw)

from_uvc_ticks(t) == t * 100
to_uvc_ticks(ns) == ns \div 100

Distance(v) == IF v >= PrefTicks THEN v - PrefTicks ELSE PrefTicks - v

\* Mutant: the first nonzero candidate stays.
BestForKeepsFirst(b, v) == IF v = 0 \/ b # << >> THEN b ELSE <<v>>

\* The closure best_for of choose_frame_interval.
BestFor(b, v) ==
    IF v # 0 /\ (b = << >> \/ Distance(v) < Distance(b[1])) THEN <<v>> ELSE b

\* The candidates one after the other.
BestOf(cands) ==
    LET after[n \in 0..Len(cands)] ==
            IF n = 0 THEN << >> ELSE BestFor(after[n - 1], cands[n])
    IN  after[Len(cands)]

\* A continuous range is <<min, max, step>> in f.ivals, empty when the descriptor
\* is too short for it; a discrete list holds the entries the descriptor has room
\* for.  The step is read for the log only (descriptor.rs:275).
HasRange(f) == f.continuous /\ Len(f.ivals) = 3

\* pref.clamp(lo, hi) panics when the camera's range is upside down.
ClampPanics(f) ==
    PrefTicks # 0 /\ HasRange(f) /\ f.ivals[2] > 0 /\ f.ivals[1] > f.ivals[2]

Clamp(v, lo, hi) == IF v < lo THEN lo ELSE IF v > hi THEN hi ELSE v

choose_frame_interval(f) ==
    LET listed == IF ~f.continuous THEN f.ivals
                  ELSE IF HasRange(f) /\ f.ivals[1] > 0 /\ f.ivals[2] > 0
                       THEN <<Clamp(PrefTicks, f.ivals[1], f.ivals[2])>>
                       ELSE << >>
        b == BestOf(Append(listed, f.dflt))
    IN  IF PrefTicks = 0 \/ b = << >> THEN 0 ELSE b[1]

\* min_ival of parse_vs_frame.
MinInterval(f) ==
    IF f.continuous
    THEN IF HasRange(f) /\ f.ivals[1] > 0 THEN f.ivals[1] ELSE f.dflt
    ELSE FoldLeft(LAMBDA m, v : IF v > 0 /\ v < m THEN v ELSE m, f.dflt, f.ivals)

\* parse_vs_frame: the FramePick of a frame descriptor under format ix.
parse_vs_frame(f, ix) ==
    LET chosen == choose_frame_interval(f)
    IN  [fmt |-> ix, frame |-> f.ix, w |-> f.w, h |-> f.h, mjpeg |-> f.mjpeg,
         ival |-> IF chosen > 0 THEN chosen
                  ELSE IF MinInterval(f) > 0 THEN MinInterval(f) ELSE f.dflt]

\* Mutant: only the area is compared.
FrameRankByArea(p) == PrefArea - p.w * p.h

frame_rank(p) ==
    IF p.w = PrefW /\ p.h = PrefH THEN EXACT_RANK
    ELSE IF p.w * p.h <= PrefArea THEN PrefArea - p.w * p.h
         ELSE -(p.w * p.h - PrefArea)

-----------------------------------------------------------------------------
(* parse_uvc_video_stream *)

NoSel == << >>

Init ==
    /\ cfg \in Configs /\ i = 1 /\ pc = "scan"
    /\ cur = [num |-> 0, alt |-> 0, vs |-> FALSE]
    /\ fmtIx = 0 /\ best = << >> /\ alts = << >>
    /\ mjpeg = << >> /\ uncomp = << >>
    /\ sel = NoSel /\ probe = << >>
    /\ cam = [alt |-> 0, probe |-> << >>, commit |-> << >>]

\* The loop is at a descriptor of type ty and steps over it.
AtDesc(ty) ==
    /\ pc = "scan" /\ i <= Len(cfg) /\ cfg[i].ty = ty
    /\ i' = i + 1

ScanInterface ==
    /\ AtDesc("interface")
    /\ cur' = [num |-> cfg[i].num, alt |-> cfg[i].alt, vs |-> cfg[i].vs]
    /\ UNCHANGED <<cfg, pc, fmtIx, best, alts, mjpeg, uncomp, sel, probe, cam>>

\* VS_FORMAT_MJPEG or VS_FORMAT_UNCOMPRESSED.
ScanFormat ==
    /\ AtDesc("format")
    /\ fmtIx' = IF cur.vs THEN cfg[i].ix ELSE fmtIx
    /\ UNCHANGED <<cfg, pc, cur, best, alts, mjpeg, uncomp, sel, probe, cam>>

\* The interface at hand is a video streaming one.
InStreaming == cur.vs

\* VS_FRAME_MJPEG or VS_FRAME_UNCOMPRESSED.  Both subtypes have another meaning
\* under the control interface.
ScanFrame ==
    /\ AtDesc("frame")
    /\ LET pick == parse_vs_frame(cfg[i], fmtIx)
           prev == IF pick.mjpeg THEN mjpeg ELSE uncomp
           beats == /\ InStreaming
                    /\ prev = << >> \/ frame_rank(pick) > frame_rank(prev[1])
       IN  /\ ~(InStreaming /\ ClampPanics(cfg[i]))
           /\ mjpeg' = IF beats /\ pick.mjpeg THEN <<pick>> ELSE mjpeg
           /\ uncomp' = IF beats /\ ~pick.mjpeg THEN <<pick>> ELSE uncomp
    /\ UNCHANGED <<cfg, pc, cur, fmtIx, best, alts, sel, probe, cam>>

ScanFramePanics ==
    /\ AtDesc("frame")
    /\ InStreaming /\ ClampPanics(cfg[i])
    /\ pc' = "panic"
    /\ UNCHANGED <<cfg, cur, fmtIx, best, alts, mjpeg, uncomp, sel, probe, cam>>

\* The alternate setting is recorded while the table has room.
Table(t, a) == IF Len(t) < MaxAlts THEN Append(t, a) ELSE t

\* IsochCandidates::consider.
ScanEndpoint ==
    /\ AtDesc("endpoint")
    /\ LET e == cfg[i]
           counts == InStreaming /\ e.in /\ e.isoch
           wider == \/ best = << >>
                    \/ wmax_payload_per_uframe(e.raw) > wmax_payload_per_uframe(best[1].raw)
       IN  /\ best' = IF counts /\ wider
                      THEN <<[alt |-> cur.alt, ep |-> e.ep, raw |-> e.raw, ifc |-> cur.num]>>
                      ELSE best
           /\ alts' = IF counts THEN Table(alts, [alt |-> cur.alt, raw |-> e.raw]) ELSE alts
    /\ UNCHANGED <<cfg, pc, cur, fmtIx, mjpeg, uncomp, sel, probe, cam>>

\* Terminals of the control interface among them.
ScanOther ==
    /\ AtDesc("other") \/ AtDesc("terminal")
    /\ UNCHANGED <<cfg, pc, cur, fmtIx, best, alts, mjpeg, uncomp, sel, probe, cam>>

\* The end of the scan: without an isochronous endpoint or a frame, an error.
ScanFails ==
    /\ pc = "scan" /\ i > Len(cfg)
    /\ best = << >> \/ (mjpeg = << >> /\ uncomp = << >>)
    /\ pc' = "error"
    /\ UNCHANGED <<scanVars, sel, probe, cam>>

Select ==
    /\ pc = "scan" /\ i > Len(cfg)
    /\ best # << >> /\ (mjpeg # << >> \/ uncomp # << >>)
    /\ LET pick == IF mjpeg # << >> THEN mjpeg[1] ELSE uncomp[1]
       IN  sel' = [ifc |-> best[1].ifc, alt |-> best[1].alt, ep |-> best[1].ep,
                   raw |-> best[1].raw, fmt |-> pick.fmt, frame |-> pick.frame,
                   interval |-> from_uvc_ticks(pick.ival), payload |-> 0, alts |-> alts]
    /\ pc' = "alt0"
    /\ UNCHANGED <<scanVars, probe, cam>>

-----------------------------------------------------------------------------
(* start_stream *)

build_probe_commit_payload ==
    [fmt |-> sel.fmt, frame |-> sel.frame, ival |-> to_uvc_ticks(sel.interval),
     payload |-> wmax_payload_per_uframe(sel.raw)]

\* Mutant: the narrowest alternate setting, sufficient or not.
ReselectNarrowest(s) ==
    LET fit == FoldLeft(LAMBDA b, a :
                   IF b = << >> \/ wmax_mps(b[1].raw) > wmax_mps(a.raw) THEN <<a>> ELSE b,
                   << >>, s.alts)
    IN  IF s.alts = << >> \/ s.payload = 0 THEN s
        ELSE [s EXCEPT !.alt = fit[1].alt, !.raw = fit[1].raw]

\* An alternate setting of the table against the best fit, or the widest, so far.
FitFor(b, a, payload) ==
    IF wmax_mps(a.raw) >= payload /\ (b = << >> \/ wmax_mps(b[1].raw) > wmax_mps(a.raw))
    THEN <<a>> ELSE b

WidestFor(b, a) == IF b = << >> \/ wmax_mps(b[1].raw) < wmax_mps(a.raw) THEN <<a>> ELSE b

BestFit(t, payload) ==
    LET after[n \in 0..Len(t)] == IF n = 0 THEN << >> ELSE FitFor(after[n - 1], t[n], payload)
    IN  after[Len(t)]

Widest(t) ==
    LET after[n \in 0..Len(t)] == IF n = 0 THEN << >> ELSE WidestFor(after[n - 1], t[n])
    IN  after[Len(t)]

\* reselect_isoch_alt_for_payload: the narrowest alternate setting of the table
\* that carries the negotiated payload, the widest one if none does.
Reselect(s) ==
    LET bestFit == BestFit(s.alts, s.payload)
        new == IF bestFit # << >> THEN bestFit[1] ELSE Widest(s.alts)[1]
    IN  IF s.alts = << >> \/ s.payload = 0 THEN s
        ELSE [s EXCEPT !.alt = new.alt, !.raw = new.raw]

\* Mutant: the payload size is never reduced.
CommitPayloadUnclamped(s) == s.payload

\* The payload size COMMIT asks for: no more than the alternate setting carries.
CommitPayload(s) ==
    LET altMps == wmax_payload_per_uframe(s.raw)
    IN  IF altMps > 0 /\ altMps < s.payload THEN altMps ELSE s.payload

\* A control request at step "at" succeeds, or fails.
Ok(at, next) == pc = at /\ pc' = next
Fails(at) == pc = at /\ pc' = "error"

CamIs(field, v) == cam' = [cam EXCEPT ![field] = v]

\* Back to alternate setting 0; a failure is ignored.
SetAlt0 ==
    /\ Ok("alt0", "setprobe")
    /\ CamIs("alt", 0) \/ UNCHANGED cam
    /\ UNCHANGED <<scanVars, sel, probe>>

SetProbe ==
    /\ Ok("setprobe", "getmax")
    /\ CamIs("probe", build_probe_commit_payload)
    /\ UNCHANGED <<scanVars, sel, probe>>

SetProbeFails ==
    /\ Fails("setprobe")
    /\ CamIs("probe", build_probe_commit_payload) \/ UNCHANGED cam
    /\ UNCHANGED <<scanVars, sel, probe>>

\* GET_MAX, its outcome ignored.
GetMax ==
    /\ Ok("getmax", "getprobe")
    /\ UNCHANGED <<scanVars, sel, probe, cam>>

\* GET_CUR, and what start_stream computes from the answer.
GetProbe ==
    /\ Ok("getprobe", "commit")
    /\ \E p \in Payloads :
          LET answer == [cam.probe EXCEPT !.payload = p]
              chosen == Reselect([sel EXCEPT !.payload = p])
          IN  /\ CamIs("probe", answer)
              /\ sel' = [chosen EXCEPT !.payload = CommitPayload(chosen)]
              /\ probe' = [answer EXCEPT !.payload = CommitPayload(chosen)]
    /\ UNCHANGED scanVars

GetProbeFails ==
    /\ Fails("getprobe")
    /\ UNCHANGED <<scanVars, sel, probe, cam>>

SetCommit ==
    /\ Ok("commit", "arm")
    /\ CamIs("commit", probe)
    /\ UNCHANGED <<scanVars, sel, probe>>

SetCommitFails ==
    /\ Fails("commit")
    /\ CamIs("commit", probe) \/ UNCHANGED cam
    /\ UNCHANGED <<scanVars, sel, probe>>

\* SET_INTERFACE with the selected alternate setting.
Arm ==
    /\ Ok("arm", "armed")
    /\ CamIs("alt", sel.alt)
    /\ UNCHANGED <<scanVars, sel, probe>>

ArmFails ==
    /\ Fails("arm")
    /\ CamIs("alt", sel.alt) \/ UNCHANGED cam
    /\ UNCHANGED <<scanVars, sel, probe>>

Next ==
    \/ ScanInterface \/ ScanFormat \/ ScanFrame \/ ScanFramePanics
    \/ ScanEndpoint \/ ScanOther \/ ScanFails \/ Select
    \/ SetAlt0 \/ SetProbe \/ SetProbeFails \/ GetMax
    \/ GetProbe \/ GetProbeFails \/ SetCommit \/ SetCommitFails
    \/ Arm \/ ArmFails

Spec == Init /\ [][Next]_vars

-----------------------------------------------------------------------------
(* Properties.  They read the descriptor as a whole, without the scan's      *)
(* running state.                                                            *)

\* Shape of the scan's and the negotiation's state; the table of alternate
\* settings never outgrows its array.
TypeOK ==
    /\ pc \in {"scan", "alt0", "setprobe", "getmax", "getprobe", "commit", "arm",
               "armed", "error", "panic"}
    /\ i \in 1..(Len(cfg) + 1)
    /\ \A o \in {mjpeg, uncomp} : o = << >> \/ (Len(o) = 1 /\ o[1].ival \in Nat)
    /\ Len(best) <= 1 /\ Len(alts) <= MaxAlts
    /\ pc \in {"commit", "arm", "armed"} => sel.payload \in Nat /\ probe.payload = sel.payload

\* The interface descriptor in whose scope descriptor k lies, 0 if none.
ScopeOf(k) ==
    LET before == {j \in 1..k : cfg[j].ty = "interface"}
    IN  IF before = {} THEN 0 ELSE Max(before)

InVs(k) == ScopeOf(k) # 0 /\ cfg[ScopeOf(k)].vs

\* Frames of the streaming interfaces: the MJPEG ones when there are any.
VsFrames == {k \in DOMAIN cfg : cfg[k].ty = "frame" /\ InVs(k)}
Offered ==
    LET m == {k \in VsFrames : cfg[k].mjpeg}
    IN  IF m # {} THEN m ELSE VsFrames

\* The format descriptor frame k belongs to.
FormatOf(k) ==
    LET before == {j \in 1..k : cfg[j].ty = "format" /\ InVs(j)}
    IN  IF before = {} THEN 0 ELSE cfg[Max(before)].ix

Area(k) == cfg[k].w * cfg[k].h
Exact(k) == cfg[k].w = PrefW /\ cfg[k].h = PrefH

Armed == pc = "armed"

\* Frame k is the one the camera was committed to.
Committed(k) == cam.commit.fmt = FormatOf(k) /\ cam.commit.frame = cfg[k].ix

\* The camera is committed to a frame of its own streaming interface, an MJPEG
\* one if it has any; of those to one of exactly the preferred size if there is
\* one, to none above the preferred area (the decoder's pool holds no more) if
\* a smaller one exists, and else to the smallest (descriptor.rs, frame_rank and
\* the picks of parse_uvc_video_stream).
CommittedFramePreferred ==
    Armed =>
        \E k \in Offered :
            /\ Committed(k)
            /\ (\E c \in Offered : Exact(c)) => Exact(k)
            /\ (\E c \in Offered : Area(c) <= PrefArea) => Area(k) <= PrefArea
            /\ (\A c \in Offered : Area(c) > PrefArea) =>
                   \A c \in Offered : Area(k) <= Area(c)

\* v is one of min, min + step, min + 2 * step, ...; a step of 0 leaves none out.
OnStep(f, v) == f.ivals[3] = 0 \/ (v - f.ivals[1]) % f.ivals[3] = 0

\* Every interval frame k supports: the default one and those of its list or, in
\* steps, of its range.
Intervals(k) ==
    LET f == cfg[k]
    IN  ({f.dflt} \cup
         IF ~f.continuous THEN ToSet(f.ivals)
         ELSE IF HasRange(f) /\ f.ivals[1] > 0
              THEN {v \in f.ivals[1]..f.ivals[2] : OnStep(f, v)}
              ELSE {}) \ {0}

\* The value nearest to the preferred interval between the bounds of frame k's
\* range lies between two steps: it is not one the frame supports.
BetweenSteps(k) ==
    LET f == cfg[k]
    IN  HasRange(f) /\ ~OnStep(f, Clamp(PrefTicks, f.ivals[1], f.ivals[2]))

\* With a preferred interval set, no interval the committed frame supports is
\* closer to it than the one the camera is committed to, and that one is
\* supported itself, unless the frame has a range whose steps miss the place
\* (choose_frame_interval, which does not look at the step; "最接近" in the comment
\* of UvcPrefs).
CommittedIntervalClosest ==
    Armed /\ PrefTicks > 0 =>
        \E k \in Offered :
            /\ Committed(k)
            /\ Intervals(k) # {} =>
                  /\ \A v \in Intervals(k) : Distance(cam.commit.ival) <= Distance(v)
                  /\ cam.commit.ival \in Intervals(k) \/ BetweenSteps(k)

\* Isochronous IN endpoints of the streaming interfaces.
IsochIn ==
    {k \in DOMAIN cfg : cfg[k].ty = "endpoint" /\ cfg[k].in /\ cfg[k].isoch /\ InVs(k)}

\* Endpoint k is the selected one, under the alternate setting the camera is in.
ArmedEndpoint(k) ==
    /\ cfg[ScopeOf(k)].num = sel.ifc
    /\ cfg[ScopeOf(k)].alt = cam.alt
    /\ cfg[k].ep = sel.ep

\* After open, the alternate setting the camera was put in has the endpoint the
\* host will read, with the packet size the host counts on, and the camera never
\* sends more per microframe than that endpoint carries (start_stream's clamp of
\* dwMaxPayloadTransferSize), whatever it answered to PROBE.
StreamFits ==
    Armed =>
        \E k \in IsochIn :
            /\ ArmedEndpoint(k) /\ cfg[k].raw = sel.raw
            /\ wmax_mps(cfg[k].raw) > 0 => cam.commit.payload <= wmax_mps(cfg[k].raw)

\* Of all alternate settings the one armed is the narrowest that carries the
\* payload the camera asked for, or the widest if none does: comment of
\* reselect_isoch_alt_for_payload.
ArmedAltFits ==
    Armed /\ cam.probe.payload > 0 =>
        LET sizes == {wmax_mps(cfg[k].raw) : k \in IsochIn}
            enough == {s \in sizes : s >= cam.probe.payload}
        IN  wmax_mps(sel.raw) = IF enough # {} THEN Min(enough) ELSE Max(sizes)

\* Comment of frame_rank: of the frames that do not exceed the preferred area,
\* the closest to it is the best.  Does not hold: the rank grows as the area
\* shrinks.
ClosestBelowWins ==
    Armed /\ ~(\E c \in Offered : Exact(c)) =>
        \E k \in Offered :
            /\ Committed(k)
            /\ \A c \in Offered : Area(c) <= PrefArea => Area(c) <= Area(k)

\* Comment of choose_frame_interval (descriptor.rs:74): the interval is chosen from
\* those the frame descriptor offers.  Does not hold: the clamp to a continuous
\* range ignores dwFrameIntervalStep.
CommittedIntervalSupported ==
    Armed /\ PrefTicks > 0 =>
        \E k \in Offered :
            Committed(k) /\ (Intervals(k) # {} => cam.commit.ival \in Intervals(k))

\* Comment of reselect_isoch_alt_for_payload: only alternate settings with one
\* transaction per microframe are considered.  Does not hold: the table and the
\* choice ignore the multiplier bits.
OneTransactionOnly ==
    Armed /\ (\E k \in IsochIn : cfg[k].raw < 2048) => sel.raw < 2048
=============================================================================
