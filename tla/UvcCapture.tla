----------------------------- MODULE UvcCapture -----------------------------
(***************************************************************************)
(* Assembling MJPEG frames from isochronous packets: capture_frame and      *)
(* try_frame of usb/uvc/capture.rs on top of IsochInEp::read_payload of     *)
(* usb/dwc2/isoch.rs.                                                       *)
(*                                                                          *)
(* The camera is external.  It sends frame after frame, flipping the frame  *)
(* id (FID) each time: real frames, whose payload runs from SOI to EOI, and *)
(* possibly the "metadata frames" capture.rs describes, which have an SOI   *)
(* but no EOI.  Payload comes in units; unit k of a frame knows its         *)
(* position, so that a hole or a mix-up shows.  A packet is lost when the   *)
(* channel reports an error for its microframe, and always while nobody is  *)
(* reading.                                                                 *)
(***************************************************************************)
EXTENDS Naturals, Sequences

CONSTANTS
    FrameLen,   \* units in a real frame
    PacketLen,  \* most units in a packet
    JpegCap,    \* jpeg_cap: units the assembly buffer holds
    Modes,      \* the environments a behaviour may run in
    UframeLimit \* bound of the counter reads: the limit that capture.rs:16 states

ASSUME UvcCaptureAssumption ==
    /\ FrameLen \in Nat \ {0, 1} /\ PacketLen \in Nat \ {0} /\ JpegCap \in Nat
    /\ Modes \subseteq [next : [{"real", "meta"} -> SUBSET {"real", "meta"}],
                         lose : BOOLEAN, fail : BOOLEAN, ids : {2, 4}]
    /\ UframeLimit \in Nat

VARIABLES
    cam,       \* camera: frame being sent (mod mode.ids), its kind, its next unit
    pc,        \* "idle", "wait" (for a flip) or "collect"
    prev,      \* prev_fid of try_frame (2 = None)
    frameFid,  \* frame_fid: the FID of the packet that ended the wait
    fid,       \* fid: that of the frame now in the buffer
    jpeg,      \* units in the assembly buffer; jpeg_len is its length
    saw,       \* saw_data
    lastFid,   \* LAST_EOF_FID (2 = not captured yet)
    tries,     \* calls of try_frame in this capture
    result,    \* what the last capture_frame returned
    why,       \* why its last try failed
    reads,     \* packets it has read, as far as UframeLimit + 1
    mode       \* mode.next[k]: what may follow a camera frame of kind k; lose:
               \* packets may be lost while a capture is reading; fail: the
               \* endpoint may stall or fall silent; ids: bound, camera
               \* frames are told apart modulo this number

rxVars == <<prev, frameFid, fid, jpeg, saw>>
vars   == <<cam, pc, rxVars, lastFid, tries, result, why, reads, mode>>

-----------------------------------------------------------------------------
(* Camera (external) *)

LastUnit(kind) == IF kind = "real" THEN FrameLen ELSE 1

Fid(f) == f % 2

Mark(kind, k) ==
    CASE k = 1 -> "SOI"
      [] kind = "real" /\ k = FrameLen -> "EOI"
      [] OTHER -> "mid"

Unit(c, k) == [f |-> c.f, k |-> k, mark |-> Mark(c.kind, k)]

Packet(c, data, eof) == [valid |-> TRUE, fid |-> Fid(c.f), eof |-> eof, data |-> data]

\* The next frame of the camera, of kind k.
FrameAfter(c, k) == [f |-> (c.f + 1) % mode.ids, kind |-> k, k |-> 1]

\* j units of payload; the last packet of a frame may carry EOF.
DataPackets ==
    {Packet(cam, [i \in 1..j |-> Unit(cam, cam.k + i - 1)], eof) :
        j \in {n \in 1..PacketLen : cam.k + n - 1 <= LastUnit(cam.kind)}, eof \in BOOLEAN}

\* Packets that carry nothing of the frame: header only, padding, bad header.
FillerPackets ==
    {Packet(cam, <<>>, FALSE), [Packet(cam, <<>>, FALSE) EXCEPT !.valid = FALSE]}
      \cup (IF cam.k = 1 THEN {Packet(cam, <<[f |-> cam.f, k |-> 0, mark |-> "mid"]>>, FALSE)}
            ELSE {})

\* A packet p leaves the camera: its frame goes on, or ends with EOF.
CamSends(p) ==
    \/ /\ p \in DataPackets
       /\ ~p.eof
       /\ cam' = [cam EXCEPT !.k = @ + Len(p.data)]
    \/ /\ p \in DataPackets
       /\ p.eof
       /\ cam.k + Len(p.data) > LastUnit(cam.kind)
       /\ \E k \in mode.next[cam.kind] : cam' = FrameAfter(cam, k)
    \/ /\ p = Packet(cam, <<>>, TRUE)
       /\ cam.k > LastUnit(cam.kind)
       /\ \E k \in mode.next[cam.kind] : cam' = FrameAfter(cam, k)
    \/ /\ p \in FillerPackets
       /\ UNCHANGED cam

Packets == DataPackets \cup {Packet(cam, <<>>, TRUE)} \cup FillerPackets

\* The camera starts its next frame without having sent EOF.
CamNoEof ==
    /\ cam.k > LastUnit(cam.kind)
    /\ \E k \in mode.next[cam.kind] : cam' = FrameAfter(cam, k)
    /\ UNCHANGED <<pc, rxVars, lastFid, tries, result, why, reads, mode>>

\* The main loop is decoding the frame it got (after an error it is back at
\* once), or the microframe is reported as an error: the packet is gone.
CamUnread ==
    /\ (pc = "idle" /\ result \in {"none", "ok"}) \/ mode.lose
    /\ \E p \in Packets : CamSends(p)
    /\ UNCHANGED <<pc, rxVars, lastFid, tries, result, why, reads, mode>>

-----------------------------------------------------------------------------
(* capture_frame *)

Init ==
    /\ cam \in [f : {0, 1}, kind : {"real"}, k : {1}]
    /\ pc = "idle"
    /\ prev = 2 /\ frameFid = 0 /\ fid = 0 /\ jpeg = <<>> /\ saw = FALSE
    /\ lastFid = 2 /\ tries = 0 /\ result = "none" /\ why = "none"
    /\ reads = 0
    /\ mode \in Modes

CaptureFrame ==
    /\ pc = "idle"
    /\ pc' = "wait"
    /\ prev' = lastFid
    /\ tries' = 1
    /\ result' = "none"
    /\ why' = "none"
    /\ reads' = 0
    /\ UNCHANGED <<cam, frameFid, fid, jpeg, saw, lastFid, mode>>

\* try_frame returned Ok.
Complete ==
    /\ pc' = "idle"
    /\ result' = "ok"
    /\ lastFid' = frameFid'
    /\ UNCHANGED <<tries, why>>

\* try_frame returned Err: Timeout leaves the loop of capture_frame as well.
GiveUp(error, reason) ==
    /\ pc' = "idle"
    /\ result' = error
    /\ why' = reason
    /\ UNCHANGED <<lastFid, tries>>

GoOn == pc' = "collect" /\ UNCHANGED <<lastFid, tries, result, why>>

-----------------------------------------------------------------------------
(* UvcPacket::append *)

\* Skipped: an empty payload, or padding before the SOI.
Skipped(p, seen) ==
    p.data = <<>> \/ (~seen /\ Head(p.data).mark # "SOI")

Overflows(p, seen, got) == ~Skipped(p, seen) /\ Len(got) + Len(p.data) > JpegCap

tail_is_eoi(got) == got # <<>> /\ got[Len(got)].mark = "EOI"

\* Append p to the buffer got, then decide whether the frame has ended.
AppendAndJudge(p, seen, got) ==
    IF Overflows(p, seen, got)
      THEN jpeg' = got /\ saw' = seen /\ GiveUp("hard", "overflow")
      ELSE /\ jpeg' = IF Skipped(p, seen) THEN got ELSE got \o p.data
           /\ saw' = (seen \/ ~Skipped(p, seen))
           /\ CASE p.eof /\ saw' /\ tail_is_eoi(jpeg') -> Complete
                [] p.eof /\ ~(saw' /\ tail_is_eoi(jpeg')) -> GiveUp("timeout", "residual")
                [] OTHER -> GoOn

-----------------------------------------------------------------------------
(* try_frame, one action per way to treat a packet that read_payload returned *)

\* A packet arrives at the reader.
Reads(p) ==
    /\ pc \in {"wait", "collect"}
    /\ CamSends(p)
    /\ reads' = IF reads > UframeLimit THEN reads ELSE reads + 1
    /\ UNCHANGED mode

\* UvcPacket::new refused the header: read the next one.
SkipBadHeader(p) ==
    /\ Reads(p)
    /\ ~p.valid
    /\ UNCHANGED <<pc, rxVars, lastFid, tries, result, why>>

\* Mutant: the first FID seen is not remembered.
WaitSameNoPrev(p) ==
    /\ Reads(p)
    /\ pc = "wait"
    /\ p.valid
    /\ prev \in {2, p.fid}
    /\ UNCHANGED <<pc, rxVars, lastFid, tries, result, why>>

\* Phase 1, no FID known yet or the FID as before.
WaitSame(p) ==
    /\ Reads(p)
    /\ pc = "wait"
    /\ p.valid
    /\ prev \in {2, p.fid}
    /\ prev' = p.fid
    /\ UNCHANGED <<pc, frameFid, fid, jpeg, saw, lastFid, tries, result, why>>

\* Phase 1 ends: this packet is the first of its frame.
WaitFlip(p) ==
    /\ Reads(p)
    /\ pc = "wait"
    /\ p.valid
    /\ prev \notin {2, p.fid}
    /\ frameFid' = p.fid
    /\ fid' = p.fid
    /\ UNCHANGED prev
    /\ AppendAndJudge(p, FALSE, <<>>)

\* Phase 2, a packet of the same frame.
CollectSame(p) ==
    /\ Reads(p)
    /\ pc = "collect"
    /\ p.valid
    /\ p.fid = fid
    /\ UNCHANGED <<prev, frameFid, fid>>
    /\ AppendAndJudge(p, saw, jpeg)

\* Phase 2, the FID flips behind a complete frame: the packet is not used.
CollectFlipComplete(p) ==
    /\ Reads(p)
    /\ pc = "collect"
    /\ p.valid
    /\ p.fid # fid
    /\ saw /\ tail_is_eoi(jpeg)
    /\ UNCHANGED rxVars
    /\ Complete

\* Mutant: the units of the residual frame stay in the buffer.
CollectFlipBufferKept(p) ==
    /\ Reads(p)
    /\ pc = "collect"
    /\ p.valid
    /\ p.fid # fid
    /\ ~(saw /\ tail_is_eoi(jpeg))
    /\ fid' = p.fid
    /\ UNCHANGED <<prev, frameFid>>
    /\ AppendAndJudge(p, saw, jpeg)

\* Phase 2, the FID flips behind a residual frame: start over with this packet.
CollectFlipResidual(p) ==
    /\ Reads(p)
    /\ pc = "collect"
    /\ p.valid
    /\ p.fid # fid
    /\ ~(saw /\ tail_is_eoi(jpeg))
    /\ fid' = p.fid
    /\ UNCHANGED <<prev, frameFid>>
    /\ AppendAndJudge(p, FALSE, <<>>)

\* read_payload: MAX_UFRAMES empty microframes, or a channel timeout.
ReadTimeout ==
    /\ mode.fail
    /\ pc \in {"wait", "collect"}
    /\ UNCHANGED <<cam, rxVars, reads, mode>>
    /\ GiveUp("timeout", "silent")

\* read_uframe: STALL or AHBERR.
ReadHardError ==
    /\ mode.fail
    /\ pc \in {"wait", "collect"}
    /\ UNCHANGED <<cam, rxVars, reads, mode>>
    /\ GiveUp("hard", "stall")

ReadPacket(p) ==
    \/ SkipBadHeader(p)
    \/ WaitSame(p) \/ WaitFlip(p)
    \/ CollectSame(p) \/ CollectFlipComplete(p) \/ CollectFlipResidual(p)

Read == \E p \in Packets : ReadPacket(p)

Next == CaptureFrame \/ Read \/ ReadTimeout \/ ReadHardError \/ CamNoEof \/ CamUnread

Spec == Init /\ [][Next]_vars

(***************************************************************************)
(* Fairness: the main loop calls capture_frame again and again and reads on *)
(* while packets come.  FairCamera adds a camera that gets on with its      *)
(* frame, every packet of payload reaching a waiting reader.                *)
(***************************************************************************)
ReadData == \E p \in DataPackets : ReadPacket(p)

ReadEof == ReadPacket(Packet(cam, <<>>, TRUE))

FairSpec == Spec /\ WF_vars(CaptureFrame) /\ WF_vars(Read)

FairCamera == FairSpec /\ WF_vars(ReadData) /\ WF_vars(CamNoEof \/ ReadEof)

-----------------------------------------------------------------------------
(* Properties *)

Units == [f : 0..(mode.ids - 1), k : 0..FrameLen, mark : {"SOI", "mid", "EOI"}]

TypeOK ==
    /\ cam \in [f : 0..(mode.ids - 1), kind : {"real", "meta"}, k : 1..(FrameLen + 1)]
    /\ pc \in {"idle", "wait", "collect"}
    /\ prev \in 0..2 /\ frameFid \in 0..1 /\ fid \in 0..1
    /\ jpeg \in Seq(Units) /\ Len(jpeg) <= JpegCap /\ saw \in BOOLEAN
    /\ lastFid \in 0..2 /\ tries \in 0..4
    /\ result \in {"none", "ok", "timeout", "hard"}
    /\ why \in {"none", "residual", "silent", "overflow", "stall"}
    /\ reads \in 0..(UframeLimit + 1)
    /\ mode \in Modes

\* From SOI to EOI, and no packets of different FID.
FrameShape ==
    /\ jpeg # <<>>
    /\ jpeg[1].mark = "SOI"
    /\ jpeg[Len(jpeg)].mark = "EOI"
    /\ \A i \in 1..Len(jpeg) : Fid(jpeg[i].f) = fid

\* Exactly one real frame of the camera.
FrameWhole ==
    /\ Len(jpeg) = FrameLen
    /\ \A i \in 1..FrameLen : jpeg[i].k = i /\ jpeg[i].f = jpeg[1].f

\* Whatever is lost, a frame handed to the decoder starts with SOI, ends with EOI
\* and mixes no packets of different FID; while no packet is lost it is exactly one
\* real frame, even when the capture began in the middle of another, or behind
\* padding and metadata frames; and the assembly area is never overrun
\* (capture.rs, try_frame and UvcPacket::append).
ReturnedFrameSound ==
    /\ Len(jpeg) <= JpegCap
    /\ result = "ok" => FrameShape
    /\ (result = "ok" /\ ~mode.lose) => FrameWhole

\* "The FID of the last complete frame, kept across captures" (capture.rs:74).
LastFidIsFrames == result = "ok" => lastFid = fid

\* "Residual frame: retry; not done in 4 rounds: timeout" (capture.rs:96).
ResidualIsRetried == (result = "timeout" /\ why = "residual") => tries = 4

\* A camera that sends nothing but real frames, over a bus that loses nothing,
\* keeps the main loop supplied, wherever a capture begins in the stream: the
\* flip of the FID is never missed for good (capture.rs:65-113).
FramesKeepComing ==
    (mode.next["real"] = {"real"} /\ ~mode.lose /\ ~mode.fail) => []<>(result = "ok")

\* A residual frame is dropped and the capture retried (capture.rs:86-88): the
\* supply does not depend on what the camera sends between its real frames.
FramesComeBetweenMetadata ==
    (~mode.lose /\ ~mode.fail) => []<>(result = "ok")

\* "Upper limits (waiting for the flip and collecting: 80k microframes each)"
\* (capture.rs:16): a capture reads no more than that.
CaptureIsBounded == reads <= UframeLimit
=============================================================================
