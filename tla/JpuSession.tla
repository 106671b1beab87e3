----------------------------- MODULE JpuSession -----------------------------
(***************************************************************************)
(* Decoding a captured frame into the shared YUV buffer:                    *)
(* decode_and_notify of main.rs, decode_to_shared with its "drop and        *)
(* rebuild" recovery (jpu/session.rs), JpuDecoder (jpu/decoder.rs), the     *)
(* reset sequences (jpu/regs.rs) and the page pool of the bitstream buffer  *)
(* (jpu/mem.rs).                                                            *)
(*                                                                          *)
(* External: the JPU, which writes the one YUV buffer by DMA (a top and a   *)
(* bottom half here), may report an error, be slow, or wedge until its      *)
(* reset line is pulsed; and the big core, which goes by bit 15 of the      *)
(* flags word (FLAG_YUV_READY, b2s-comm-test) and copies the buffer under a *)
(* sequence check on the frame count (memory.ld:4).                         *)
(*                                                                          *)
(* Addresses are counted in units that divide the page size.                *)
(***************************************************************************)
EXTENDS Naturals, FiniteSets

CONSTANTS
    PageUnits,    \* VMEM_PAGE_SIZE
    PoolBase,     \* JPU_POOL_PA
    PoolSize,     \* JPU_POOL_SIZE
    StreamSize,   \* STREAM_BUF_SIZE
    YuvBufSize,   \* YUV_BUF_SIZE
    Pictures,     \* what a frame can hold: width, height, decoded size, JPEG length,
                  \* and whether its header makes the parser panic
    PANIC_FC,     \* frame_count of a panic (0xFFFFFFFF)
    MaxFrames     \* bound on captured frames

ASSUME JpuSessionAssumption ==
    /\ PageUnits \in Nat \ {0}
    /\ PoolBase \in Nat /\ PoolSize \in Nat /\ StreamSize \in Nat \ {0}
    /\ MaxFrames \in Nat /\ YuvBufSize \in Nat
    /\ PANIC_FC \in Nat /\ MaxFrames < PANIC_FC
    /\ Pictures \subseteq [w : Nat, h : Nat, size : Nat, jpeg : Nat, fatal : BOOLEAN]

VARIABLES
    mpc,       \* what the main loop does next
    frames,    \* its frame counter
    pic,       \* the picture in the last captured frame
    outcome,   \* the decode of this frame succeeded
    ann,       \* mailbox: frame count, yuv_size and flags (set of bit numbers)
    present,   \* DECODER holds a decoder ...
    stream,    \* ... with these pages of the pool as its stream_buf
    free,      \* free pages (the bitmap)
    hw,        \* JPU: "idle", "top", "bottom" (what it writes next), "wedged"
    job,       \* the frame it works on
    status,    \* flags of pic_status
    yuv,       \* the shared buffer: which frame each half belongs to
    rd         \* big core: its copy, and the frame count it began with

mainVars == <<mpc, frames, pic, outcome, ann>>
memVars  == <<present, stream, free>>
jpuVars  == <<hw, job, status, yuv>>
vars     == <<mainVars, memVars, jpuVars, rd>>

-----------------------------------------------------------------------------
(* The page pool *)

\* init rounds the base up and the size down, each by itself.
PoolStart == ((PoolBase + PageUnits - 1) \div PageUnits) * PageUnits

Pages == 0..((PoolSize \div PageUnits) - 1)

StreamPages == (StreamSize + PageUnits - 1) \div PageUnits

\* alloc: the lowest run of free pages that is long enough.
Runs(pages) ==
    {p \in pages : \A i \in p..(p + StreamPages - 1) : i \in pages}

FirstRun(pages) ==
    LET start == CHOOSE p \in Runs(pages) : \A q \in Runs(pages) : p <= q
    IN  start..(start + StreamPages - 1)

PageEnd(p) == PoolStart + (p + 1) * PageUnits

\* create_decoder: the pool starts from scratch, then the buffer is allocated.
\* The soft reset of hardware_init does not revive a wedged JPU (regs.rs:211).
CreateDecoder ==
    IF Runs(Pages) = {}
      THEN present' = FALSE /\ stream' = {} /\ free' = Pages
      ELSE /\ present' = TRUE
           /\ stream' = FirstRun(Pages)
           /\ free' = Pages \ FirstRun(Pages)

-----------------------------------------------------------------------------
(* The flags word of a frame announcement *)

FLAG_SOI == 0
FLAG_EOI == 1
FLAG_YUV_READY == 15

Bits(x) == {b \in 0..11 : (x \div 2^b) % 2 = 1}

encode_dims(w, h) == {b + 20 : b \in Bits(w)} \cup {b + 8 : b \in Bits(h)}

\* The height a reader takes from it.
DecodedHeight(flags) == {b \in 0..11 : b + 8 \in flags}

-----------------------------------------------------------------------------

Init ==
    /\ mpc = "idle" /\ frames = 0 /\ outcome = FALSE
    /\ pic \in Pictures
    /\ ann = [n |-> 0, size |-> 0, flags |-> {}]
    /\ present = FALSE /\ stream = {} /\ free = {}
    /\ hw = "idle" /\ job = 0 /\ status = {} /\ yuv = [top |-> 0, bottom |-> 0]
    /\ rd = [pc |-> "idle", seq |-> 0, top |-> 0, bottom |-> 0]

\* capture_frame returned a frame, which lies inside the DMA window.
Captured ==
    /\ mpc = "idle"
    /\ frames < MaxFrames
    /\ frames' = frames + 1
    /\ pic' \in Pictures
    /\ mpc' = IF present THEN "decode" ELSE "create"
    /\ UNCHANGED <<outcome, ann, memVars, jpuVars, rd>>

\* decode_to_shared makes the decoder on first use, or after a failed rebuild.
FirstCreate ==
    /\ mpc = "create"
    /\ CreateDecoder
    /\ outcome' = FALSE
    /\ mpc' = IF present' THEN "decode" ELSE "notify"
    /\ UNCHANGED <<frames, pic, ann, jpuVars, rd>>

\* parse_jpeg_header indexes its arrays with a number of values or of a table that it
\* took from the header unchecked (header.rs:421 and 450; JpegHeader shows when): the
\* panic handler marks the mailbox record, and the main loop is over.
DecodePanics ==
    /\ mpc = "decode" /\ pic.fatal
    /\ ann' = [n |-> PANIC_FC, size |-> 0, flags |-> {}]
    /\ mpc' = "panic"
    /\ UNCHANGED <<frames, pic, outcome, memVars, jpuVars, rd>>

\* The header does not parse, the picture is too large for the output buffer,
\* or a table cannot be loaded: the JPU was not started.
DecodeRejected ==
    /\ mpc = "decode" /\ ~pic.fatal
    /\ mpc' = "recover"
    /\ UNCHANGED <<frames, pic, outcome, ann, memVars, jpuVars, rd>>

\* start_decode: clear the flags of the last picture, then go.
DecodeStart ==
    /\ mpc = "decode" /\ ~pic.fatal
    /\ pic.size <= YuvBufSize
    /\ status' = {}
    /\ job' = IF hw = "idle" THEN frames ELSE job
    /\ hw' = IF hw = "idle" THEN "top" ELSE hw
    /\ mpc' = "poll"
    /\ UNCHANGED <<frames, pic, outcome, ann, memVars, yuv, rd>>

\* Mutant: any flag ends the wait with success.
PollDoneAnyFlag ==
    /\ mpc = "poll"
    /\ status # {}
    /\ status' = {}
    /\ outcome' = TRUE
    /\ mpc' = "notify"
    /\ UNCHANGED <<frames, pic, ann, memVars, hw, job, yuv, rd>>

PollDone ==
    /\ mpc = "poll"
    /\ "DONE" \in status
    /\ status' = {}
    /\ outcome' = TRUE
    /\ mpc' = "notify"
    /\ UNCHANGED <<frames, pic, ann, memVars, hw, job, yuv, rd>>

\* Mutant: the reset is only "released", which a running block ignores.
HardResetReleaseOnly == UNCHANGED <<hw, job>> /\ status' = {}

\* hard_reset: the pulse stops whatever the JPU is doing.
HardReset == hw' = "idle" /\ status' = {} /\ UNCHANGED job

PollError ==
    /\ mpc = "poll"
    /\ "DONE" \notin status
    /\ "ERROR" \in status
    /\ HardReset
    /\ mpc' = "recover"
    /\ UNCHANGED <<frames, pic, outcome, ann, memVars, yuv, rd>>

\* Mutant: the clock is read only when the JPU has raised a flag.
PollTimeoutOnFlag ==
    /\ mpc = "poll"
    /\ status # {}
    /\ HardReset
    /\ mpc' = "recover"
    /\ UNCHANGED <<frames, pic, outcome, ann, memVars, yuv, rd>>

\* 200 ms are over.  The flags were read before the clock was: the JPU may have
\* finished in between, and the picture is given up all the same.
PollTimeout ==
    /\ mpc = "poll"
    /\ HardReset
    /\ mpc' = "recover"
    /\ UNCHANGED <<frames, pic, outcome, ann, memVars, yuv, rd>>

\* Mutant: the new decoder is made before the old one is dropped.
RecoverCreateFirst ==
    /\ mpc = "recover"
    /\ present' = TRUE
    /\ stream' = FirstRun(Pages)
    /\ free' = (Pages \ FirstRun(Pages)) \cup stream
    /\ outcome' = FALSE
    /\ mpc' = "notify"
    /\ UNCHANGED <<frames, pic, ann, jpuVars, rd>>

\* Any error: drop the decoder (its pages go back), then build a new one.
Recover ==
    /\ mpc = "recover"
    /\ CreateDecoder
    /\ outcome' = FALSE
    /\ mpc' = "notify"
    /\ UNCHANGED <<frames, pic, ann, jpuVars, rd>>

\* The picture is in the shared buffer.
NotifyYuv ==
    /\ mpc = "notify" /\ outcome
    /\ ann' = [n |-> frames, size |-> IF pic.size < YuvBufSize THEN pic.size ELSE YuvBufSize,
               flags |-> {FLAG_SOI, FLAG_EOI, FLAG_YUV_READY} \cup encode_dims(pic.w, pic.h)]
    /\ mpc' = "idle"
    /\ UNCHANGED <<frames, pic, outcome, memVars, jpuVars, rd>>

\* notify_mjpeg_only: the geometry is the preferred one, whatever was captured.
NotifyMjpegOnly ==
    /\ mpc = "notify" /\ ~outcome
    /\ ann' = [n |-> frames, size |-> pic.jpeg,
               flags |-> {FLAG_SOI, FLAG_EOI} \cup encode_dims(640, 480)]
    /\ mpc' = "idle"
    /\ UNCHANGED <<frames, pic, outcome, memVars, jpuVars, rd>>

DecodeStep ==
    \/ FirstCreate \/ DecodePanics \/ DecodeRejected \/ DecodeStart
    \/ PollDone \/ PollError \/ PollTimeout
    \/ Recover \/ NotifyYuv \/ NotifyMjpegOnly

-----------------------------------------------------------------------------
(* JPU (external) *)

JpuWrites ==
    /\ hw \in {"top", "bottom"}
    /\ yuv' = [yuv EXCEPT ![hw] = job]
    /\ hw' = IF hw = "top" THEN "bottom" ELSE "idle"
    /\ status' = IF hw = "top" THEN status ELSE status \cup {"DONE"}
    /\ UNCHANGED <<mainVars, memVars, job, rd>>

JpuError ==
    /\ hw \in {"top", "bottom"}
    /\ hw' = "wedged"
    /\ status' = status \cup {"ERROR"}
    /\ UNCHANGED <<mainVars, memVars, job, yuv, rd>>

JpuWedge ==
    /\ hw \in {"top", "bottom"}
    /\ hw' = "wedged"
    /\ UNCHANGED <<mainVars, memVars, job, status, yuv, rd>>

-----------------------------------------------------------------------------
(* Big core (external): copy the buffer, keep the copy if the frame count is *)
(* the same before and after.                                               *)

ReadBegin ==
    /\ rd.pc = "idle"
    /\ FLAG_YUV_READY \in ann.flags
    /\ rd' = [rd EXCEPT !.pc = "top", !.seq = ann.n]
    /\ UNCHANGED <<mainVars, memVars, jpuVars>>

ReadHalf ==
    /\ rd.pc \in {"top", "bottom"}
    /\ rd' = [rd EXCEPT ![rd.pc] = yuv[rd.pc],
                        !.pc = IF rd.pc = "top" THEN "bottom" ELSE "check"]
    /\ UNCHANGED <<mainVars, memVars, jpuVars>>

ReadCheck ==
    /\ rd.pc = "check"
    /\ rd' = [rd EXCEPT !.pc = IF ann.n = rd.seq THEN "accepted" ELSE "idle"]
    /\ UNCHANGED <<mainVars, memVars, jpuVars>>

ReadAgain ==
    /\ rd.pc = "accepted"
    /\ rd' = [rd EXCEPT !.pc = "idle"]
    /\ UNCHANGED <<mainVars, memVars, jpuVars>>

Next ==
    \/ Captured \/ DecodeStep
    \/ JpuWrites \/ JpuError \/ JpuWedge
    \/ ReadBegin \/ ReadHalf \/ ReadCheck \/ ReadAgain

Spec == Init /\ [][Next]_vars

\* The main loop goes on: interrupt handlers return, and nothing else stops it.
FairSpec == Spec /\ WF_vars(DecodeStep)

-----------------------------------------------------------------------------
(* Properties *)

TypeOK ==
    /\ mpc \in {"idle", "create", "decode", "poll", "recover", "notify", "panic"}
    /\ frames \in 0..MaxFrames /\ outcome \in BOOLEAN
    /\ pic \in Pictures
    /\ ann \in [n : 0..MaxFrames \cup {PANIC_FC}, size : Nat, flags : SUBSET (0..31)]
    /\ present \in BOOLEAN /\ stream \subseteq Pages /\ free \subseteq Pages
    /\ hw \in {"idle", "top", "bottom", "wedged"} /\ job \in 0..MaxFrames
    /\ status \subseteq {"DONE", "ERROR"}
    /\ yuv \in [top : 0..MaxFrames, bottom : 0..MaxFrames]
    /\ rd \in [pc : {"idle", "top", "bottom", "check", "accepted"},
               seq : 0..MaxFrames \cup {PANIC_FC},
               top : 0..MaxFrames, bottom : 0..MaxFrames]

\* However often the decoder was dropped and rebuilt, the pages of its stream
\* buffer are its own: the pool does not count them as free.
StreamBufOwned ==
    present => stream \cap free = {} /\ Cardinality(stream) = StreamPages

\* Between two frames the JPU is at rest: a picture abandoned at a timeout is not
\* still being written, and no wedge is carried over to the next frame
\* (decoder.rs:97-98).
JpuAtRest == mpc \in {"idle", "notify"} => hw = "idle"

\* Until the next decode begins, the frame decoded last is in the buffer, both
\* halves of it, and is the one announced.
DecodedYuvInPlace ==
    (mpc = "idle" /\ outcome) => yuv.top = ann.n /\ yuv.bottom = ann.n

\* Every captured frame is announced, whether the JPU finishes, fails or hangs
\* (decoder.rs:442-448: the wait is bounded by the clock); only a frame whose header
\* makes the parser panic is not, and then the panic mark is in the mailbox.
EveryFrameAnnounced ==
    \A n \in 1..MaxFrames :
        (frames = n) ~> \/ ann.n = n
                        \/ pic.fatal /\ ann.n = PANIC_FC

\* A frame that cannot be decoded is announced without YUV, and the next one is tried
\* (session.rs:34-35).  Does not hold: a hole in a table of the header ends in a panic.
FailedFrameAnnounced == \A n \in 1..MaxFrames : (frames = n) ~> (ann.n = n)

\* A reader can tell a frame without YUV: its yuv_size is 0 ("0 = no YUV in this
\* frame, only MJPEG", ipc.rs:37) or its bit 15 is clear ("bit15 YUV ready",
\* ipc.rs:38); otherwise the picture of that number is in the buffer.
NoYuvIsVisible ==
    (mpc = "idle" /\ ann.size # 0 /\ FLAG_YUV_READY \in ann.flags) =>
        yuv.top = ann.n /\ yuv.bottom = ann.n

\* "bits 20-31/8-19 = width/height" (ipc.rs:38): the height survives the encoding.
HeightSurvives ==
    (mpc = "idle" /\ outcome) => DecodedHeight(ann.flags) = Bits(pic.h)

\* The stream buffer lies in the region platform.rs:52-54 gives the JPU pool
\* ("after the YUV buffer, so as not to overlap"; 256 KB).
StreamBufInPool == \A p \in stream : PageEnd(p) <= PoolBase + PoolSize

\* "One YUV buffer; the big core's cvi_yuv uses a seqlock against tearing"
\* (memory.ld:4): a copy it accepts is one whole frame, the one announced.
AcceptedCopyWhole ==
    rd.pc = "accepted" => rd.top = rd.seq /\ rd.bottom = rd.seq
=============================================================================
