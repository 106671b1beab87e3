------------------------------ MODULE Mailbox -------------------------------
(***************************************************************************)
(* The two mailboxes between the cores: the hardware mailbox controller     *)
(* (src/src/drivers/mailbox.rs) and the 32-byte mailbox in shared DRAM      *)
(* (src/src/ipc.rs), with everybody who touches them:                       *)
(*                                                                          *)
(*  - the small core's main loop: boot marker, one frame notification per   *)
(*    captured frame, panic marker;                                         *)
(*  - the small core's mailbox ISR, which interrupts the main loop between  *)
(*    any two stores, claims big-to-small (B2S) messages, executes the      *)
(*    control messages and writes a reply;                                  *)
(*  - the big core (not in this repository), which sends B2S messages and   *)
(*    reads the DRAM mailbox;                                               *)
(*  - the small core's data cache, whose line may be written back at any    *)
(*    time.                                                                 *)
(*                                                                          *)
(* One step is one access to a shared register or word.  The words yuv_size *)
(* and flags hold the number of the notification that wrote them.           *)
(***************************************************************************)
EXTENDS Naturals, Sequences

CONSTANTS
    Kinds,        \* kinds of B2S messages sent in this instance
    DRAIN_LIMIT,  \* messages one ISR activation handles (4 in the code)
    PANIC_FC,     \* the frame count that marks a panic (0xFFFF_FFFF)
    SenderWaits,  \* the big core polls cpu2_en before it sends again
    MayPanic,     \* the main loop may panic
    MayEvict,     \* the cache may write the mailbox line back on its own
    MaxFrames,    \* bound on captured frames
    MaxSend       \* bound on B2S messages

ASSUME MailboxAssumption ==
    /\ Kinds \subseteq {"echo", "pause", "resume", "other"}
    /\ DRAIN_LIMIT \in Nat /\ PANIC_FC \in Nat
    /\ SenderWaits \in BOOLEAN /\ MayPanic \in BOOLEAN /\ MayEvict \in BOOLEAN
    /\ MaxFrames \in Nat /\ MaxSend \in Nat

VARIABLES
    \* hardware mailbox, B2S direction (slot 1)
    en,        \* cpu_mbox_en[2], bit 1
    pend,      \* int_val of the small core, bit 1
    payload,   \* context slot 1, payload word
    \* hardware mailbox, small-to-big direction (slot 0)
    ctx0,      \* context slot 0, payload word: the live frame count
    bell,      \* doorbell to the big core
    \* DRAM mailbox
    line,      \* the small core's cache line of the mailbox
    dram,      \* what the big core reads
    \* small core, main loop
    job,       \* what the main loop is doing
    step,      \* its next store within write or notify
    frames,    \* frames captured so far
    irqOn,     \* mstatus.MIE, set by init_interrupts
    paused,    \* PAUSED
    late,      \* frames announced since the last pause command
    \* small core, mailbox ISR
    ist,       \* program counter
    drain,     \* its local counter
    msg,       \* the message claimed last
    seen,      \* history: the ids claimed so far
    answered,  \* history: how many replies were written, and to whom the last
    \* big core
    bpc,       \* program counter of b2s_send
    sent       \* the message sent last

hwVars   == <<en, pend, payload>>
s2bVars  == <<ctx0, bell>>
mainVars == <<job, step, frames, irqOn, paused, late>>
isrVars  == <<ist, drain, msg, seen, answered>>
bigVars  == <<bpc, sent>>
vars     == <<hwVars, s2bVars, line, dram, mainVars, isrVars, bigVars>>

-----------------------------------------------------------------------------
(* The DRAM mailbox *)

Words == {"magic", "frame_count", "yuv_size", "flags",
          "reply_magic", "reply_data", "reply_seq"}

\* ipc::write stores the whole structure, magic first.
WriteOrder == <<"magic", "frame_count", "yuv_size", "flags",
                "reply_magic", "reply_data", "reply_seq">>

\* Mutant: notify rewrites the reply half as well.
NotifyWholeStruct == <<"frame_count", "yuv_size", "flags", "reply_data", "magic">>

\* ipc::notify stores the frame half only, magic last.
NotifyOrder == <<"frame_count", "yuv_size", "flags", "magic">>

\* Mutant: the panic marker looks like the boot marker.
WriteValueSilentPanic(w) == IF w = "magic" THEN 1 ELSE 0

\* Magic words: 0 is "not valid", 1 is MAILBOX_MAGIC or REPLY_MAGIC.
WriteValue(w) ==
    CASE w = "magic" -> 1
      [] w = "frame_count" -> IF job = "panic" THEN PANIC_FC ELSE 0
      [] OTHER -> 0

\* Mutant: a frame without YUV is announced with the size 0.
NotifyValueNoYuv(w) ==
    CASE w = "magic" -> 1
      [] w = "yuv_size" -> 0
      [] OTHER -> frames

NotifyValue(w) == IF w = "magic" THEN 1 ELSE frames

Store(w, v) == line' = [line EXCEPT ![w] = v]

\* flush_mailbox cleans the whole line, whoever calls it.
flush_mailbox == dram' = line

-----------------------------------------------------------------------------
(* B2S messages *)

Msg == [id : Nat, kind : Kinds \cup {"echo"}]

\* What claim_b2s leaves in the payload word: read as a message, it is an
\* ordinary one with value 0.
NoMsg == [id |-> 0, kind |-> "echo"]

Init ==
    /\ en = 0 /\ pend = 0 /\ payload = NoMsg
    /\ ctx0 = 0 /\ bell = FALSE
    /\ line = [w \in Words |-> 0] /\ dram = line
    /\ job = "boot" /\ step = 1 /\ frames = 0
    /\ irqOn = FALSE /\ paused = FALSE /\ late = 0
    /\ ist = "off" /\ drain = 0 /\ msg = NoMsg
    /\ seen = {} /\ answered = [n |-> 0, id |-> 0]
    /\ bpc = "idle" /\ sent = NoMsg

-----------------------------------------------------------------------------
(* Main loop.  It makes no step while the ISR runs on the same core. *)

MainRuns == ist = "off"

\* ipc::write, as the boot marker and as the panic marker.
WriteWord ==
    /\ MainRuns
    /\ job \in {"boot", "panic"}
    /\ step <= Len(WriteOrder)
    /\ Store(WriteOrder[step], WriteValue(WriteOrder[step]))
    /\ step' = step + 1
    /\ UNCHANGED <<hwVars, s2bVars, dram, job, frames, irqOn, paused, late, isrVars, bigVars>>

\* After the boot marker rust_main initialises the platform and turns the
\* interrupts on; after the panic marker the core waits for interrupts for ever.
WriteFlush ==
    /\ MainRuns
    /\ job \in {"boot", "panic"}
    /\ step = Len(WriteOrder) + 1
    /\ flush_mailbox
    /\ job' = IF job = "boot" THEN "init" ELSE "dead"
    /\ step' = 1
    /\ irqOn' = TRUE
    /\ UNCHANGED <<hwVars, s2bVars, line, frames, paused, late, isrVars, bigVars>>

\* Host bring-up, enumeration and camera selection are done.
MainReady ==
    /\ MainRuns
    /\ job = "init"
    /\ job' = "loop"
    /\ UNCHANGED <<hwVars, s2bVars, line, dram, step, frames, irqOn, paused, late, isrVars, bigVars>>

\* Mutant: PAUSED is looked at only before the first frame.
MainPollOnce ==
    /\ MainRuns
    /\ job = "loop"
    /\ ~paused \/ frames > 0
    /\ job' = "capture"
    /\ UNCHANGED <<hwVars, s2bVars, line, dram, step, frames, irqOn, paused, late, isrVars, bigVars>>

\* Top of the main loop: a paused pipeline spins here.
MainPoll ==
    /\ MainRuns
    /\ job = "loop"
    /\ ~paused
    /\ job' = "capture"
    /\ UNCHANGED <<hwVars, s2bVars, line, dram, step, frames, irqOn, paused, late, isrVars, bigVars>>

\* capture_frame returned a frame: it is decoded, then announced.
MainCaptured ==
    /\ MainRuns
    /\ job = "capture"
    /\ frames < MaxFrames
    /\ frames' = frames + 1
    /\ job' = "notify"
    /\ step' = 1
    /\ UNCHANGED <<hwVars, s2bVars, line, dram, irqOn, paused, late, isrVars, bigVars>>

\* capture_frame failed: the loop goes round.
MainCaptureError ==
    /\ MainRuns
    /\ job = "capture"
    /\ job' = "loop"
    /\ UNCHANGED <<hwVars, s2bVars, line, dram, step, frames, irqOn, paused, late, isrVars, bigVars>>

\* Mutant: the doorbell rings before the cache line is written back.
NotifyFlushSkipped ==
    /\ MainRuns
    /\ job = "notify"
    /\ step = Len(NotifyOrder) + 1
    /\ job' = "doorbell"
    /\ UNCHANGED <<hwVars, s2bVars, line, dram, step, frames, irqOn, paused, late, isrVars, bigVars>>

\* ipc::notify, first half: the four stores.
NotifyWord ==
    /\ MainRuns
    /\ job = "notify"
    /\ step <= Len(NotifyOrder)
    /\ Store(NotifyOrder[step], NotifyValue(NotifyOrder[step]))
    /\ step' = step + 1
    /\ UNCHANGED <<hwVars, s2bVars, dram, job, frames, irqOn, paused, late, isrVars, bigVars>>

NotifyFlush ==
    /\ MainRuns
    /\ job = "notify"
    /\ step = Len(NotifyOrder) + 1
    /\ flush_mailbox
    /\ job' = "doorbell"
    /\ UNCHANGED <<hwVars, s2bVars, line, step, frames, irqOn, paused, late, isrVars, bigVars>>

\* doorbell_big: the live frame count goes into context slot 0 ...
DoorbellCount ==
    /\ MainRuns
    /\ job = "doorbell"
    /\ ctx0' = frames
    /\ job' = "ring"
    /\ UNCHANGED <<hwVars, bell, line, dram, step, frames, irqOn, paused, late, isrVars, bigVars>>

\* ... then the big core's pending bit is cleared, unmasked, enabled and set.
DoorbellRing ==
    /\ MainRuns
    /\ job = "ring"
    /\ bell' = TRUE
    /\ job' = "loop"
    /\ late' = IF paused THEN late + 1 ELSE late
    /\ UNCHANGED <<hwVars, ctx0, line, dram, step, frames, irqOn, paused, isrVars, bigVars>>

\* The panic handler runs in the main loop's context, interrupts still on: an
\* expect of the bring-up failed, or capture or decoding panicked.
Panic ==
    /\ MayPanic
    /\ MainRuns
    /\ job \in {"init", "capture"}
    /\ job' = "panic"
    /\ step' = 1
    /\ UNCHANGED <<hwVars, s2bVars, line, dram, frames, irqOn, paused, late, isrVars, bigVars>>

MainNext ==
    \/ WriteWord \/ WriteFlush
    \/ MainReady \/ MainPoll \/ MainCaptured \/ MainCaptureError
    \/ NotifyWord \/ NotifyFlush \/ DoorbellCount \/ DoorbellRing
    \/ Panic

-----------------------------------------------------------------------------
(* Mailbox ISR: rust_trap_handler dispatches the level-triggered source to  *)
(* handle_mailbox_irq, which drains messages until claim_b2s finds none.    *)

IsrEnter ==
    /\ ist = "off"
    /\ irqOn
    /\ pend = 1
    /\ ist' = "claim"
    /\ drain' = 0
    /\ UNCHANGED <<hwVars, s2bVars, line, dram, mainVars, msg, seen, answered, bigVars>>

\* claim_b2s: nothing pending, so the ISR returns ...
ClaimNone ==
    /\ ist = "claim"
    /\ pend = 0
    /\ ist' = "off"
    /\ UNCHANGED <<hwVars, s2bVars, line, dram, mainVars, drain, msg, seen, answered, bigVars>>

\* ... or (1) read the payload ...
ClaimRead ==
    /\ ist = "claim"
    /\ pend = 1
    /\ msg' = payload
    /\ seen' = seen \cup {payload.id}
    /\ ist' = "zero"
    /\ UNCHANGED <<hwVars, s2bVars, line, dram, mainVars, drain, answered, bigVars>>

\* Mutant: the payload word keeps the old message.
ClaimZeroSkipped ==
    /\ ist = "zero"
    /\ ist' = "clr"
    /\ UNCHANGED <<hwVars, s2bVars, line, dram, mainVars, drain, msg, seen, answered, bigVars>>

\* Mutant: the acknowledgement goes out before the pending bit is cleared.
ClaimAcksEarly ==
    /\ ist = "zero"
    /\ payload' = NoMsg
    /\ en' = 0
    /\ ist' = "clr"
    /\ UNCHANGED <<pend, s2bVars, line, dram, mainVars, drain, msg, seen, answered, bigVars>>

\* ... and wipe it, ...
ClaimZero ==
    /\ ist = "zero"
    /\ payload' = NoMsg
    /\ ist' = "clr"
    /\ UNCHANGED <<en, pend, s2bVars, line, dram, mainVars, drain, msg, seen, answered, bigVars>>

\* (2) clear the pending bit, ...
ClaimClear ==
    /\ ist = "clr"
    /\ pend' = 0
    /\ ist' = "en"
    /\ UNCHANGED <<en, payload, s2bVars, line, dram, mainVars, drain, msg, seen, answered, bigVars>>

\* (3) clear the enable bit, which the big core takes for the acknowledgement.
ClaimDisable ==
    /\ ist = "en"
    /\ en' = 0
    /\ ist' = "handle"
    /\ UNCHANGED <<pend, payload, s2bVars, line, dram, mainVars, drain, msg, seen, answered, bigVars>>

\* One message too many for this activation: it is dropped unanswered.
HandleOverflow ==
    /\ ist = "handle"
    /\ drain + 1 > DRAIN_LIMIT
    /\ drain' = drain + 1
    /\ ist' = "off"
    /\ UNCHANGED <<hwVars, s2bVars, line, dram, mainVars, msg, seen, answered, bigVars>>

\* A control message acts on PAUSED; others change nothing modelled here.
HandleMessage ==
    /\ ist = "handle"
    /\ drain + 1 <= DRAIN_LIMIT
    /\ drain' = drain + 1
    /\ paused' = CASE msg.kind = "pause" -> TRUE
                   [] msg.kind = "resume" -> FALSE
                   [] OTHER -> paused
    /\ late' = IF msg.kind = "pause" THEN 0 ELSE late
    /\ ist' = "reply_data"
    /\ UNCHANGED <<hwVars, s2bVars, line, dram, job, step, frames, irqOn, msg, seen, answered, bigVars>>

\* write_reply: data, sequence number, magic, flush.
ReplyData ==
    /\ ist = "reply_data"
    /\ Store("reply_data", msg.id)
    /\ ist' = "reply_seq"
    /\ UNCHANGED <<hwVars, s2bVars, dram, mainVars, drain, msg, seen, answered, bigVars>>

\* Mutant: the sequence number is not advanced.
ReplySeqStuck ==
    /\ ist = "reply_seq"
    /\ ist' = "reply_magic"
    /\ UNCHANGED <<hwVars, s2bVars, line, dram, mainVars, drain, msg, seen, answered, bigVars>>

ReplySeq ==
    /\ ist = "reply_seq"
    /\ Store("reply_seq", line["reply_seq"] + 1)
    /\ ist' = "reply_magic"
    /\ UNCHANGED <<hwVars, s2bVars, dram, mainVars, drain, msg, seen, answered, bigVars>>

ReplyMagic ==
    /\ ist = "reply_magic"
    /\ Store("reply_magic", 1)
    /\ ist' = "reply_flush"
    /\ UNCHANGED <<hwVars, s2bVars, dram, mainVars, drain, msg, seen, answered, bigVars>>

\* Mutant: the reply stays in the cache.
ReplyFlushSkipped ==
    /\ ist = "reply_flush"
    /\ ist' = "claim"
    /\ answered' = [n |-> answered.n + 1, id |-> msg.id]
    /\ UNCHANGED <<hwVars, s2bVars, line, dram, mainVars, drain, msg, seen, bigVars>>

ReplyFlush ==
    /\ ist = "reply_flush"
    /\ flush_mailbox
    /\ ist' = "claim"
    /\ answered' = [n |-> answered.n + 1, id |-> msg.id]
    /\ UNCHANGED <<hwVars, s2bVars, line, mainVars, drain, msg, seen, bigVars>>

IsrNext ==
    \/ IsrEnter \/ ClaimNone \/ ClaimRead \/ ClaimZero \/ ClaimClear \/ ClaimDisable
    \/ HandleOverflow \/ HandleMessage
    \/ ReplyData \/ ReplySeq \/ ReplyMagic \/ ReplyFlush

-----------------------------------------------------------------------------
(* Big core (external): b2s_send writes the payload, sets the enable bit,   *)
(* rings.  A careful sender waits until the enable bit is clear.            *)

BigSend(k) ==
    /\ bpc = "idle"
    /\ SenderWaits => en = 0
    /\ sent.id < MaxSend
    /\ sent' = [id |-> sent.id + 1, kind |-> k]
    /\ payload' = sent'
    /\ bpc' = "en"
    /\ UNCHANGED <<en, pend, s2bVars, line, dram, mainVars, isrVars>>

BigEnable ==
    /\ bpc = "en"
    /\ en' = 1
    /\ bpc' = "ring"
    /\ UNCHANGED <<pend, payload, s2bVars, line, dram, mainVars, isrVars, sent>>

\* mbox_set reaches the cores whose enable bit is set at that moment.
BigRing ==
    /\ bpc = "ring"
    /\ pend' = IF en = 1 THEN 1 ELSE pend
    /\ bpc' = "idle"
    /\ UNCHANGED <<en, payload, s2bVars, line, dram, mainVars, isrVars, sent>>

\* The big core services the doorbell.
BigBell ==
    /\ bell
    /\ bell' = FALSE
    /\ UNCHANGED <<hwVars, ctx0, line, dram, mainVars, isrVars, bigVars>>

BigFinish == BigEnable \/ BigRing

BigNext == (\E k \in Kinds : BigSend(k)) \/ BigFinish \/ BigBell

\* The cache replaces the mailbox line.
Evict ==
    /\ MayEvict
    /\ dram # line
    /\ dram' = line
    /\ UNCHANGED <<hwVars, s2bVars, line, mainVars, isrVars, bigVars>>

Next == MainNext \/ IsrNext \/ BigNext \/ Evict

Spec == Init /\ [][Next]_vars

(***************************************************************************)
(* Fairness: the small core executes (boot and handler), and a send that    *)
(* the big core began is finished.  Nothing obliges the big core to send,   *)
(* the camera to deliver or the cache to replace a line.                    *)
(***************************************************************************)
FairSpec == Spec /\ WF_vars(WriteWord \/ WriteFlush) /\ WF_vars(IsrNext) /\ WF_vars(BigFinish)

-----------------------------------------------------------------------------
(* Properties *)

TypeOK ==
    /\ en \in {0, 1} /\ pend \in {0, 1} /\ payload \in Msg
    /\ ctx0 \in Nat /\ bell \in BOOLEAN
    /\ line \in [Words -> Nat] /\ dram \in [Words -> Nat]
    /\ job \in {"boot", "init", "loop", "capture", "notify", "doorbell", "ring", "panic", "dead"}
    /\ step \in 1..8 /\ frames \in Nat
    /\ irqOn \in BOOLEAN /\ paused \in BOOLEAN /\ late \in Nat
    /\ ist \in {"off", "claim", "zero", "clr", "en", "handle",
               "reply_data", "reply_seq", "reply_magic", "reply_flush"}
    /\ drain \in 0..(DRAIN_LIMIT + 1)
    /\ msg \in Msg /\ seen \subseteq Nat
    /\ answered \in [n : Nat, id : Nat]
    /\ bpc \in {"idle", "en", "ring"} /\ sent \in Msg

\* The state of the one-message slot that the registers implement.
SlotPhase ==
    IF sent.id # msg.id THEN "full"
    ELSE IF en = 1 \/ bpc # "idle" THEN "taken"
    ELSE "free"

Slot == INSTANCE B2sSlot WITH phase <- SlotPhase, item <- sent, got <- msg

\* For a sender that waits for cpu2_en to be cleared, payload, pending bit and
\* enable bit together are a one-message slot: no message is lost, read twice
\* or overwritten, whatever the order of the two cores' register accesses
\* (claim_b2s, mailbox.rs:112-127).
SlotSpec == Slot!Spec

\* When the live frame count in context slot 0 says n, the DRAM mailbox as the
\* big core sees it holds frame n or a newer one in every word (notify flushes
\* before it rings).
DoorbellAfterPublish ==
    (ctx0 > 0 /\ job \notin {"panic", "dead"}) =>
        /\ dram["magic"] = 1
        /\ \A w \in {"frame_count", "yuv_size", "flags"} : dram[w] >= ctx0

\* A reply, once written by the ISR, stays in the DRAM mailbox until the next
\* one: no notification the ISR interrupted, or that follows, overwrites it
\* (ipc.rs:89-91).
ReplyIntact ==
    (ist = "off" /\ job \notin {"boot", "panic", "dead"}) =>
        /\ dram["reply_data"] = answered.id
        /\ dram["reply_seq"] = answered.n

\* After a pause command the pipeline announces at most the frame it was
\* already capturing.
PauseBounded == paused => late <= 1

\* Even for a sender that does not wait, the ISR never handles the same message
\* twice: a second interrupt for it finds the wiped payload.
NoReplay ==
    [][(ist = "claim" /\ ist' = "zero" /\ payload.id # 0) => payload.id \notin seen]_vars

\* Every message of a careful sender is answered in the DRAM mailbox, or falls
\* to the drain limit of its activation: no pause, panic or half-done
\* notification in between loses the reply (handle_mailbox_irq).
EveryMessageAnswered ==
    \A k \in 1..MaxSend :
        (sent.id = k /\ msg.id # k) ~> (dram["reply_data"] = k \/ drain > DRAIN_LIMIT)

\* "magic last: the big core takes magic for the proof that this content is
\* valid" (ipc.rs:97): with the magic in place, the three words of the frame
\* half come from the same notification.
ValidFrameIsWhole ==
    (dram["magic"] = 1 /\ job \notin {"panic", "dead"}) =>
        /\ dram["frame_count"] = dram["yuv_size"]
        /\ dram["yuv_size"] = dram["flags"]
=============================================================================
