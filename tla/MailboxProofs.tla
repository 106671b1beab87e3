--------------------------- MODULE MailboxProofs ----------------------------
(***************************************************************************)
(* Proofs about the mailboxes and about the communication test over them,   *)
(* for any number of frames and messages, any drain limit, with panics and  *)
(* cache write-backs at any time.                                           *)
(***************************************************************************)
EXTENDS CommTest, TLAPS

USE DEF hwVars, s2bVars, mainVars, isrVars, bigVars

LEMMA OrderFacts ==
    /\ Len(WriteOrder) = 7
    /\ Len(NotifyOrder) = 4
    /\ \A i \in 1..7 : WriteOrder[i] \in Words
    /\ \A i \in 1..4 : NotifyOrder[i] \in Words
  BY DEF WriteOrder, NotifyOrder, Words

LEMMA NoMsgType == NoMsg \in Msg
  BY DEF NoMsg, Msg

\* A running ISR has handled no more messages than the limit allows.
DrainBound == ist # "off" => drain <= DRAIN_LIMIT

LEMMA MainTypes ==
    ASSUME TypeOK, MainNext
    PROVE  TypeOK'
<1> USE MailboxAssumption, OrderFacts DEF TypeOK, MainRuns
<1>1. CASE WriteWord
  <2>1. WriteOrder[step] \in Words /\ step + 1 \in 1..8
    BY <1>1 DEF WriteWord
  <2>2. WriteValue(WriteOrder[step]) \in Nat
    BY DEF WriteValue
  <2>3. QED
    BY <1>1, <2>1, <2>2 DEF WriteWord, Store
<1>2. CASE WriteFlush
  BY <1>2 DEF WriteFlush, flush_mailbox
<1>3. CASE MainReady \/ MainPoll
  BY <1>3 DEF MainReady, MainPoll
<1>4. CASE MainCaptured
  BY <1>4 DEF MainCaptured
<1>5. CASE MainCaptureError
  BY <1>5 DEF MainCaptureError
<1>6. CASE NotifyWord
  <2>1. NotifyOrder[step] \in Words /\ step + 1 \in 1..8
    BY <1>6 DEF NotifyWord
  <2>2. NotifyValue(NotifyOrder[step]) \in Nat
    BY DEF NotifyValue
  <2>3. QED
    BY <1>6, <2>1, <2>2 DEF NotifyWord, Store
<1>7. CASE NotifyFlush
  BY <1>7 DEF NotifyFlush, flush_mailbox
<1>8. CASE DoorbellCount
  BY <1>8 DEF DoorbellCount
<1>9. CASE DoorbellRing
  BY <1>9 DEF DoorbellRing
<1>10. CASE Panic
  BY <1>10 DEF Panic
<1>11. QED
  BY <1>1, <1>2, <1>3, <1>4, <1>5, <1>6, <1>7, <1>8, <1>9, <1>10 DEF MainNext

LEMMA IsrTypes ==
    ASSUME TypeOK, DrainBound, IsrNext
    PROVE  TypeOK' /\ DrainBound'
<1> USE MailboxAssumption, NoMsgType DEF TypeOK, DrainBound
<1>1. CASE IsrEnter
  BY <1>1 DEF IsrEnter
<1>2. CASE ClaimNone
  BY <1>2 DEF ClaimNone
<1>3. CASE ClaimRead
  <2>1. payload.id \in Nat
    BY DEF Msg
  <2>2. seen' \subseteq Nat
    BY <1>3, <2>1 DEF ClaimRead
  <2>3. QED
    BY <1>3, <2>2 DEF ClaimRead
<1>4. CASE ClaimZero
  BY <1>4 DEF ClaimZero
<1>5. CASE ClaimClear
  BY <1>5 DEF ClaimClear
<1>6. CASE ClaimDisable
  BY <1>6 DEF ClaimDisable
<1>7. CASE HandleOverflow
  BY <1>7 DEF HandleOverflow
<1>8. CASE HandleMessage
  <2>1. paused' \in BOOLEAN /\ late' \in Nat
    <3>1. CASE msg.kind = "pause"
      BY <1>8, <3>1 DEF HandleMessage
    <3>2. CASE msg.kind = "resume"
      BY <1>8, <3>2 DEF HandleMessage
    <3>3. CASE msg.kind \notin {"pause", "resume"}
      BY <1>8, <3>3 DEF HandleMessage
    <3>4. QED
      BY <3>1, <3>2, <3>3
  <2>2. /\ ist' = "reply_data" /\ drain' = drain + 1 /\ drain + 1 <= DRAIN_LIMIT
        /\ UNCHANGED <<hwVars, s2bVars, line, dram, job, step, frames, irqOn,
                      msg, seen, answered, bigVars>>
    BY <1>8 DEF HandleMessage
  <2>3. QED
    BY <2>1, <2>2
<1>9. CASE ReplyData
  BY <1>9 DEF ReplyData, Store, Words, Msg
<1>10. CASE ReplySeq
  BY <1>10 DEF ReplySeq, Store, Words
<1>11. CASE ReplyMagic
  BY <1>11 DEF ReplyMagic, Store, Words
<1>12. CASE ReplyFlush
  BY <1>12 DEF ReplyFlush, flush_mailbox, Msg
<1>13. QED
  BY <1>1, <1>2, <1>3, <1>4, <1>5, <1>6, <1>7, <1>8, <1>9, <1>10, <1>11, <1>12
     DEF IsrNext

LEMMA BigTypes ==
    ASSUME TypeOK, BigNext \/ Evict
    PROVE  TypeOK'
<1> USE MailboxAssumption DEF TypeOK
<1>1. ASSUME NEW k \in Kinds, BigSend(k)
      PROVE  TypeOK'
  BY <1>1 DEF BigSend, Msg
<1>2. CASE BigEnable
  BY <1>2 DEF BigEnable
<1>3. CASE BigRing
  BY <1>3 DEF BigRing
<1>4. CASE BigBell
  <2>1. bell' = FALSE /\ UNCHANGED <<hwVars, ctx0, line, dram, mainVars, isrVars, bigVars>>
    BY <1>4 DEF BigBell
  <2>2. bell' \in BOOLEAN
    BY <2>1
  <2>3. QED
    BY <2>1, <2>2
<1>5. CASE Evict
  BY <1>5 DEF Evict
<1>6. QED
  BY <1>1, <1>2, <1>3, <1>4, <1>5 DEF BigNext, BigFinish

\* Registers, mailbox words, program counters and local variables of both
\* cores keep their types, and no activation of handle_mailbox_irq counts past
\* its drain limit by more than the message it drops.
THEOREM TypeCorrect == Spec => [](TypeOK /\ DrainBound)
<1>1. Init => TypeOK /\ DrainBound
  <2> SUFFICES ASSUME Init PROVE TypeOK /\ DrainBound
    OBVIOUS
  <2>1. line \in [Words -> Nat] /\ dram \in [Words -> Nat]
    BY DEF Init
  <2>2. answered \in [n : Nat, id : Nat] /\ seen \subseteq Nat
    BY DEF Init
  <2>3. payload \in Msg /\ msg \in Msg /\ sent \in Msg
    BY NoMsgType DEF Init
  <2>4. drain \in 0..(DRAIN_LIMIT + 1) /\ step \in 1..8 /\ DrainBound
    BY MailboxAssumption DEF Init, DrainBound
  <2>5. QED
    BY <2>1, <2>2, <2>3, <2>4 DEF Init, TypeOK
<1>2. TypeOK /\ DrainBound /\ [Next]_vars => TypeOK' /\ DrainBound'
  <2> SUFFICES ASSUME TypeOK, DrainBound, [Next]_vars
               PROVE  TypeOK' /\ DrainBound'
    OBVIOUS
  <2>1. CASE UNCHANGED vars
    BY <2>1 DEF vars, TypeOK, DrainBound
  <2>2. CASE MainNext
    <3>1. UNCHANGED <<ist, drain>>
      BY <2>2 DEF MainNext, WriteWord, WriteFlush, MainReady, MainPoll, MainCaptured,
             MainCaptureError, NotifyWord, NotifyFlush, DoorbellCount,
             DoorbellRing, Panic
    <3>2. QED
      BY <2>2, <3>1, MainTypes DEF DrainBound
  <2>3. CASE IsrNext
    BY <2>3, IsrTypes
  <2>4. CASE BigNext \/ Evict
    <3>1. UNCHANGED <<ist, drain>>
      BY <2>4 DEF BigNext, BigFinish, BigSend, BigEnable, BigRing, BigBell, Evict
    <3>2. QED
      BY <2>4, <3>1, BigTypes DEF DrainBound
  <2>5. QED
    BY <2>1, <2>2, <2>3, <2>4 DEF Next
<1>3. QED
  BY <1>1, <1>2, PTL DEF Spec

-----------------------------------------------------------------------------
(* The B2S registers implement the one-message slot. *)

Critical == {"zero", "clr", "en"}

\* Where the message is, for a sender that waits for the acknowledgement:
\* being sent, in the slot, being claimed, or nowhere.
SlotInv ==
    /\ bpc = "en" =>
         /\ sent.id # msg.id /\ en = 0 /\ pend = 0 /\ payload = sent
         /\ ist \notin Critical
    /\ bpc = "ring" =>
         /\ sent.id # msg.id /\ en = 1 /\ pend = 0 /\ payload = sent
         /\ ist \notin Critical
    /\ ist \in {"zero", "clr"} => msg = sent /\ en = 1 /\ pend = 1
    /\ ist = "en" => msg = sent /\ en = 1 /\ pend = 0
    /\ (bpc = "idle" /\ ist \notin Critical) =>
         \/ pend = 1 /\ en = 1 /\ sent.id # msg.id /\ payload = sent
         \/ pend = 0 /\ en = 0 /\ msg = sent

\* A step that moves neither the registers nor the messages keeps the slot.
LEMMA SlotUntouched ==
    ASSUME TypeOK, SlotInv,
           UNCHANGED <<en, pend, payload, bpc, sent, msg>>,
           ist' = ist \/ (ist \notin Critical /\ ist' \notin Critical)
    PROVE  SlotInv' /\ UNCHANGED Slot!slotVars
  BY DEF SlotInv, Critical, Slot!slotVars, SlotPhase

LEMMA SlotStep ==
    ASSUME SenderWaits, TypeOK, SlotInv, [Next]_vars
    PROVE  SlotInv' /\ [Slot!Next]_(Slot!slotVars)
<1> USE DEF Critical
<1>1. CASE UNCHANGED vars
  BY <1>1, SlotUntouched DEF vars
<1>2. CASE MainNext
  <2>1. UNCHANGED <<en, pend, payload, bpc, sent, msg, ist>>
    BY <1>2 DEF MainNext, WriteWord, WriteFlush, MainReady, MainPoll, MainCaptured,
           MainCaptureError, NotifyWord, NotifyFlush, DoorbellCount,
           DoorbellRing, Panic
  <2>2. QED
    BY <2>1, SlotUntouched
<1>3. CASE \/ IsrEnter \/ ClaimNone \/ HandleOverflow \/ HandleMessage
           \/ ReplyData \/ ReplySeq \/ ReplyMagic \/ ReplyFlush
  <2>1. /\ UNCHANGED <<en, pend, payload, bpc, sent, msg>>
        /\ ist \notin Critical /\ ist' \notin Critical
    BY <1>3 DEF IsrEnter, ClaimNone, HandleOverflow, HandleMessage,
           ReplyData, ReplySeq, ReplyMagic, ReplyFlush
  <2>2. QED
    BY <2>1, SlotUntouched
<1>4. CASE ClaimRead
  <2>1. bpc = "idle" /\ sent.id # msg.id /\ en = 1 /\ pend = 1 /\ payload = sent
    BY <1>4 DEF ClaimRead, SlotInv, TypeOK
  <2>2. SlotInv'
    BY <1>4, <2>1 DEF ClaimRead, SlotInv
  <2>3. Slot!Take
    BY <1>4, <2>1 DEF ClaimRead, Slot!Take, SlotPhase
  <2>4. QED
    BY <2>2, <2>3 DEF Slot!Next
<1>5. CASE ClaimZero
  <2>1. bpc = "idle" /\ msg = sent
    BY <1>5 DEF ClaimZero, SlotInv, TypeOK
  <2>2. SlotInv' /\ UNCHANGED Slot!slotVars
    BY <1>5, <2>1 DEF ClaimZero, SlotInv, Slot!slotVars, SlotPhase
  <2>3. QED
    BY <2>2
<1>6. CASE ClaimClear
  BY <1>6 DEF ClaimClear, SlotInv, TypeOK, Slot!slotVars, SlotPhase
<1>7. CASE ClaimDisable
  <2>1. bpc = "idle" /\ msg = sent /\ en = 1 /\ pend = 0
    BY <1>7 DEF ClaimDisable, SlotInv, TypeOK
  <2>2. SlotInv'
    BY <1>7, <2>1 DEF ClaimDisable, SlotInv
  <2>3. Slot!Ack
    BY <1>7, <2>1 DEF ClaimDisable, Slot!Ack, SlotPhase
  <2>4. QED
    BY <2>2, <2>3 DEF Slot!Next
<1>8. ASSUME NEW k \in Kinds, BigSend(k)
      PROVE  SlotInv' /\ [Slot!Next]_(Slot!slotVars)
  <2>1. bpc = "idle" /\ msg = sent /\ en = 0 /\ pend = 0 /\ ist \notin Critical
    BY <1>8 DEF BigSend, SlotInv, TypeOK
  <2>2. sent' \in Msg /\ sent'.id # msg.id /\ payload' = sent'
    BY <1>8, <2>1 DEF BigSend, TypeOK, Msg
  <2>3. SlotInv'
    BY <1>8, <2>1, <2>2 DEF BigSend, SlotInv
  <2>4. Slot!Send
    BY <1>8, <2>1, <2>2 DEF BigSend, Slot!Send, SlotPhase
  <2>5. QED
    BY <2>3, <2>4 DEF Slot!Next
<1>9. CASE BigEnable
  BY <1>9 DEF BigEnable, SlotInv, Slot!slotVars, SlotPhase
<1>10. CASE BigRing
  BY <1>10 DEF BigRing, SlotInv, Slot!slotVars, SlotPhase
<1>11. CASE BigBell \/ Evict
  BY <1>11, SlotUntouched DEF BigBell, Evict
<1>12. QED
  BY <1>1, <1>2, <1>3, <1>4, <1>5, <1>6, <1>7, <1>8, <1>9, <1>10, <1>11
     DEF Next, IsrNext, BigNext, BigFinish

\* For a sender that waits for cpu2_en to be cleared, the registers of the
\* mailbox controller, as claim_b2s and the sender use them, implement the
\* one-message slot: every message reaches the ISR exactly once and unchanged
\* before the sender sees the acknowledgement.
THEOREM RefinesSlot ==
    ASSUME SenderWaits
    PROVE  Spec => SlotSpec
<1>1. Init => SlotInv /\ Slot!Init
  BY NoMsgType DEF Init, SlotInv, Critical, Slot!Init, SlotPhase
<1>2. TypeOK /\ SlotInv /\ [Next]_vars => SlotInv' /\ [Slot!Next]_(Slot!slotVars)
  BY SlotStep
<1>3. QED
  BY <1>1, <1>2, TypeCorrect, PTL DEF Spec, SlotSpec, Slot!Spec

-----------------------------------------------------------------------------
(* Frame notifications. *)

FrameWords == {"frame_count", "yuv_size", "flags"}

\* Up to a panic, both copies of the frame half are at least as new as the
\* count in context slot 0, and a notification under way has already stored the
\* words before its current step.
PublishInv ==
    job \notin {"panic", "dead"} =>
        /\ ctx0 <= frames
        /\ \A w \in FrameWords : line[w] >= ctx0 /\ dram[w] >= ctx0
        /\ ctx0 > 0 => line["magic"] = 1 /\ dram["magic"] = 1
        /\ job = "boot" => ctx0 = 0
        /\ job = "notify" =>
             /\ step >= 2 => line["frame_count"] = frames
             /\ step >= 3 => line["yuv_size"] = frames
             /\ step >= 4 => line["flags"] = frames
             /\ step >= 5 => line["magic"] = 1
        /\ job = "doorbell" =>
             /\ \A w \in FrameWords : line[w] >= frames /\ dram[w] >= frames
             /\ line["magic"] = 1 /\ dram["magic"] = 1

\* A step that leaves the frame words of both copies alone, or publishes the
\* line, and does not move the main loop, keeps the invariant.
LEMMA PublishKept ==
    ASSUME TypeOK, PublishInv,
           UNCHANGED <<ctx0, frames, job, step>>,
           \A w \in FrameWords \cup {"magic"} :
               line'[w] = line[w] /\ dram'[w] \in {dram[w], line[w]}
    PROVE  PublishInv'
  BY DEF PublishInv, FrameWords, TypeOK, Words

LEMMA PublishStep ==
    ASSUME TypeOK, PublishInv, [Next]_vars
    PROVE  PublishInv'
<1> USE OrderFacts
<1>1. CASE UNCHANGED vars
  BY <1>1, PublishKept DEF vars
<1>2. CASE WriteWord
  <2>1. CASE job = "panic"
    BY <1>2, <2>1 DEF WriteWord, PublishInv
  <2>2. CASE job = "boot"
    <3>1. ctx0 = 0 /\ UNCHANGED <<ctx0, frames, job, dram>>
      BY <1>2, <2>2 DEF WriteWord, PublishInv
    <3>2. line' \in [Words -> Nat] /\ dram' \in [Words -> Nat]
      BY <1>2, MainTypes DEF TypeOK, MainNext
    <3>3. QED
      BY <2>2, <3>1, <3>2 DEF PublishInv, FrameWords, Words, TypeOK
  <2>3. QED
    BY <1>2, <2>1, <2>2 DEF WriteWord
<1>3. CASE WriteFlush
  <2>1. CASE job = "panic"
    BY <1>3, <2>1 DEF WriteFlush, PublishInv
  <2>2. CASE job = "boot"
    BY <1>3, <2>2 DEF WriteFlush, flush_mailbox, PublishInv, FrameWords, Words, TypeOK
  <2>3. QED
    BY <1>3, <2>1, <2>2 DEF WriteFlush
<1>4. CASE MainReady \/ MainPoll
  BY <1>4 DEF MainReady, MainPoll, PublishInv
<1>5. CASE MainCaptured
  BY <1>5 DEF MainCaptured, PublishInv, TypeOK
<1>6. CASE MainCaptureError
  BY <1>6 DEF MainCaptureError, PublishInv
<1>7. CASE NotifyWord
  <2>1. step \in 1..4 /\ job = "notify" /\ UNCHANGED <<ctx0, frames, job, dram>>
    BY <1>7 DEF NotifyWord, TypeOK
  <2>2. /\ NotifyOrder[1] = "frame_count" /\ NotifyOrder[2] = "yuv_size"
        /\ NotifyOrder[3] = "flags" /\ NotifyOrder[4] = "magic"
    BY DEF NotifyOrder
  <2>3. line' = [line EXCEPT ![NotifyOrder[step]] = NotifyValue(NotifyOrder[step])]
        /\ step' = step + 1
    BY <1>7 DEF NotifyWord, Store
  <2>4. CASE step = 1
    BY <2>1, <2>2, <2>3, <2>4 DEF NotifyValue, PublishInv, FrameWords, Words, TypeOK
  <2>5. CASE step = 2
    BY <2>1, <2>2, <2>3, <2>5 DEF NotifyValue, PublishInv, FrameWords, Words, TypeOK
  <2>6. CASE step = 3
    BY <2>1, <2>2, <2>3, <2>6 DEF NotifyValue, PublishInv, FrameWords, Words, TypeOK
  <2>7. CASE step = 4
    BY <2>1, <2>2, <2>3, <2>7 DEF NotifyValue, PublishInv, FrameWords, Words, TypeOK
  <2>8. QED
    BY <2>1, <2>4, <2>5, <2>6, <2>7
<1>8. CASE NotifyFlush
  BY <1>8 DEF NotifyFlush, flush_mailbox, PublishInv, FrameWords, Words, TypeOK
<1>9. CASE DoorbellCount
  BY <1>9 DEF DoorbellCount, PublishInv, TypeOK
<1>10. CASE DoorbellRing
  BY <1>10 DEF DoorbellRing, PublishInv
<1>11. CASE Panic
  BY <1>11 DEF Panic, PublishInv
<1>12. CASE \/ IsrEnter \/ ClaimNone \/ ClaimRead \/ ClaimZero \/ ClaimClear
            \/ ClaimDisable \/ HandleOverflow \/ HandleMessage
  <2>1. UNCHANGED <<ctx0, frames, job, step, line, dram>>
    BY <1>12 DEF IsrEnter, ClaimNone, ClaimRead, ClaimZero, ClaimClear,
           ClaimDisable, HandleOverflow, HandleMessage
  <2>2. QED
    BY <2>1, PublishKept
<1>13. CASE ReplyData \/ ReplySeq \/ ReplyMagic
  <2>1. /\ UNCHANGED <<ctx0, frames, job, step, dram>>
        /\ \A w \in FrameWords \cup {"magic"} : line'[w] = line[w]
    BY <1>13 DEF ReplyData, ReplySeq, ReplyMagic, Store, FrameWords, TypeOK, Words
  <2>2. QED
    BY <2>1, PublishKept
<1>14. CASE ReplyFlush \/ Evict
  <2>1. UNCHANGED <<ctx0, frames, job, step, line>> /\ dram' = line
    BY <1>14 DEF ReplyFlush, Evict, flush_mailbox
  <2>2. QED
    BY <2>1, PublishKept
<1>15. CASE BigNext
  <2>1. UNCHANGED <<ctx0, frames, job, step, line, dram>>
    BY <1>15 DEF BigNext, BigFinish, BigSend, BigEnable, BigRing, BigBell
  <2>2. QED
    BY <2>1, PublishKept
<1>16. QED
  BY <1>1, <1>2, <1>3, <1>4, <1>5, <1>6, <1>7, <1>8, <1>9, <1>10, <1>11, <1>12,
     <1>13, <1>14, <1>15 DEF Next, MainNext, IsrNext

\* The frame count in context slot 0 never runs ahead of what notify has made
\* visible in DRAM, however the ISR's flushes and cache write-backs fall.
THEOREM DoorbellFollowsPublish == Spec => []DoorbellAfterPublish
<1>1. Init => PublishInv
  BY DEF Init, PublishInv, FrameWords, Words
<1>2. TypeOK /\ PublishInv /\ [Next]_vars => PublishInv'
  BY PublishStep
<1>3. PublishInv => DoorbellAfterPublish
  BY DEF PublishInv, DoorbellAfterPublish, FrameWords
<1>4. QED
  BY <1>1, <1>2, <1>3, TypeCorrect, PTL DEF Spec

-----------------------------------------------------------------------------
(* Replies. *)

\* The reply half is what write_reply has stored so far, in the line and,
\* between two replies, in DRAM; the ISR cannot run before the boot marker is
\* complete.
ReplyInv ==
    /\ job = "boot" =>
         /\ ~irqOn /\ ist = "off" /\ answered = [n |-> 0, id |-> 0]
         /\ line["reply_data"] = 0 /\ line["reply_seq"] = 0
    /\ job \notin {"boot", "panic", "dead"} =>
         /\ ist \notin {"reply_seq", "reply_magic", "reply_flush"} =>
              /\ line["reply_data"] = answered.id /\ line["reply_seq"] = answered.n
              /\ dram["reply_data"] = answered.id /\ dram["reply_seq"] = answered.n
         /\ ist \in {"reply_seq", "reply_magic", "reply_flush"} =>
              line["reply_data"] = msg.id
         /\ ist = "reply_seq" => line["reply_seq"] = answered.n
         /\ ist \in {"reply_magic", "reply_flush"} =>
              line["reply_seq"] = answered.n + 1

ReplyWords == {"reply_data", "reply_seq"}

\* Steps of the main loop other than ipc::write, of the big core and of the
\* cache touch neither the reply half of the line nor the ISR.
LEMMA ReplyKept ==
    ASSUME TypeOK, ReplyInv,
           UNCHANGED <<ist, msg, answered, irqOn>>,
           job' = job \/ (job # "boot" /\ job' # "boot"
                          /\ (job' \in {"panic", "dead"} \/ job \notin {"panic", "dead"})),
           \A w \in ReplyWords :
               line'[w] = line[w] /\ dram'[w] \in {dram[w], line[w]}
    PROVE  ReplyInv'
  BY DEF ReplyInv, ReplyWords

LEMMA ReplyStep ==
    ASSUME TypeOK, ReplyInv, [Next]_vars
    PROVE  ReplyInv'
<1> USE OrderFacts
<1>1. CASE UNCHANGED vars
  BY <1>1, ReplyKept DEF vars
<1>2. CASE WriteWord
  <2>1. CASE job = "panic"
    BY <1>2, <2>1 DEF WriteWord, ReplyInv
  <2>2. CASE job = "boot"
    <3>1. \A w \in ReplyWords : line'[w] = 0
      <4>1. \A w \in ReplyWords : WriteValue(w) = 0 /\ w \in Words /\ line[w] = 0
        BY <2>2 DEF ReplyWords, WriteValue, Words, ReplyInv
      <4>2. WriteOrder[step] \in Words /\ Store(WriteOrder[step], WriteValue(WriteOrder[step]))
        BY <1>2 DEF WriteWord, TypeOK
      <4>3. QED
        BY <4>1, <4>2 DEF Store, TypeOK
    <3>2. QED
      BY <1>2, <2>2, <3>1 DEF WriteWord, ReplyInv, ReplyWords
  <2>3. QED
    BY <1>2, <2>1, <2>2 DEF WriteWord
<1>3. CASE WriteFlush
  <2>1. CASE job = "panic"
    BY <1>3, <2>1 DEF WriteFlush, ReplyInv
  <2>2. CASE job = "boot"
    BY <1>3, <2>2 DEF WriteFlush, flush_mailbox, ReplyInv
  <2>3. QED
    BY <1>3, <2>1, <2>2 DEF WriteFlush
<1>4. CASE \/ MainReady \/ MainPoll \/ MainCaptured \/ MainCaptureError
           \/ DoorbellCount \/ DoorbellRing \/ Panic
  <2>1. /\ UNCHANGED <<ist, msg, answered, irqOn, line, dram>>
        /\ job \notin {"boot", "panic", "dead"} /\ job' # "boot"
    BY <1>4 DEF MainReady, MainPoll, MainCaptured, MainCaptureError,
           DoorbellCount, DoorbellRing, Panic
  <2>2. QED
    BY <2>1, ReplyKept
<1>5. CASE NotifyWord
  <2>1. /\ UNCHANGED <<ist, msg, answered, irqOn, dram, job>>
        /\ step \in 1..4
        /\ line' = [line EXCEPT ![NotifyOrder[step]] = NotifyValue(NotifyOrder[step])]
    BY <1>5 DEF NotifyWord, Store, TypeOK
  <2>2. \A i \in 1..4 : NotifyOrder[i] \in Words \ ReplyWords
    BY DEF NotifyOrder, Words, ReplyWords
  <2>3. \A w \in ReplyWords : line'[w] = line[w]
    BY <2>1, <2>2 DEF TypeOK
  <2>4. QED
    BY <2>1, <2>3, ReplyKept
<1>6. CASE NotifyFlush
  <2>1. /\ UNCHANGED <<ist, msg, answered, irqOn, line>> /\ dram' = line
        /\ job = "notify" /\ job' = "doorbell"
    BY <1>6 DEF NotifyFlush, flush_mailbox
  <2>2. QED
    BY <2>1, ReplyKept
<1>7. CASE IsrEnter
  BY <1>7 DEF IsrEnter, ReplyInv
<1>8. CASE ClaimNone
  BY <1>8 DEF ClaimNone, ReplyInv
<1>9. CASE ClaimRead
  BY <1>9 DEF ClaimRead, ReplyInv
<1>10. CASE ClaimZero
  BY <1>10 DEF ClaimZero, ReplyInv
<1>11. CASE ClaimClear
  BY <1>11 DEF ClaimClear, ReplyInv
<1>12. CASE ClaimDisable
  BY <1>12 DEF ClaimDisable, ReplyInv
<1>13. CASE HandleOverflow \/ HandleMessage
  <2>1. /\ ist = "handle" /\ ist' \in {"off", "reply_data"}
        /\ UNCHANGED <<job, irqOn, line, dram, msg, answered>>
    BY <1>13 DEF HandleOverflow, HandleMessage
  <2>2. QED
    BY <2>1 DEF ReplyInv
<1>14. CASE ReplyData
  BY <1>14 DEF ReplyData, Store, ReplyInv, TypeOK, Words
<1>15. CASE ReplySeq
  BY <1>15 DEF ReplySeq, Store, ReplyInv, TypeOK, Words
<1>16. CASE ReplyMagic
  BY <1>16 DEF ReplyMagic, Store, ReplyInv, TypeOK, Words
<1>17. CASE ReplyFlush
  BY <1>17 DEF ReplyFlush, flush_mailbox, ReplyInv
<1>18. CASE BigNext \/ Evict
  <2>1. /\ UNCHANGED <<ist, msg, answered, irqOn, line, job>>
        /\ dram' = dram \/ dram' = line
    BY <1>18 DEF BigNext, BigFinish, BigSend, BigEnable, BigRing, BigBell, Evict
  <2>2. QED
    BY <2>1, ReplyKept
<1>19. QED
  BY <1>1, <1>2, <1>3, <1>4, <1>5, <1>6, <1>7, <1>8, <1>9, <1>10, <1>11, <1>12,
     <1>13, <1>14, <1>15, <1>16, <1>17, <1>18 DEF Next, MainNext, IsrNext

\* Whenever the ISR is not running, the big core finds the last reply, with the
\* number of replies given so far, in DRAM: notify and the ISR's write_reply,
\* interleaved store by store, never overwrite each other's half.
THEOREM RepliesSurvive == Spec => []ReplyIntact
<1>1. Init => ReplyInv
  BY DEF Init, ReplyInv, Words
<1>2. TypeOK /\ ReplyInv /\ [Next]_vars => ReplyInv'
  BY ReplyStep
<1>3. ReplyInv => ReplyIntact
  BY DEF ReplyInv, ReplyIntact
<1>4. QED
  BY <1>1, <1>2, <1>3, TypeCorrect, PTL DEF Spec

-----------------------------------------------------------------------------
(* Pause. *)

\* A frame under way when the pause command came has not been counted yet.
PauseInv ==
    paused =>
        /\ late <= 1
        /\ job \in {"capture", "notify", "doorbell", "ring"} => late = 0

\* After the ISR has executed a pause command, the main loop announces at most
\* the one frame it was already working on.
THEOREM PauseStopsPipeline == Spec => []PauseBounded
<1>1. Init => PauseInv
  BY DEF Init, PauseInv
<1>2. TypeOK /\ PauseInv /\ [Next]_vars => PauseInv'
  <2> SUFFICES ASSUME TypeOK, PauseInv, [Next]_vars PROVE PauseInv'
    OBVIOUS
  <2> USE DEF PauseInv, TypeOK
  <2>1. CASE UNCHANGED vars
    BY <2>1 DEF vars
  <2>2. CASE MainReady \/ MainPoll
    BY <2>2 DEF MainReady, MainPoll
  <2>3. CASE DoorbellRing
    BY <2>3 DEF DoorbellRing
  <2>4. CASE \/ WriteWord \/ WriteFlush \/ MainCaptured \/ MainCaptureError
             \/ NotifyWord \/ NotifyFlush \/ DoorbellCount \/ Panic
    BY <2>4 DEF WriteWord, WriteFlush, MainCaptured, MainCaptureError,
           NotifyWord, NotifyFlush, DoorbellCount, Panic
  <2>5. CASE HandleMessage
    <3>1. CASE msg.kind = "pause"
      BY <2>5, <3>1 DEF HandleMessage
    <3>2. CASE msg.kind = "resume"
      BY <2>5, <3>2 DEF HandleMessage
    <3>3. CASE msg.kind \notin {"pause", "resume"}
      BY <2>5, <3>3 DEF HandleMessage
    <3>4. QED
      BY <3>1, <3>2, <3>3
  <2>6. CASE \/ IsrEnter \/ ClaimNone \/ ClaimRead \/ ClaimZero \/ ClaimClear
             \/ ClaimDisable \/ HandleOverflow
             \/ ReplyData \/ ReplySeq \/ ReplyMagic \/ ReplyFlush
    BY <2>6 DEF IsrEnter, ClaimNone, ClaimRead, ClaimZero, ClaimClear,
           ClaimDisable, HandleOverflow, ReplyData, ReplySeq, ReplyMagic, ReplyFlush
  <2>7. CASE BigNext \/ Evict
    BY <2>7 DEF BigNext, BigFinish, BigSend, BigEnable, BigRing, BigBell, Evict
  <2>8. QED
    BY <2>1, <2>2, <2>3, <2>4, <2>5, <2>6, <2>7 DEF Next, MainNext, IsrNext
<1>3. PauseInv => PauseBounded
  BY DEF PauseInv, PauseBounded
<1>4. QED
  BY <1>1, <1>2, <1>3, TypeCorrect, PTL DEF Spec
-----------------------------------------------------------------------------
(* No message is handled twice. *)

\* The payload word holds the message sent last or nothing; a message that the
\* ISR has read stays there only until its very next step, which wipes it.
ReplayInv ==
    /\ \A i \in seen : i <= sent.id
    /\ payload.id # 0 => payload.id = sent.id
    /\ payload.id # 0 /\ payload.id \in seen => ist = "zero"

LEMMA ReplayStep ==
    ASSUME TypeOK, ReplayInv, [Next]_vars
    PROVE  ReplayInv'
<1>0. payload.id \in Nat /\ sent.id \in Nat /\ seen \subseteq Nat
  BY DEF TypeOK, Msg
<1>1. ASSUME UNCHANGED <<payload, seen, sent>>, ist = "zero" => ist' = "zero"
      PROVE  ReplayInv'
  BY <1>1 DEF ReplayInv
<1>2. CASE UNCHANGED vars
  BY <1>1, <1>2 DEF vars
<1>3. CASE MainNext
  BY <1>1, <1>3 DEF MainNext, WriteWord, WriteFlush, MainReady, MainPoll, MainCaptured,
         MainCaptureError, NotifyWord, NotifyFlush, DoorbellCount, DoorbellRing, Panic
<1>4. CASE \/ IsrEnter \/ ClaimNone \/ ClaimClear \/ ClaimDisable \/ HandleOverflow
           \/ HandleMessage \/ ReplyData \/ ReplySeq \/ ReplyMagic \/ ReplyFlush
  <2>1. ist # "zero" /\ UNCHANGED <<payload, seen, sent>>
    BY <1>4 DEF IsrEnter, ClaimNone, ClaimClear, ClaimDisable, HandleOverflow,
           HandleMessage, ReplyData, ReplySeq, ReplyMagic, ReplyFlush
  <2>2. QED
    BY <1>1, <2>1
<1>5. CASE ClaimRead
  BY <1>0, <1>5 DEF ClaimRead, ReplayInv
<1>6. CASE ClaimZero
  BY <1>6 DEF ClaimZero, ReplayInv, NoMsg
<1>7. ASSUME NEW k \in Kinds, BigSend(k) PROVE ReplayInv'
  <2>1. payload'.id = sent.id + 1 /\ sent'.id = sent.id + 1 /\ seen' = seen
    BY <1>7 DEF BigSend
  <2>2. \A i \in seen : i \in Nat /\ i <= sent.id
    BY <1>0 DEF ReplayInv
  <2>3. QED
    BY <1>0, <2>1, <2>2 DEF ReplayInv
<1>8. CASE BigFinish \/ BigBell \/ Evict
  BY <1>1, <1>8 DEF BigFinish, BigEnable, BigRing, BigBell, Evict
<1>9. QED
  BY <1>2, <1>3, <1>4, <1>5, <1>6, <1>7, <1>8 DEF Next, IsrNext, BigNext

\* The ISR never reads the same message twice, even from a sender that does not
\* wait for the acknowledgement and rings while the ISR is claiming: a second
\* interrupt for a message finds the payload wiped (mailbox.rs:112-127).
THEOREM NeverReplayed == Spec => NoReplay
<1>1. Init => ReplayInv
  BY DEF Init, ReplayInv, NoMsg
<1>2. TypeOK /\ ReplayInv /\ [Next]_vars => ReplayInv'
  BY ReplayStep
<1>3. ReplayInv =>
        [(ist = "claim" /\ ist' = "zero" /\ payload.id # 0) => payload.id \notin seen]_vars
  BY DEF ReplayInv
<1>4. QED
  BY <1>1, <1>2, <1>3, TypeCorrect, PTL DEF Spec, NoReplay

-----------------------------------------------------------------------------
(* The communication test on the big core. *)

LEMMA ToolSteps == [ToolNext \/ LinkNext]_allVars => [Next]_vars
<1> SUFFICES ASSUME [ToolNext \/ LinkNext]_allVars PROVE [Next]_vars
  OBVIOUS
<1>1. CASE ToolSend
  BY <1>1, CommTestAssumption DEF ToolSend, Next, BigNext
<1>2. CASE ToolFirst \/ ToolPoll \/ ToolSkip \/ ToolCheck
  BY <1>2 DEF ToolFirst, ToolPoll, ToolSkip, ToolCheck
<1>3. CASE LinkNext
  BY <1>3 DEF LinkNext, Next, BigNext
<1>4. CASE UNCHANGED allVars
  BY <1>4 DEF allVars
<1>5. QED
  BY <1>1, <1>2, <1>3, <1>4 DEF ToolNext

\* The tool uses the mailboxes as module Mailbox lets the big core use them, so
\* all that is proved of Spec holds under the test.
THEOREM ToolUsesLink == ToolSpec => Spec
<1>1. ToolInit => Init
  BY DEF ToolInit
<1>2. QED
  BY <1>1, ToolSteps, PTL DEF ToolSpec, Spec

ToolTypes ==
    /\ tpc \in {"first", "poll", "send", "sleep", "exit"}
    /\ last_fc \in Nat /\ s2b_errors \in Nat /\ ok \in Nat /\ fail \in Nat
    /\ prompt \in BOOLEAN
    /\ geometry \in [1..MaxFrames -> Geometries]

\* The frame count in the line only grows, the copy in DRAM follows it and the
\* newest count the tool has seen follows that.
CountsInOrder ==
    /\ last_fc <= dram["frame_count"]
    /\ dram["frame_count"] <= line["frame_count"]
    /\ line["frame_count"] <= PANIC_FC
    /\ frames <= MaxFrames
    /\ job = "boot" => line["frame_count"] = 0
    /\ job \notin {"panic", "dead"} => line["frame_count"] <= frames

\* A record that has its flags has its size, until the panic marker wipes both.
WholeRecord(mb) == mb["frame_count"] = PANIC_FC \/ mb["flags"] = 0 \/ mb["yuv_size"] > 0

HasFlags(mb) == mb["frame_count"] = PANIC_FC \/ mb["flags"] > 0

\* So it is in the line and in DRAM, which is never ahead of the line.
RecordsWhole ==
    /\ line["flags"] \in 0..MaxFrames /\ dram["flags"] \in 0..MaxFrames
    /\ WholeRecord(line) /\ WholeRecord(dram)
    /\ HasFlags(dram) => HasFlags(line)
    /\ job = "boot" => line["flags"] = 0
    /\ job = "panic" /\ step >= 3 => line["frame_count"] = PANIC_FC
    /\ job = "notify" => frames > 0
    /\ job = "notify" /\ step >= 3 => line["yuv_size"] > 0

DimsSeen == \E n \in 1..MaxFrames : dims = geometry[n]

\* What the tool keeps of the first record, and the errors it has counted.
RecordsChecked ==
    /\ tpc = "first" => s2b_errors = 0
    /\ dims # "none" => DimsSeen /\ HasFlags(dram)
    /\ MetadataErrorsMeanPanic

\* What stands in the reply half, and the message the ISR holds, was read.
RepliesRead ==
    /\ msg.id \in seen \cup {0}
    /\ line["reply_data"] \in seen \cup {0}
    /\ dram["reply_data"] \in seen \cup {0}
    /\ tpc = "sleep" => sent.id > 0

\* A message on its way to the handler ...
Underway ==
    /\ answered.n + 1 = sent.id
    /\ \/ bpc \in {"en", "ring"} /\ pend = 0 /\ ist = "off" /\ payload = sent
          /\ (bpc = "ring" => en = 1)
       \/ bpc = "idle" /\ pend = 1 /\ ist = "off" /\ payload = sent
       \/ bpc = "idle" /\ pend = 1 /\ ist = "claim" /\ payload = sent /\ drain = 0
       \/ bpc = "idle" /\ pend = 1 /\ ist \in {"zero", "clr"} /\ msg = sent /\ drain = 0
       \/ bpc = "idle" /\ pend = 0 /\ ist \in {"en", "handle"} /\ msg = sent /\ drain = 0
       \/ bpc = "idle" /\ pend = 0 /\ msg = sent
          /\ ist \in {"reply_data", "reply_seq", "reply_magic", "reply_flush"}

\* ... or answered.
Served ==
    /\ bpc = "idle" /\ pend = 0 /\ ist \in {"claim", "off"}
    /\ answered = [n |-> sent.id, id |-> sent.id]

\* When every sleep outlasts the handler, the messages are answered one at a
\* time: the next one is sent after the handler has returned.
TurnInv ==
    prompt /\ job \notin {"panic", "dead"} =>
        /\ fail = 0
        /\ tpc # "sleep" => Served /\ ist = "off"
        /\ tpc = "sleep" => Underway \/ Served

LEMMA ToolTypesStep ==
    ASSUME TypeOK, ToolTypes, [ToolNext \/ LinkNext]_allVars
    PROVE  ToolTypes'
<1> USE DEF ToolTypes
<1>1. dram["frame_count"] \in Nat
  BY DEF TypeOK, Words
<1>2. CASE ToolFirst
  BY <1>1, <1>2 DEF ToolFirst
<1>3. CASE ToolPoll
  BY <1>1, <1>3 DEF ToolPoll
<1>4. CASE ToolSkip \/ ToolSend
  BY <1>4 DEF ToolSkip, ToolSend
<1>5. CASE ToolCheck
  BY <1>5 DEF ToolCheck
<1>6. CASE LinkNext \/ UNCHANGED allVars
  BY <1>6 DEF LinkNext, allVars, toolVars
<1>7. QED
  BY <1>2, <1>3, <1>4, <1>5, <1>6 DEF ToolNext

LEMMA CountsStep ==
    ASSUME TypeOK, ToolTypes, CountsInOrder, [ToolNext \/ LinkNext]_allVars
    PROVE  CountsInOrder'
<1> USE DEF CountsInOrder
<1>0. /\ dram["frame_count"] \in Nat /\ line["frame_count"] \in Nat /\ frames \in Nat
      /\ last_fc \in Nat /\ PANIC_FC \in Nat /\ MaxFrames \in Nat /\ MaxFrames <= PANIC_FC
  BY MailboxAssumption, CommTestAssumption DEF TypeOK, ToolTypes, Words
<1>1. CASE ToolFirst
  BY <1>0, <1>1 DEF ToolFirst, vars
<1>2. CASE ToolPoll
  BY <1>0, <1>2 DEF ToolPoll, vars
<1>3. CASE ToolSkip \/ ToolCheck
  BY <1>3 DEF ToolSkip, ToolCheck, vars
<1>4. CASE ToolSend
  BY <1>4 DEF ToolSend, BigSend
<1>5. CASE UNCHANGED allVars
  BY <1>5 DEF allVars, vars, toolVars
\* The line keeps its frame count, and DRAM its own or gets the line's.
<1>6. ASSUME UNCHANGED <<last_fc, frames>>,
             line'["frame_count"] = line["frame_count"],
             dram' = dram \/ dram' = line,
             job' = job \/ (job # "boot" /\ job' # "boot"
                            /\ (job' \in {"panic", "dead"} \/ job \notin {"panic", "dead"}))
      PROVE  CountsInOrder'
  BY <1>0, <1>6
<1>7. CASE LinkNext
  <2>0. UNCHANGED last_fc
    BY <1>7 DEF LinkNext, toolVars
  <2>1. CASE WriteWord
    <3>1. UNCHANGED <<job, frames, dram>> /\ job \in {"boot", "panic"} /\ step \in 1..7
      BY <2>1, OrderFacts DEF WriteWord, TypeOK
    <3>2. line' = [line EXCEPT ![WriteOrder[step]] = WriteValue(WriteOrder[step])]
      BY <2>1 DEF WriteWord, Store
    <3>3. CASE WriteOrder[step] # "frame_count"
      <4>1. line'["frame_count"] = line["frame_count"]
        BY <3>2, <3>3 DEF TypeOK, Words
      <4>2. QED
        BY <1>6, <2>0, <3>1, <4>1
    <3>4. CASE WriteOrder[step] = "frame_count"
      <4>1. line'["frame_count"] = WriteValue("frame_count")
        BY <3>2, <3>4 DEF TypeOK, Words
      <4>2. CASE job = "boot"
        <5>1. WriteValue("frame_count") = 0
          BY <4>2 DEF WriteValue
        <5>2. QED
          BY <1>6, <2>0, <3>1, <4>1, <4>2, <5>1
      <4>3. CASE job = "panic"
        <5>1. WriteValue("frame_count") = PANIC_FC
          BY <4>3 DEF WriteValue
        <5>2. QED
          BY <1>0, <2>0, <3>1, <4>1, <4>3, <5>1
      <4>4. QED
        BY <3>1, <4>2, <4>3
    <3>5. QED
      BY <3>3, <3>4
  <2>2. CASE WriteFlush
    BY <1>0, <2>0, <2>2 DEF WriteFlush, flush_mailbox
  <2>3. CASE MainCaptured
    BY <1>0, <2>0, <2>3 DEF MainCaptured
  <2>4. CASE \/ MainReady \/ MainPoll \/ MainCaptureError \/ DoorbellCount \/ DoorbellRing \/ Panic
    <3>1. /\ UNCHANGED <<frames, line, dram>>
          /\ job \notin {"boot", "panic", "dead"} /\ job' # "boot"
      BY <2>4 DEF MainReady, MainPoll, MainCaptureError, DoorbellCount, DoorbellRing, Panic
    <3>2. QED
      BY <1>6, <2>0, <3>1
  <2>5. CASE NotifyWord
    <3>1. UNCHANGED <<job, frames, dram>> /\ job = "notify" /\ step \in 1..4
      BY <2>5, OrderFacts DEF NotifyWord, TypeOK
    <3>2. line' = [line EXCEPT ![NotifyOrder[step]] = NotifyValue(NotifyOrder[step])]
      BY <2>5 DEF NotifyWord, Store
    <3>3. line'["frame_count"] \in {line["frame_count"], frames}
      BY <3>2 DEF TypeOK, Words, NotifyValue
    <3>4. QED
      BY <1>0, <2>0, <3>1, <3>3
  <2>6. CASE NotifyFlush
    <3>1. /\ UNCHANGED <<frames, line>> /\ dram' = line /\ job = "notify" /\ job' = "doorbell"
      BY <2>6 DEF NotifyFlush, flush_mailbox
    <3>2. QED
      BY <1>6, <2>0, <3>1
  <2>7. CASE \/ IsrEnter \/ ClaimNone \/ ClaimRead \/ ClaimZero \/ ClaimClear
             \/ ClaimDisable \/ HandleOverflow \/ HandleMessage \/ BigFinish \/ BigBell
    <3>1. UNCHANGED <<frames, line, dram, job>>
      BY <2>7 DEF IsrEnter, ClaimNone, ClaimRead, ClaimZero, ClaimClear, ClaimDisable,
             HandleOverflow, HandleMessage, BigFinish, BigEnable, BigRing, BigBell
    <3>2. QED
      BY <1>6, <2>0, <3>1
  <2>8. CASE ReplyData \/ ReplySeq \/ ReplyMagic
    <3>1. UNCHANGED <<frames, dram, job>> /\ line'["frame_count"] = line["frame_count"]
      BY <2>8 DEF ReplyData, ReplySeq, ReplyMagic, Store, TypeOK, Words
    <3>2. QED
      BY <1>6, <2>0, <3>1
  <2>9. CASE ReplyFlush \/ Evict
    <3>1. UNCHANGED <<frames, line, job>> /\ dram' = line
      BY <2>9 DEF ReplyFlush, Evict, flush_mailbox
    <3>2. QED
      BY <1>6, <2>0, <3>1
  <2>10. QED
    BY <1>7, <2>1, <2>2, <2>3, <2>4, <2>5, <2>6, <2>7, <2>8, <2>9
       DEF LinkNext, MainNext, IsrNext
<1>8. QED
  BY <1>1, <1>2, <1>3, <1>4, <1>5, <1>7 DEF ToolNext

LEMMA ToolTypeCorrect == ToolSpec => [](TypeOK /\ ToolTypes)
<1>1. ToolInit => ToolTypes
  BY DEF ToolInit, ToolTypes
<1>2. QED
  BY <1>1, ToolTypesStep, ToolUsesLink, TypeCorrect, PTL DEF ToolSpec

LEMMA CountsCorrect == ToolSpec => [](TypeOK /\ ToolTypes /\ CountsInOrder)
<1>1. ToolInit => CountsInOrder
  BY MailboxAssumption DEF ToolInit, Init, CountsInOrder, Words
<1>2. QED
  BY <1>1, CountsStep, ToolTypeCorrect, PTL DEF ToolSpec

\* The frame count that the tool reads next is never below the newest it has
\* seen: not when the cache writes a half-written mailbox back, not when the
\* ISR's flush publishes a notification it interrupted, and not over a panic
\* (ipc.rs:96-118).
THEOREM FrameCountMonotone == ToolSpec => []FrameCountNeverBack
<1>1. TypeOK /\ ToolTypes /\ CountsInOrder => FrameCountNeverBack
  BY DEF TypeOK, ToolTypes, Words, CountsInOrder, FrameCountNeverBack
<1>2. QED
  BY <1>1, CountsCorrect, PTL

LEMMA RecordsStep ==
    ASSUME TypeOK, ToolTypes, CountsInOrder, RecordsWhole, [ToolNext \/ LinkNext]_allVars
    PROVE  RecordsWhole'
<1> USE DEF RecordsWhole, WholeRecord, HasFlags
<1>0. /\ dram["frame_count"] \in Nat /\ line["frame_count"] \in Nat /\ frames \in Nat
      /\ line["yuv_size"] \in Nat /\ dram["yuv_size"] \in Nat /\ step \in 1..8
      /\ PANIC_FC \in Nat /\ MaxFrames \in Nat /\ MaxFrames < PANIC_FC
  BY MailboxAssumption, CommTestAssumption DEF TypeOK, Words
<1>1. dram["frame_count"] = PANIC_FC => line["frame_count"] = PANIC_FC
  BY <1>0 DEF CountsInOrder
\* Steps that store nothing in the frame half.
<1>2. ASSUME \A w \in {"frame_count", "yuv_size", "flags"} : line'[w] = line[w],
             dram' = dram \/ dram' = line,
             job' = "boot" => job = "boot",
             job' = "panic" /\ step' >= 3 => job = "panic" /\ step >= 3 /\ step' = step,
             job' = "notify" => frames' > 0,
             job' = "notify" /\ step' >= 3 => job = "notify" /\ step >= 3
      PROVE  RecordsWhole'
  BY <1>0, <1>1, <1>2
<1>3. CASE ToolFirst \/ ToolPoll \/ ToolSkip \/ ToolCheck \/ UNCHANGED allVars
  BY <1>3 DEF ToolFirst, ToolPoll, ToolSkip, ToolCheck, vars, allVars
<1>4. CASE ToolSend
  BY <1>4 DEF ToolSend, BigSend
<1>5. CASE LinkNext
  <2>1. CASE WriteWord
    <3>1. /\ UNCHANGED <<job, frames, dram>> /\ job \in {"boot", "panic"} /\ step \in 1..7
          /\ step' = step + 1
          /\ line' = [line EXCEPT ![WriteOrder[step]] = WriteValue(WriteOrder[step])]
      BY <2>1, OrderFacts DEF WriteWord, Store, TypeOK
    <3>2. CASE job = "boot"
      <4>1. line'["flags"] = 0 /\ line'["frame_count"] \in {0, line["frame_count"]}
        BY <3>1, <3>2, OrderFacts DEF WriteValue, TypeOK, Words
      <4>2. line["frame_count"] = 0
        BY <3>2 DEF CountsInOrder
      <4>3. dram["flags"] = 0 /\ dram["frame_count"] # PANIC_FC
        BY <1>0, <1>1, <3>2, <4>2
      <4>4. QED
        BY <1>0, <3>1, <3>2, <4>1, <4>2, <4>3
    <3>3. CASE job = "panic"
      <4>1. WriteOrder[1] = "magic" /\ WriteOrder[2] = "frame_count"
            /\ \A i \in 3..7 : WriteOrder[i] \in Words \ {"magic", "frame_count"}
        BY DEF WriteOrder, Words
      <4>2. CASE step = 1
        <5>1. /\ line'["frame_count"] = line["frame_count"]
              /\ line'["yuv_size"] = line["yuv_size"] /\ line'["flags"] = line["flags"]
          BY <3>1, <4>1, <4>2 DEF TypeOK, Words
        <5>2. QED
          BY <1>0, <3>1, <3>3, <4>2, <5>1
      <4>3. CASE step = 2
        <5>1. line'["frame_count"] = PANIC_FC /\ line'["flags"] = line["flags"]
          BY <3>1, <3>3, <4>1, <4>3 DEF WriteValue, TypeOK, Words
        <5>2. QED
          BY <1>0, <3>1, <3>3, <5>1
      <4>4. CASE step \in 3..7
        <5>1. /\ line'["frame_count"] = line["frame_count"]
              /\ line'["flags"] \in {line["flags"], WriteValue("flags")}
          BY <3>1, <4>1, <4>4 DEF TypeOK, Words
        <5>2. WriteValue("flags") = 0
          BY DEF WriteValue
        <5>3. QED
          BY <1>0, <3>1, <3>3, <4>4, <5>1, <5>2
      <4>5. QED
        BY <3>1, <4>2, <4>3, <4>4
    <3>4. QED
      BY <3>1, <3>2, <3>3
  <2>2. CASE WriteFlush
    <3>1. line' = line /\ dram' = line /\ job' \in {"init", "dead"}
      BY <2>2 DEF WriteFlush, flush_mailbox
    <3>2. QED
      BY <1>2, <3>1
  <2>3. CASE MainCaptured
    <3>1. UNCHANGED <<line, dram>> /\ job' = "notify" /\ step' = 1 /\ frames' > 0
      BY <1>0, <2>3 DEF MainCaptured
    <3>2. QED
      BY <1>2, <3>1
  <2>4. CASE \/ MainReady \/ MainPoll \/ MainCaptureError \/ DoorbellCount \/ DoorbellRing \/ Panic
    <3>1. /\ UNCHANGED <<frames, line, dram>>
          /\ job' \in {"loop", "capture", "ring"} \/ (job' = "panic" /\ step' = 1)
      BY <2>4 DEF MainReady, MainPoll, MainCaptureError, DoorbellCount, DoorbellRing, Panic
    <3>2. QED
      BY <1>2, <3>1
  <2>5. CASE NotifyWord
    <3>1. /\ UNCHANGED <<job, frames, dram>> /\ job = "notify" /\ step \in 1..4
          /\ step' = step + 1
          /\ line' = [line EXCEPT ![NotifyOrder[step]] = NotifyValue(NotifyOrder[step])]
      BY <2>5, OrderFacts DEF NotifyWord, Store, TypeOK
    <3>2. frames \in 1..MaxFrames /\ line["frame_count"] # PANIC_FC /\ dram["frame_count"] # PANIC_FC
      BY <1>0, <3>1 DEF CountsInOrder
    <3>3. CASE step = 1
      <4>1. /\ line'["frame_count"] = frames
            /\ line'["yuv_size"] = line["yuv_size"] /\ line'["flags"] = line["flags"]
        BY <3>1, <3>3 DEF NotifyOrder, NotifyValue, TypeOK, Words
      <4>2. QED
        BY <1>0, <3>1, <3>2, <3>3, <4>1
    <3>4. CASE step = 2
      <4>1. /\ line'["frame_count"] = line["frame_count"]
            /\ line'["yuv_size"] = frames /\ line'["flags"] = line["flags"]
        BY <3>1, <3>4 DEF NotifyOrder, NotifyValue, TypeOK, Words
      <4>2. QED
        BY <1>0, <3>1, <3>2, <4>1
    <3>5. CASE step = 3
      <4>1. /\ line'["frame_count"] = line["frame_count"]
            /\ line'["yuv_size"] = line["yuv_size"] /\ line'["flags"] = frames
        BY <3>1, <3>5 DEF NotifyOrder, NotifyValue, TypeOK, Words
      <4>2. QED
        BY <1>0, <3>1, <3>2, <3>5, <4>1
    <3>6. CASE step = 4
      <4>1. /\ line'["frame_count"] = line["frame_count"]
            /\ line'["yuv_size"] = line["yuv_size"] /\ line'["flags"] = line["flags"]
        BY <3>1, <3>6 DEF NotifyOrder, NotifyValue, TypeOK, Words
      <4>2. QED
        BY <1>0, <3>1, <3>2, <3>6, <4>1
    <3>7. QED
      BY <3>1, <3>3, <3>4, <3>5, <3>6
  <2>6. CASE NotifyFlush
    BY <1>2, <2>6 DEF NotifyFlush, flush_mailbox
  <2>7. CASE \/ IsrEnter \/ ClaimNone \/ ClaimRead \/ ClaimZero \/ ClaimClear
             \/ ClaimDisable \/ HandleOverflow \/ HandleMessage \/ BigFinish \/ BigBell
    <3>1. UNCHANGED <<frames, line, dram, job, step>>
      BY <2>7 DEF IsrEnter, ClaimNone, ClaimRead, ClaimZero, ClaimClear, ClaimDisable,
             HandleOverflow, HandleMessage, BigFinish, BigEnable, BigRing, BigBell
    <3>2. QED
      BY <1>2, <3>1
  <2>8. CASE ReplyData \/ ReplySeq \/ ReplyMagic
    <3>1. /\ UNCHANGED <<frames, dram, job, step>>
          /\ \A w \in {"frame_count", "yuv_size", "flags"} : line'[w] = line[w]
      BY <2>8 DEF ReplyData, ReplySeq, ReplyMagic, Store, TypeOK, Words
    <3>2. QED
      BY <1>2, <3>1
  <2>9. CASE ReplyFlush \/ Evict
    <3>1. UNCHANGED <<frames, line, job, step>> /\ dram' = line
      BY <2>9 DEF ReplyFlush, Evict, flush_mailbox
    <3>2. QED
      BY <1>2, <3>1
  <2>10. QED
    BY <1>5, <2>1, <2>2, <2>3, <2>4, <2>5, <2>6, <2>7, <2>8, <2>9
       DEF LinkNext, MainNext, IsrNext
<1>6. QED
  BY <1>3, <1>4, <1>5 DEF ToolNext

\* Whoever runs, DRAM keeps its record or gets the line's.
LEMMA DramFollowsLine ==
    ASSUME [ToolNext \/ LinkNext]_allVars
    PROVE  dram' = dram \/ dram' = line
<1>1. CASE ToolNext \/ UNCHANGED allVars
  BY <1>1 DEF ToolNext, ToolFirst, ToolPoll, ToolSkip, ToolSend, ToolCheck, BigSend, vars, allVars
<1>2. CASE LinkNext
  BY <1>2 DEF LinkNext, MainNext, WriteWord, WriteFlush, MainReady, MainPoll, MainCaptured,
         MainCaptureError, NotifyWord, NotifyFlush, DoorbellCount, DoorbellRing, Panic,
         IsrNext, IsrEnter, ClaimNone, ClaimRead, ClaimZero, ClaimClear, ClaimDisable,
         HandleOverflow, HandleMessage, ReplyData, ReplySeq, ReplyMagic, ReplyFlush,
         BigFinish, BigEnable, BigRing, BigBell, Evict, flush_mailbox
<1>3. QED
  BY <1>1, <1>2

LEMMA ChecksStep ==
    ASSUME TypeOK, ToolTypes, CountsInOrder, RecordsWhole, RecordsChecked,
           [ToolNext \/ LinkNext]_allVars
    PROVE  RecordsChecked'
<1> USE DEF RecordsChecked, MetadataErrorsMeanPanic
<1>0. /\ dram["frame_count"] \in Nat /\ dram["flags"] \in 0..MaxFrames
      /\ dram["yuv_size"] \in Nat /\ last_fc \in Nat /\ s2b_errors \in Nat
      /\ last_fc <= dram["frame_count"] /\ dram["frame_count"] <= PANIC_FC
      /\ PANIC_FC \in Nat /\ MaxFrames \in Nat
  BY MailboxAssumption DEF TypeOK, ToolTypes, Words, CountsInOrder, RecordsWhole
<1>1. HasFlags(dram) => HasFlags(dram')
  BY DramFollowsLine DEF RecordsWhole
<1>2. ASSUME UNCHANGED <<geometry, dims, last_fc, s2b_errors>>, tpc' = "first" => tpc = "first"
      PROVE  RecordsChecked'
  BY <1>1, <1>2 DEF OneGeometry, HasFlags, DimsSeen
<1>3. decode_dims(dram["flags"]) # "none" =>
        /\ dram["flags"] \in 1..MaxFrames
        /\ decode_dims(dram["flags"]) = geometry[dram["flags"]]
  BY <1>0 DEF decode_dims, ToolTypes
<1>4. CASE ToolFirst
  <2>1. dram' = dram /\ geometry' = geometry /\ s2b_errors' = 0
    BY <1>4 DEF ToolFirst, vars
  <2>2. dims' \in {dims, decode_dims(dram["flags"])}
    BY <1>4 DEF ToolFirst
  <2>3. dims' # "none" => (\E n \in 1..MaxFrames : dims' = geometry[n]) /\ HasFlags(dram)
    BY <1>0, <1>3, <2>2 DEF HasFlags, DimsSeen
  <2>4. QED
    BY <2>1, <2>3 DEF HasFlags, DimsSeen
<1>5. CASE ToolPoll
  <2>1. /\ dram' = dram /\ geometry' = geometry /\ dims' = dims /\ tpc' = "send"
        /\ last_fc' \in {last_fc, dram["frame_count"]}
    BY <1>5 DEF ToolPoll, vars
  <2>2. CASE last_fc = dram["frame_count"]
    <3>1. last_fc' = last_fc /\ s2b_errors' = s2b_errors
      BY <1>0, <1>5, <2>2 DEF ToolPoll
    <3>2. QED
      BY <2>1, <3>1 DEF OneGeometry, HasFlags, DimsSeen
  <2>3. CASE dram["magic"] # 1
    <3>1. last_fc' = last_fc /\ s2b_errors' = s2b_errors
      BY <1>5, <2>3 DEF ToolPoll
    <3>2. QED
      BY <2>1, <3>1 DEF OneGeometry, HasFlags, DimsSeen
  <2>4. CASE last_fc < dram["frame_count"] /\ dram["magic"] = 1
    <3>1. /\ last_fc' = dram["frame_count"]
          /\ s2b_errors' = IF WrongRecord THEN s2b_errors + 1 ELSE s2b_errors
      BY <1>0, <1>5, <2>4 DEF ToolPoll
    <3>2. SUFFICES ASSUME OneGeometry, dims # "none"
                   PROVE  s2b_errors' <= (IF last_fc' = PANIC_FC THEN 1 ELSE 0)
      BY <2>1 DEF OneGeometry, HasFlags, DimsSeen
    <3>3. s2b_errors = 0
      BY <1>0, <2>4, <3>2
    <3>4. CASE dram["frame_count"] = PANIC_FC
      BY <3>1, <3>3, <3>4
    <3>5. CASE dram["frame_count"] # PANIC_FC
      <4>1. dram["flags"] \in 1..MaxFrames /\ dram["yuv_size"] > 0
        BY <1>0, <3>2, <3>5 DEF HasFlags, RecordsWhole, WholeRecord
      <4>2. decode_dims(dram["flags"]) = geometry[dram["flags"]]
        BY <4>1, <1>0 DEF decode_dims
      <4>3. PICK n \in 1..MaxFrames : dims = geometry[n]
        BY <3>2 DEF DimsSeen
      <4>4. ~WrongRecord
        BY <1>0, <3>2, <4>1, <4>2, <4>3 DEF WrongRecord, OneGeometry
      <4>5. QED
        BY <3>1, <3>3, <3>5, <4>4
    <3>6. QED
      BY <3>4, <3>5
  <2>5. QED
    BY <1>0, <2>2, <2>3, <2>4
<1>6. CASE ToolSkip \/ ToolSend \/ ToolCheck
  BY <1>2, <1>6 DEF ToolSkip, ToolSend, ToolCheck
<1>7. CASE LinkNext \/ UNCHANGED allVars
  BY <1>2, <1>7 DEF LinkNext, allVars, toolVars
<1>8. QED
  BY <1>4, <1>5, <1>6, <1>7 DEF ToolNext

\* In front of a camera that keeps its geometry, a tool whose first record was
\* not half-written counts no metadata error before a panic and one after it,
\* whatever half-written records it reads later (tool main.rs:189-209).
THEOREM ErrorsMeanPanic == ToolSpec => []MetadataErrorsMeanPanic
<1>1. ToolInit => RecordsWhole /\ RecordsChecked
  BY MailboxAssumption
     DEF ToolInit, Init, RecordsWhole, WholeRecord, HasFlags, RecordsChecked,
         MetadataErrorsMeanPanic, Words
<1>2. RecordsChecked => MetadataErrorsMeanPanic
  BY DEF RecordsChecked
<1>3. QED
  BY <1>1, <1>2, RecordsStep, ChecksStep, CountsCorrect, PTL DEF ToolSpec

LEMMA RepliesReadStep ==
    ASSUME TypeOK, ToolTypes, RepliesRead, [ToolNext \/ LinkNext]_allVars
    PROVE  RepliesRead'
<1> USE DEF RepliesRead
<1>0. sent.id \in Nat /\ msg.id \in Nat
  BY DEF TypeOK, Msg
\* Nothing is read or stored in the reply half.
<1>1. ASSUME UNCHANGED <<msg, seen>>,
             line'["reply_data"] \in {line["reply_data"], msg.id, 0},
             dram' = dram \/ dram' = line,
             tpc' = "sleep" => sent'.id > 0
      PROVE  RepliesRead'
  BY <1>1
<1>2. CASE ToolFirst \/ ToolPoll \/ ToolSkip \/ ToolCheck
  BY <1>2 DEF ToolFirst, ToolPoll, ToolSkip, ToolCheck, vars
<1>3. CASE ToolSend
  <2>1. sent'.id > 0 /\ UNCHANGED <<msg, seen, line, dram>>
    BY <1>0, <1>3 DEF ToolSend, BigSend
  <2>2. QED
    BY <1>1, <2>1
<1>4. CASE UNCHANGED allVars
  BY <1>4 DEF allVars, vars, toolVars
<1>5. CASE LinkNext
  <2>0. tpc' = tpc /\ sent' = sent
    BY <1>5 DEF LinkNext, toolVars, MainNext, WriteWord, WriteFlush, MainReady, MainPoll,
           MainCaptured, MainCaptureError, NotifyWord, NotifyFlush, DoorbellCount,
           DoorbellRing, Panic, IsrNext, IsrEnter, ClaimNone, ClaimRead, ClaimZero,
           ClaimClear, ClaimDisable, HandleOverflow, HandleMessage, ReplyData, ReplySeq,
           ReplyMagic, ReplyFlush, BigFinish, BigEnable, BigRing, BigBell, Evict
  <2>1. CASE WriteWord
    <3>1. /\ UNCHANGED <<msg, seen, dram>> /\ step \in 1..7
          /\ line' = [line EXCEPT ![WriteOrder[step]] = WriteValue(WriteOrder[step])]
      BY <2>1, OrderFacts DEF WriteWord, Store, TypeOK
    <3>2. WriteValue("reply_data") = 0
      BY DEF WriteValue
    <3>3. line'["reply_data"] \in {line["reply_data"], 0}
      BY <3>1, <3>2 DEF TypeOK, Words
    <3>4. QED
      BY <1>1, <2>0, <3>1, <3>3
  <2>2. CASE NotifyWord
    <3>1. /\ UNCHANGED <<msg, seen, dram>> /\ step \in 1..4
          /\ line' = [line EXCEPT ![NotifyOrder[step]] = NotifyValue(NotifyOrder[step])]
      BY <2>2, OrderFacts DEF NotifyWord, Store, TypeOK
    <3>2. \A i \in 1..4 : NotifyOrder[i] # "reply_data"
      BY DEF NotifyOrder
    <3>3. line'["reply_data"] = line["reply_data"]
      BY <3>1, <3>2 DEF TypeOK, Words
    <3>4. QED
      BY <1>1, <2>0, <3>1, <3>3
  <2>3. CASE \/ WriteFlush \/ MainReady \/ MainPoll \/ MainCaptured \/ MainCaptureError
             \/ NotifyFlush \/ DoorbellCount \/ DoorbellRing \/ Panic
    <3>1. UNCHANGED <<msg, seen, line>> /\ (dram' = dram \/ dram' = line)
      BY <2>3 DEF WriteFlush, MainReady, MainPoll, MainCaptured, MainCaptureError,
             NotifyFlush, DoorbellCount, DoorbellRing, Panic, flush_mailbox
    <3>2. QED
      BY <1>1, <2>0, <3>1
  <2>4. CASE ClaimRead
    BY <2>0, <2>4 DEF ClaimRead
  <2>5. CASE ReplyData \/ ReplySeq \/ ReplyMagic
    <3>1. UNCHANGED <<msg, seen, dram>> /\ line'["reply_data"] \in {line["reply_data"], msg.id}
      BY <2>5 DEF ReplyData, ReplySeq, ReplyMagic, Store, TypeOK, Words
    <3>2. QED
      BY <1>1, <2>0, <3>1
  <2>6. CASE \/ IsrEnter \/ ClaimNone \/ ClaimZero \/ ClaimClear \/ ClaimDisable
             \/ HandleOverflow \/ HandleMessage \/ ReplyFlush \/ BigFinish \/ BigBell \/ Evict
    <3>1. UNCHANGED <<msg, seen, line>> /\ (dram' = dram \/ dram' = line)
      BY <2>6 DEF IsrEnter, ClaimNone, ClaimZero, ClaimClear, ClaimDisable, HandleOverflow,
             HandleMessage, ReplyFlush, BigFinish, BigEnable, BigRing, BigBell, Evict,
             flush_mailbox
    <3>2. QED
      BY <1>1, <2>0, <3>1
  <2>7. QED
    BY <1>5, <2>1, <2>2, <2>3, <2>4, <2>5, <2>6 DEF LinkNext, MainNext, IsrNext
<1>6. QED
  BY <1>2, <1>3, <1>4, <1>5 DEF ToolNext

\* The tool counts a round trip as successful only when the ISR has read the
\* message it sent: no older reply and no marker passes for the answer.
THEOREM RoundTripsSound == ToolSpec => RoundTripSound
<1>1. ToolInit => RepliesRead
  BY DEF ToolInit, Init, RepliesRead, NoMsg, Words
<1>2. TypeOK /\ ToolTypes /\ RepliesRead /\ [ToolNext \/ LinkNext]_allVars
        => [ok' > ok => sent.id \in seen]_allVars
  <2> SUFFICES ASSUME TypeOK, ToolTypes, RepliesRead, ToolNext \/ LinkNext, ok' > ok
               PROVE  sent.id \in seen
    OBVIOUS
  <2>1. CASE ToolCheck
    <3>1. ReplyMatches(dram) /\ tpc = "sleep"
      BY <2>1 DEF ToolCheck, ToolTypes
    <3>2. dram["reply_data"] = sent.id /\ sent.id > 0 /\ sent.id \in Nat
      BY <3>1 DEF ReplyMatches, RepliesRead, TypeOK, Msg
    <3>3. QED
      BY <3>2 DEF RepliesRead
  <2>2. CASE ToolFirst \/ ToolPoll \/ ToolSkip \/ ToolSend \/ LinkNext
    BY <2>2 DEF ToolFirst, ToolPoll, ToolSkip, ToolSend, LinkNext, toolVars, ToolTypes
  <2>3. QED
    BY <2>1, <2>2 DEF ToolNext
<1>3. QED
  BY <1>1, <1>2, RepliesReadStep, ToolTypeCorrect, PTL DEF ToolSpec, RoundTripSound

-----------------------------------------------------------------------------
(* One message at a time. *)

\* Steps of the main loop do not take part in the exchange.
LEMMA MainLeavesTurn ==
    ASSUME TypeOK, TurnInv, MainNext, UNCHANGED toolVars
    PROVE  TurnInv'
<1>1. /\ UNCHANGED <<bpc, pend, en, ist, payload, sent, answered, msg, drain>>
      /\ job' \in {"panic", "dead"} \/ job \notin {"panic", "dead"}
  BY DEF MainNext, WriteWord, WriteFlush, MainReady, MainPoll, MainCaptured, MainCaptureError,
         NotifyWord, NotifyFlush, DoorbellCount, DoorbellRing, Panic
<1>2. QED
  BY <1>1 DEF TurnInv, Underway, Served, toolVars

LEMMA IsrServes ==
    ASSUME TypeOK, TurnInv, IsrNext, UNCHANGED toolVars
    PROVE  TurnInv'
<1>0. UNCHANGED <<job, bpc, sent, tpc, fail, prompt>>
  BY DEF IsrNext, IsrEnter, ClaimNone, ClaimRead, ClaimZero, ClaimClear, ClaimDisable,
         HandleOverflow, HandleMessage, ReplyData, ReplySeq, ReplyMagic, ReplyFlush, toolVars
<1> SUFFICES ASSUME prompt, job \notin {"panic", "dead"} PROVE TurnInv'
  BY <1>0 DEF TurnInv
<1>1. fail = 0 /\ (tpc # "sleep" => Served /\ ist = "off") /\ (tpc = "sleep" => Underway \/ Served)
  BY DEF TurnInv
<1>2. tpc = "sleep" /\ ((ist \in {"off", "claim"} /\ pend = 0) \/ Underway)
  <2>1. Served => ist \in {"off", "claim"} /\ pend = 0
    BY DEF Served
  <2>2. Served /\ ist = "off" => ~IsrNext
    BY DEF Served, IsrNext, IsrEnter, ClaimNone, ClaimRead, ClaimZero, ClaimClear, ClaimDisable,
           HandleOverflow, HandleMessage, ReplyData, ReplySeq, ReplyMagic, ReplyFlush
  <2>3. QED
    BY <1>1, <2>1, <2>2
<1>3. CASE Served
  <2>0. ist \in {"off", "claim"} /\ pend = 0
    BY <1>3 DEF Served
  <2>1. ClaimNone
    <3>1. ~IsrEnter /\ ~ClaimRead
      BY <2>0 DEF IsrEnter, ClaimRead
    <3>2. /\ ~ClaimZero /\ ~ClaimClear /\ ~ClaimDisable /\ ~HandleOverflow /\ ~HandleMessage
          /\ ~ReplyData /\ ~ReplySeq /\ ~ReplyMagic /\ ~ReplyFlush
      BY <2>0 DEF ClaimZero, ClaimClear, ClaimDisable, HandleOverflow, HandleMessage,
             ReplyData, ReplySeq, ReplyMagic, ReplyFlush
    <3>3. QED
      BY <3>1, <3>2 DEF IsrNext
  <2>2. Served'
    BY <1>3, <2>1 DEF Served, ClaimNone
  <2>3. QED
    BY <1>0, <1>1, <1>2, <2>2 DEF TurnInv
<1>4. CASE Underway
  <2>1. SUFFICES Underway' \/ Served'
    BY <1>0, <1>1, <1>2 DEF TurnInv
  <2> USE DEF Underway
  <2>2. CASE IsrEnter
    BY <1>4, <2>2 DEF IsrEnter
  <2>3. CASE ClaimNone
    BY <1>4, <2>3 DEF ClaimNone
  <2>4. CASE ClaimRead
    BY <1>4, <2>4 DEF ClaimRead
  <2>5. CASE ClaimZero
    BY <1>4, <2>5 DEF ClaimZero
  <2>6. CASE ClaimClear
    BY <1>4, <2>6 DEF ClaimClear
  <2>7. CASE ClaimDisable
    BY <1>4, <2>7 DEF ClaimDisable
  <2>8. CASE HandleOverflow
    <3>1. drain = 0 /\ drain + 1 > DRAIN_LIMIT
      BY <1>4, <2>8 DEF HandleOverflow
    <3>2. QED
      BY <3>1, MailboxAssumption, CommTestAssumption
  <2>9. CASE HandleMessage
    <3>1. /\ ist = "handle" /\ ist' = "reply_data"
          /\ UNCHANGED <<pend, payload, en, msg, answered, bpc, sent>>
      BY <2>9 DEF HandleMessage
    <3>2. QED
      BY <1>4, <3>1
  <2>10. CASE ReplyData \/ ReplySeq \/ ReplyMagic
    <3>1. /\ ist \in {"reply_data", "reply_seq", "reply_magic"}
          /\ ist' \in {"reply_seq", "reply_magic", "reply_flush"}
          /\ UNCHANGED <<pend, payload, en, msg, answered, bpc, sent>>
      BY <2>10 DEF ReplyData, ReplySeq, ReplyMagic
    <3>2. QED
      BY <1>4, <3>1
  <2>11. CASE ReplyFlush
    <3>1. bpc = "idle" /\ pend = 0 /\ msg = sent /\ answered.n + 1 = sent.id
      BY <1>4, <2>11 DEF ReplyFlush
    <3>2. QED
      BY <2>11, <3>1 DEF ReplyFlush, Served
  <2>12. QED
    BY <2>2, <2>3, <2>4, <2>5, <2>6, <2>7, <2>8, <2>9, <2>10, <2>11 DEF IsrNext
<1>5. QED
  BY <1>1, <1>2, <1>3, <1>4

LEMMA BigTakesTurn ==
    ASSUME TypeOK, TurnInv, BigFinish \/ BigBell \/ Evict, UNCHANGED toolVars
    PROVE  TurnInv'
<1>1. CASE BigFinish
  <2>0. UNCHANGED <<job, tpc, fail, prompt, ist, sent, payload, answered, msg, drain>> /\ bpc # "idle"
    BY <1>1 DEF BigFinish, BigEnable, BigRing, toolVars
  <2>1. ASSUME Underway PROVE Underway'
    <3>1. CASE BigEnable
      BY <2>1, <3>1 DEF Underway, BigEnable
    <3>2. CASE BigRing
      BY <2>1, <3>2 DEF Underway, BigRing
    <3>3. QED
      BY <1>1, <3>1, <3>2 DEF BigFinish
  <2>2. ~Served
    BY <2>0 DEF Served
  <2>3. QED
    BY <2>0, <2>1, <2>2 DEF TurnInv
<1>2. CASE BigBell \/ Evict
  <2>1. UNCHANGED <<job, bpc, pend, en, ist, payload, sent, answered, msg, drain>>
    BY <1>2 DEF BigBell, Evict
  <2>2. QED
    BY <2>1 DEF TurnInv, Underway, Served, toolVars
<1>3. QED
  BY <1>1, <1>2

LEMMA ToolTakesTurn ==
    ASSUME TypeOK, ToolTypes, TurnInv, ReplyInv, RepliesRead, ToolNext
    PROVE  TurnInv'
<1>1. CASE ToolFirst \/ ToolPoll \/ ToolSkip
  <2>1. /\ UNCHANGED <<job, bpc, pend, en, ist, payload, sent, answered, msg, drain, fail, prompt>>
        /\ tpc # "sleep" /\ tpc' # "sleep"
    BY <1>1 DEF ToolFirst, ToolPoll, ToolSkip, vars
  <2>2. QED
    BY <2>1 DEF TurnInv, Served
<1>2. CASE ToolSend
  <2>1. /\ tpc # "sleep" /\ UNCHANGED <<job, pend, en, ist, answered, msg, drain, fail, prompt>>
        /\ bpc' = "en" /\ payload' = sent' /\ sent'.id = sent.id + 1 /\ tpc' = "sleep"
    BY <1>2 DEF ToolSend, BigSend
  <2>2. Served /\ ist = "off" => Underway'
    BY <2>1 DEF Served, Underway
  <2>3. QED
    BY <2>1, <2>2 DEF TurnInv
<1>3. CASE ToolCheck
  <2>1. UNCHANGED <<job, bpc, pend, en, ist, payload, sent, answered, msg, drain, prompt>>
    BY <1>3 DEF ToolCheck, vars
  <2>2. tpc = "sleep" /\ tpc' = "poll"
    BY <1>3 DEF ToolCheck
  <2>3. ASSUME prompt, job \notin {"panic", "dead"} PROVE Served /\ ist = "off" /\ fail' = 0
    <3>1. pend = 0 /\ ist = "off" /\ bpc = "idle"
      BY <1>3, <2>3 DEF ToolCheck
    <3>2. Served /\ fail = 0
      BY <2>2, <2>3, <3>1 DEF TurnInv, Underway
    <3>3. answered.n = sent.id /\ answered.id = sent.id /\ sent.id \in Nat /\ sent.id > 0
      BY <2>2, <3>2 DEF Served, RepliesRead, TypeOK, Msg
    <3>4. job # "boot"
      BY <3>3 DEF ReplyInv
    <3>5. dram["reply_data"] = sent.id /\ dram["reply_seq"] = sent.id
      BY <2>3, <3>1, <3>3, <3>4 DEF ReplyInv
    <3>6. ReplyMatches(dram)
      BY <3>3, <3>5 DEF ReplyMatches
    <3>7. QED
      BY <1>3, <3>1, <3>2, <3>6 DEF ToolCheck
  <2>4. QED
    <3>1. Served => Served'
      BY <2>1 DEF Served
    <3>2. QED
      BY <2>1, <2>2, <2>3, <3>1 DEF TurnInv
<1>4. QED
  BY <1>1, <1>2, <1>3 DEF ToolNext

\* When every sleep of the tool outlasts the handler, no round trip over a core
\* that has not panicked is reported as failed: the replies come one at a time,
\* numbered like the messages, and no notification, flush or write-back in
\* between disturbs them.
THEOREM NoAlarmIsFalse == ToolSpec => []NoFalseAlarm
<1>1. ToolInit => TurnInv /\ RepliesRead /\ ReplyInv
  <2>1. ToolInit => RepliesRead /\ ReplyInv
    BY DEF ToolInit, Init, RepliesRead, ReplyInv, NoMsg, Words
  <2>2. ToolInit => TurnInv
    BY DEF ToolInit, Init, TurnInv, Served, NoMsg
  <2>3. QED
    BY <2>1, <2>2
<1>2. TypeOK /\ ToolTypes /\ TurnInv /\ ReplyInv /\ RepliesRead /\ [ToolNext \/ LinkNext]_allVars
        => TurnInv'
  <2> SUFFICES ASSUME TypeOK, ToolTypes, TurnInv, ReplyInv, RepliesRead,
                      [ToolNext \/ LinkNext]_allVars
               PROVE  TurnInv'
    OBVIOUS
  <2>1. CASE LinkNext
    BY <2>1, MainLeavesTurn, IsrServes, BigTakesTurn DEF LinkNext
  <2>2. CASE UNCHANGED allVars
    BY <2>2 DEF allVars, vars, toolVars, TurnInv, Underway, Served
  <2>3. QED
    BY <2>1, <2>2, ToolTakesTurn
<1>3. TypeOK /\ ReplyInv /\ [ToolNext \/ LinkNext]_allVars => ReplyInv'
  BY ReplyStep, ToolSteps
<1>4. TurnInv => NoFalseAlarm
  BY DEF TurnInv, NoFalseAlarm
<1>5. QED
  BY <1>1, <1>2, <1>3, <1>4, RepliesReadStep, ToolTypeCorrect, PTL DEF ToolSpec

=============================================================================
