------------------------------ MODULE CommTest ------------------------------
(***************************************************************************)
(* tools/b2s-comm-test, the program on the big core that tests the link,    *)
(* composed with the mailboxes of module Mailbox.  It reads the 32-byte     *)
(* mailbox as one snapshot, waits for a first frame, then alternates        *)
(* between checking frame metadata and sending a message whose reply it     *)
(* looks for after a fixed sleep.                                           *)
(***************************************************************************)
EXTENDS Mailbox

\* The tool's messages are of a kind the handler only echoes; the handler takes
\* at least one message; a frame count never reaches the panic marker's.
ASSUME CommTestAssumption ==
    /\ "echo" \in Kinds
    /\ DRAIN_LIMIT > 0
    /\ MaxFrames < PANIC_FC

VARIABLES
    tpc,       \* "first", "poll", "send", "sleep", "exit"
    geometry,  \* width and height each frame is announced with, fixed at the start
    dims,      \* width and height of the first record, "none" for 0 x 0
    last_fc,   \* newest frame count seen
    s2b_errors, \* records whose metadata were wrong
    ok,        \* round trips counted as successful
    fail,      \* round trips counted as failed
    prompt     \* the 200 ms between send and check outlast the ISR

toolVars == <<tpc, geometry, dims, last_fc, s2b_errors, ok, fail, prompt>>
allVars  == <<vars, toolVars>>

\* The tool takes this value of the magic word for a panic.
PANIC_MAGIC == 2

\* 640 x 480, as main.rs announces a frame it could not decode, or what the
\* header of a decoded frame says.
Geometries == {"preferred", "other"}

\* The fields of a flags word; the word of notification n is written as n.
decode_dims(flags) == IF flags = 0 THEN "none" ELSE geometry[flags]

ToolInit ==
    /\ Init
    /\ geometry \in [1..MaxFrames -> Geometries]
    /\ tpc = "first" /\ dims = "none" /\ last_fc = 0 /\ s2b_errors = 0 /\ ok = 0 /\ fail = 0
    /\ prompt \in BOOLEAN

\* Wait for the first frame; leave if the magic is wrong or marks a panic.
ToolFirst ==
    /\ tpc = "first"
    /\ LET accept == dram["magic"] = 1 /\ dram["frame_count"] > 0
           give_up == dram["magic"] = PANIC_MAGIC \/ dram["magic"] # 1
       IN  /\ accept \/ give_up
           /\ tpc' = IF accept THEN "poll" ELSE "exit"
           /\ last_fc' = IF accept THEN dram["frame_count"] ELSE last_fc
           /\ dims' = IF accept THEN decode_dims(dram["flags"]) ELSE dims
    /\ UNCHANGED <<vars, geometry, s2b_errors, ok, fail, prompt>>

\* The record of a new frame is taken for wrong when its size is 0 or its
\* geometry is not the first one's.  (A size above the slot does not occur: the
\* JPEG buffer is smaller than the slot, the size of a decoded frame is cut.)
WrongRecord == dram["yuv_size"] = 0 \/ decode_dims(dram["flags"]) # dims

\* Small-to-big check of one snapshot.
ToolPoll ==
    /\ tpc = "poll"
    /\ LET fc == dram["frame_count"]
           valid == dram["magic"] = 1
       IN  /\ last_fc' = IF valid /\ fc > last_fc THEN fc ELSE last_fc
           /\ s2b_errors' = IF valid /\ (fc < last_fc \/ (fc > last_fc /\ WrongRecord))
                            THEN s2b_errors + 1 ELSE s2b_errors
    /\ tpc' = "send"
    /\ UNCHANGED <<vars, geometry, dims, ok, fail, prompt>>

\* The send interval has not elapsed ...
ToolSkip ==
    /\ tpc = "send"
    /\ tpc' = "poll"
    /\ UNCHANGED <<vars, geometry, dims, last_fc, s2b_errors, ok, fail, prompt>>

\* ... or it has: write() hands the next message to the driver.
ToolSend ==
    /\ tpc = "send"
    /\ BigSend("echo")
    /\ tpc' = "sleep"
    /\ UNCHANGED <<geometry, dims, last_fc, s2b_errors, ok, fail, prompt>>

\* Mutant: b2s_sent is advanced only after the check, and the echoed data is
\* not compared.
ReplyMatchesLoosely(mb) == mb["reply_seq"] >= sent.id - 1

ReplyMatches(mb) == mb["reply_data"] = sent.id /\ mb["reply_seq"] >= sent.id

\* After the sleep: did the reply arrive?
ToolCheck ==
    /\ tpc = "sleep"
    /\ bpc = "idle"
    /\ prompt => (pend = 0 /\ ist = "off")
    /\ ok' = IF ReplyMatches(dram) THEN ok + 1 ELSE ok
    /\ fail' = IF ReplyMatches(dram) THEN fail ELSE fail + 1
    /\ tpc' = "poll"
    /\ UNCHANGED <<vars, geometry, dims, last_fc, s2b_errors, prompt>>

ToolNext == ToolFirst \/ ToolPoll \/ ToolSkip \/ ToolSend \/ ToolCheck

LinkNext ==
    /\ MainNext \/ IsrNext \/ BigFinish \/ BigBell \/ Evict
    /\ UNCHANGED toolVars

ToolSpec == ToolInit /\ [][ToolNext \/ LinkNext]_allVars

-----------------------------------------------------------------------------
(* Properties *)

\* The frame count never goes back under the tool's eyes, not even over a panic
\* (tool main.rs:207-209 counts that as an error of the link).
FrameCountNeverBack == dram["magic"] = 1 => dram["frame_count"] >= last_fc

\* Every frame is announced with the same width and height.
OneGeometry == \A m, n \in 1..MaxFrames : geometry[m] = geometry[n]

\* If the camera keeps its geometry and the first record the tool read was not
\* half-written, then an error of the metadata (tool main.rs:193-199, 207-209)
\* means that the small core has panicked, and the panic counts once: no
\* half-written record in the cache or in DRAM is taken for a wrong one.
MetadataErrorsMeanPanic ==
    (OneGeometry /\ dims # "none") =>
        s2b_errors <= (IF last_fc = PANIC_FC THEN 1 ELSE 0)

\* A round trip is counted as successful only if the small core's ISR has
\* really read that message.
RoundTripSound == [][ok' > ok => sent.id \in seen]_allVars

\* With the sleep long enough, every message sent to a core that has not
\* panicked is found answered: no write-back of a half-written mailbox makes
\* the tool report a failure (tool main.rs, the check after the 200 ms).
NoFalseAlarm == (prompt /\ job \notin {"panic", "dead"}) => fail = 0

\* "magic=0xFFFFFFFF: the small core has panicked" (tool main.rs:148-151): the
\* tool recognises the marker the panic handler leaves and does not take it
\* for a frame.
PanicNotTakenForFrame == last_fc # PANIC_FC
=============================================================================
