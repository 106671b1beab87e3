------------------------------ MODULE B2sSlot -------------------------------
(***************************************************************************)
(* What the big-to-small direction of the hardware mailbox promises to a    *)
(* sender that waits for the consumption acknowledgement: a one-message     *)
(* slot.  A message is put into a free slot, handed to the small core       *)
(* exactly once, and only then is the slot free again.                      *)
(***************************************************************************)
CONSTANT Msg    \* the messages, the empty payload included

VARIABLES
    phase,      \* "free", "full" (sent, not read yet), "taken" (read, not acknowledged)
    item,       \* the message sent last
    got         \* the message the small core read last

slotVars == <<phase, item, got>>

Init ==
    /\ phase = "free"
    /\ item \in Msg
    /\ got = item

Send ==
    /\ phase = "free"
    /\ phase' = "full"
    /\ item' \in Msg
    /\ UNCHANGED got

Take ==
    /\ phase = "full"
    /\ phase' = "taken"
    /\ got' = item
    /\ UNCHANGED item

Ack ==
    /\ phase = "taken"
    /\ phase' = "free"
    /\ UNCHANGED <<item, got>>

Next == Send \/ Take \/ Ack

Spec == Init /\ [][Next]_slotVars
=============================================================================
