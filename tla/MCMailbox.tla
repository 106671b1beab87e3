----------------------------- MODULE MCMailbox ------------------------------
(* Instances of Mailbox for TLC. *)
EXTENDS Mailbox

EchoKind == {"echo"}

PauseKinds == {"echo", "pause", "resume", "other"}
=============================================================================
