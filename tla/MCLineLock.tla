----------------------------- MODULE MCLineLock -----------------------------
(* Instances of LineLock for TLC. *)
EXTENDS LineLock

MCTurns == {0, 1, 2}

\* A fault only; the handlers that use the try lock; all of them.
MCTrapSets == {{"fault"}, {"echo", "fault"}, {"echo", "overflow", "fault"}}

EchoOnly == {{"echo"}}

OverflowOnly == {{"overflow"}}
=============================================================================
