----------------------------- MODULE MCCommTest -----------------------------
(* Instances of CommTest for TLC. *)
EXTENDS CommTest

EchoKind == {"echo"}
=============================================================================
