------------------------------ MODULE MCOutbox ------------------------------
(* Small instances of Outbox for TLC. *)
EXTENDS Outbox, TLC
CONSTANTS web, console

BothProcs == {web, console}

=============================================================================
