-------------------------- MODULE MCMovementWorkspace --------------------------
(* A unit of two models for TLC. *)
EXTENDS MovementWorkspace

MCMover == [id |-> "u", models |-> <<"a", "b">>]
=============================================================================
