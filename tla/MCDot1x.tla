------------------------------- MODULE MCDot1x -------------------------------
(* Instance of Dot1x for TLC. *)
EXTENDS Dot1x
=============================================================================
