----------------------------- MODULE MCChatLink -----------------------------
(***************************************************************************)
(* Instances of ChatLink for TLC: two conversations to switch between, and *)
(* room for a socket that lives, one that is closing and a wsConnect that  *)
(* waits for its check, or for two that overlap.                           *)
(***************************************************************************)
EXTENDS ChatLink

CONSTANTS a, b, k1, k2, k3

MCConvs == {a, b}
MCSlots == {k1, k2, k3}
=============================================================================
