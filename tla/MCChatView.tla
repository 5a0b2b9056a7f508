----------------------------- MODULE MCChatView -----------------------------
(***************************************************************************)
(* Instance of ChatView for TLC: two messages of the user with one text, a *)
(* third with another, and one of somebody else with the same text.        *)
(***************************************************************************)
EXTENDS ChatView, TLC

CONSTANTS a, b, x, y, z, o, hi, bye

MCBody == (x :> hi) @@ (y :> hi) @@ (z :> bye) @@ (o :> hi)
MCSymmetry == Permutations({x, y}) \cup Permutations({a, b})
=============================================================================
