----------------------------- MODULE MCSessions -----------------------------
(***************************************************************************)
(* Instances of Sessions for TLC.                                          *)
(***************************************************************************)
EXTENDS Sessions, TLC

CONSTANTS b1, b2, u1, u2, l1, l2, r1, r2, o1

\* Two browsers of two users; the first, which may hold an old cookie of path
\* /api, logs in, refreshes twice and logs out, in any order and overlap.
MCBy == (l1 :> b1) @@ (l2 :> b2) @@ (r1 :> b1) @@ (r2 :> b1) @@ (o1 :> b1)
MCUser == (l1 :> u1) @@ (l2 :> u2)
=============================================================================
