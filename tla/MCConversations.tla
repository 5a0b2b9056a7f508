-------------------------- MODULE MCConversations --------------------------
(***************************************************************************)
(* Instances of Conversations for TLC.                                     *)
(***************************************************************************)
EXTENDS Conversations, TLC

CONSTANTS u1, u2, u3, ghost, r1, r2, p1, p2

\* Both users may ask for their direct conversation, the later as a retry; u3
\* posts into a conversation it may be named in, u1 into its own.
Sender == (r1 :> u1) @@ (r2 :> u2) @@ (p1 :> u1) @@ (p2 :> u3)
MCBy == [q \in Requests |-> Sender[q]]
MCInto == [p \in Posts |-> r1]

Body(g, names) == [group |-> g, named |-> names]

\* The peer, oneself, a group with a name twice and uuid.Nil, one with a user
\* who does not exist, and nobody.
PairBodies == {Body(FALSE, <<u1>>), Body(FALSE, <<u2>>)}
MCBodies == PairBodies \cup
    {Body(TRUE, <<u2, u3, u2>>), Body(TRUE, <<Nil, u2>>), Body(TRUE, <<ghost>>),
     Body(FALSE, <<u2, u3>>), Body(FALSE, <<>>)}

\* Fewer kinds, for liveness.
PoolBodies == {Body(FALSE, <<u1>>), Body(FALSE, <<u2>>), Body(TRUE, <<u2, Nil, u2>>)}
=============================================================================
