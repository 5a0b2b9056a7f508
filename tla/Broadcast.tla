----------------------------- MODULE Broadcast -----------------------------
(***************************************************************************)
(* What the realtime hub promises to the rest of the server, without       *)
(* Redis, goroutines or locks: a payload is handed only to sockets that    *)
(* were admitted to a conversation and that the payload is addressed to,   *)
(* and only after some caller asked for it to be published.  Delivery is   *)
(* neither exactly-once nor guaranteed: a payload may be handed over any   *)
(* number of times, to any subset of its audience, in any order.           *)
(***************************************************************************)
EXTENDS Sequences

CONSTANTS
    Clients,            \* websocket connections (one *Client each)
    Payloads,           \* what callers ask the hub to publish
    Audience,           \* Audience[x]: the set of sockets payload x is addressed to
    Admissible          \* the set of sockets whose user takes part in their conversation

VARIABLES
    issued,     \* payloads some caller has asked to publish
    attached,   \* sockets the hub may write to
    inbox       \* inbox[c]: the frames written to c, oldest first

vars == <<issued, attached, inbox>>

TypeOK ==
    /\ issued \subseteq Payloads
    /\ attached \subseteq Clients
    /\ inbox \in [Clients -> Seq(Payloads)]

Init ==
    /\ issued = {}
    /\ attached = {}
    /\ inbox = [c \in Clients |-> <<>>]

\* A handler or a socket reader calls one of the Publish methods.
Issue(x) ==
    /\ issued' = issued \cup {x}
    /\ UNCHANGED <<attached, inbox>>

\* A websocket joins the hub.
Attach(c) ==
    /\ c \in Admissible
    /\ attached' = attached \cup {c}
    /\ UNCHANGED <<issued, inbox>>

\* Sockets leave: one peer went away, or a whole server process died.
Detach(C) ==
    /\ attached' = attached \ C
    /\ UNCHANGED <<issued, inbox>>

\* The hub writes payload x to socket c.
Deliver(x, c) ==
    /\ x \in issued
    /\ c \in attached
    /\ c \in Audience[x]
    /\ inbox' = [inbox EXCEPT ![c] = Append(@, x)]
    /\ UNCHANGED <<issued, attached>>

Next ==
    \/ \E x \in Payloads : Issue(x)
    \/ \E c \in Clients : Attach(c)
    \/ \E C \in SUBSET Clients : Detach(C)
    \/ \E x \in Payloads, c \in Clients : Deliver(x, c)

Spec == Init /\ [][Next]_vars
=============================================================================
