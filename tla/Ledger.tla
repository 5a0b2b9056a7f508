------------------------------- MODULE Ledger -------------------------------
(***************************************************************************)
(* What the requests that create conversations and post messages promise,  *)
(* without statements, transactions, goroutines or crashes: a conversation *)
(* is there all at once with everybody asked for, and only then its party  *)
(* hears of it; a message is kept for a member, goes out only when kept;   *)
(* success is answered only for what is there to stay, and what a refused  *)
(* request asked for is never done, before or after the refusal.  A caller *)
(* without an answer knows nothing.  Nothing has to happen.                *)
(***************************************************************************)
CONSTANTS
    Ids, Accounts,  \* users a request may name, and those who exist
    Creates, Posts, \* the requests
    By,             \* By[q]: the user who makes request q
    Into            \* Into[p]: the conversation p posts into

Requests == Creates \cup Posts

VARIABLES
    asked,      \* asked[r]: the party create r asks for
    party,      \* party[r]: who takes part in conversation r; nobody: it is not there
    heard,      \* heard[r]: the users told of conversation r
    kept,       \* the messages every member can read from now on
    sent,       \* the messages handed to the hub
    answer      \* answer[q]: what the caller of q was told

vars == <<asked, party, heard, kept, sent, answer>>

Init ==
    /\ asked \in [Creates -> SUBSET Ids]
    /\ \A r \in Creates : By[r] \in asked[r]
    /\ party = [r \in Creates |-> {}]
    /\ heard = [r \in Creates |-> {}]
    /\ kept = {}
    /\ sent = {}
    /\ answer = [q \in Requests |-> "none"]

Done(q) == q \in kept \/ (q \in Creates /\ party[q] # {})

Answer(q, a) == answer[q] = "none" /\ answer' = [answer EXCEPT ![q] = a]

\* A request is turned down: nothing of it was done.
Refuse(q) ==
    /\ ~Done(q)
    /\ Answer(q, "refused")
    /\ UNCHANGED <<asked, party, heard, kept, sent>>

\* The conversation is there; its creator may never learn.
Create(r) ==
    /\ ~Done(r)
    /\ asked[r] \subseteq Accounts
    /\ party' = [party EXCEPT ![r] = asked[r]]
    /\ Answer(r, "ok") \/ (answer[r] = "none" /\ UNCHANGED answer)
    /\ UNCHANGED <<asked, heard, kept, sent>>

Tell(r, u) ==
    /\ u \in party[r]
    /\ heard' = [heard EXCEPT ![r] = @ \cup {u}]
    /\ UNCHANGED <<asked, party, kept, sent, answer>>

\* The message is there; its author may never learn.
Keep(p) ==
    /\ answer[p] = "none"
    /\ By[p] \in party[Into[p]]
    /\ kept' = kept \cup {p}
    /\ UNCHANGED <<asked, party, heard, sent, answer>>

\* The message goes out and its author has the answer.
Send(p) ==
    /\ p \in kept
    /\ sent' = sent \cup {p}
    /\ Answer(p, "ok")
    /\ UNCHANGED <<asked, party, heard, kept>>

Next ==
    \/ \E q \in Requests : Refuse(q)
    \/ \E r \in Creates : Create(r) \/ (\E u \in Accounts : Tell(r, u))
    \/ \E p \in Posts : Keep(p) \/ Send(p)

Spec == Init /\ [][Next]_vars
=============================================================================
