------------------------------ MODULE ChatView ------------------------------
(***************************************************************************)
(* The messages a page of the browser client shows (frontend/script.js):   *)
(* temporary ones of onSend, frames of the socket, and the history that    *)
(* openConversation fetches and puts in their place.  The server saves a   *)
(* post and publishes it (main.go), in the steps of Conversations; that    *)
(* frames are lost, doubled or overtake each other is what Hub allows;     *)
(* which conversation wsConn is for, at any moment, is ChatLink's and any  *)
(* here.                                                                   *)
(*                                                                         *)
(* Bounds: a post is sent once, MaxPosts of all there might be; MaxWire    *)
(* bounds the frames on the way; their number in all, copies included, is  *)
(* not bounded.  Definitions marked "Mutant" are no part of the model:     *)
(* each is a variant of the definition after it with a bug seeded for one  *)
(* property.                                                               *)
(***************************************************************************)
EXTENDS Naturals, Sequences, FiniteSets, SequencesExt

CONSTANTS
    Convs, None,
    Mine, Others,   \* posts of the page's user and of others
    Body,           \* Body[p]: the text of post p
    Limit,          \* how many messages a history holds (50)
    MaxPosts, MaxWire   \* bounds of the model

Posts == Mine \cup Others

ASSUME ChatViewAssumption ==
    /\ None \notin Convs /\ Mine \cap Others = {}
    /\ Posts \subseteq DOMAIN Body
    /\ Limit \in Nat \ {0} /\ {MaxPosts, MaxWire} \subseteq Nat

VARIABLES
    active,     \* state.active
    list,       \* list[c]: state.messages[c]
    fetch,      \* the history asked for: conversation, and how many rows its SELECT found
    sock,       \* the conversation whose frames wsConn gets
    wire,       \* frames written to wsConn and not yet heard
    stage,      \* stage[p]: what became of post p
    into,       \* into[p]: its conversation
    failed,     \* own posts whose failure the page was told
    stuck,      \* history: those whose failure found no temporary message to remove
    saved,      \* saved[c]: the messages of a conversation, in the order of created_at
    overlap,    \* history: <<m, n>>: m was on its way when n was saved, or overtaken by n
    gone        \* history: posts the page may miss, as a frame passed it by, or a
                \* history or another message's frame took them from the list

page == <<active, list, fetch, failed, stuck>>
socket == <<sock, wire>>
server == <<stage, into, saved, overlap>>
vars == <<page, socket, server, gone>>

Item(m, temp) == [msg |-> m, temp |-> temp]
Real(c) == {m \in Posts : Item(m, FALSE) \in ToSet(list[c])}
Before(s, d, e) == \E i, j \in DOMAIN s : i < j /\ s[i] = d /\ s[j] = e
Own(c, text) == {p \in Mine : into[p] = c /\ Body[p] = text}
Temps(c) == {m \in Posts : Item(m, TRUE) \in ToSet(list[c])}

TypeOK ==
    /\ active \in Convs \cup {None}
    /\ list \in [Convs -> Seq([msg : Posts, temp : BOOLEAN])]
    /\ fetch \in {None} \cup [conv : Convs, saw : Nat \cup {None}]
    /\ fetch # None /\ fetch.saw # None => fetch.saw <= Len(saved[fetch.conv])
    /\ sock \in Convs \cup {None}
    /\ wire \in Seq(Posts) /\ \A m \in ToSet(wire) : into[m] = sock
    /\ stage \in [Posts -> {"new", "sent", "saved", "published"}]
    /\ into \in [Posts -> Convs \cup {None}]
    /\ stuck \subseteq failed /\ failed \subseteq Mine
    /\ saved \in [Convs -> Seq(Posts)]
    /\ overlap \subseteq Posts \X Posts
    /\ gone \subseteq Posts

Init ==
    /\ active = None /\ list = [c \in Convs |-> <<>>] /\ fetch = None
    /\ sock = None /\ wire = <<>>
    /\ stage = [p \in Posts |-> "new"] /\ into = [p \in Posts |-> None] /\ failed = {} /\ stuck = {}
    /\ saved = [c \in Convs |-> <<>>] /\ overlap = {} /\ gone = {}

-----------------------------------------------------------------------------
(* Opening a conversation.                                                 *)

\* openConversation: an earlier fetch is aborted.  What is listed stays.
Click(c) ==
    /\ active' = c
    /\ fetch' = [conv |-> c, saw |-> None]
    /\ UNCHANGED <<list, failed, stuck, socket, server, gone>>

\* The SELECT of GetMessagesForConversation.
Select ==
    /\ fetch # None /\ fetch.saw = None
    /\ fetch' = [fetch EXCEPT !.saw = Len(saved[fetch.conv])]
    /\ UNCHANGED <<active, list, failed, stuck, socket, server, gone>>

\* Its result: the newest, oldest first, of the n rows there were.
History(c, n) == SubSeq(saved[c], IF n > Limit THEN n - Limit + 1 ELSE 1, n)

\* What a list stands for, and what it should hold once the history is there.
InView(c) == Real(c) \cup {p \in Mine : into[p] = c}
Newest(c, n) == {saved[c][k] : k \in {i \in 1..n : i + Limit > n}}

\* The rest of openConversation; if the conversation is no longer active, or
\* the request failed, the list stays.
HistoryArrives ==
    /\ fetch # None
    /\ fetch' = None
    /\ \/ LET c == fetch.conv
              rows == History(c, fetch.saw)
          IN  /\ fetch.saw # None /\ active = c
              /\ list' = [list EXCEPT ![c] = [i \in DOMAIN rows |-> Item(rows[i], FALSE)]]
              /\ gone' = (gone \cup InView(c) \cup ToSet(saved[c])) \ Newest(c, fetch.saw)
       \/ UNCHANGED <<list, gone>>
    /\ UNCHANGED <<active, failed, stuck, socket, server>>

\* logout and handleLoggedOut forget every list, and close the socket.
Leave ==
    /\ active' = None
    /\ list' = [c \in Convs |-> <<>>]
    /\ sock' = None /\ wire' = <<>>
    /\ gone' = gone \cup ToSet(wire) \cup UNION {InView(c) : c \in Convs}
    /\ UNCHANGED <<fetch, failed, stuck, server>>

\* Mutant: the message handler does not ask whether its socket is still wsConn.
ConnectKeepsFrames ==
    /\ sock' \in Convs \cup {None}
    /\ UNCHANGED <<page, wire, server, gone>>

\* The hub registers a new wsConn, or wsConn is lost.  Frames of the old one
\* are no longer heard.
Connect ==
    /\ sock' \in Convs \cup {None}
    /\ wire' = <<>>
    /\ gone' = gone \cup ToSet(wire)
    /\ UNCHANGED <<page, server>>

-----------------------------------------------------------------------------
(* Sending.                                                                *)

MayPost == Cardinality({p \in Posts : stage[p] # "new"}) < MaxPosts

\* onSend up to its await.
Send(p) ==
    /\ active # None /\ stage[p] = "new" /\ MayPost
    /\ stage' = [stage EXCEPT ![p] = "sent"]
    /\ into' = [into EXCEPT ![p] = active]
    /\ list' = [list EXCEPT ![active] = Append(@, Item(p, TRUE))]
    /\ UNCHANGED <<active, fetch, failed, stuck, socket, saved, overlap, gone>>

\* The answer is an error, or is lost whatever the server did: the temporary
\* message goes if its conversation is still active.  The code filters by its
\* id, which one message at most has (NoMessageTwice).
SendFailed(p) ==
    /\ stage[p] # "new" /\ p \notin failed
    /\ failed' = failed \cup {p}
    /\ stuck' = IF active # None /\ Item(p, TRUE) \in ToSet(list[active]) THEN stuck ELSE stuck \cup {p}
    /\ list' = IF active = None THEN list
               ELSE [list EXCEPT ![active] = RemoveFirst(@, Item(p, TRUE))]
    /\ UNCHANGED <<active, fetch, socket, server, gone>>

\* SaveMessage of an own post, or of somebody else's.
Save(p, c) ==
    /\ \/ stage[p] = "sent" /\ into[p] = c
       \/ stage[p] = "new" /\ p \in Others /\ MayPost
    /\ stage' = [stage EXCEPT ![p] = "saved"]
    /\ into' = [into EXCEPT ![p] = c]
    /\ saved' = [saved EXCEPT ![c] = Append(@, p)]
    /\ overlap' = overlap \cup {<<m, p>> : m \in {q \in Posts : stage[q] = "saved" /\ into[q] = c}}
    /\ UNCHANGED <<page, socket, gone>>

\* PublishMessage ends: the frame comes after those before it, or is lost, or is
\* its local fallback's, which may go past what the relay still holds.
Publish(p) ==
    /\ stage[p] = "saved"
    /\ stage' = [stage EXCEPT ![p] = "published"]
    /\ \/ /\ sock = into[p] /\ Len(wire) < MaxWire
          /\ \E i \in 1..Len(wire) + 1 :
                /\ wire' = InsertAt(wire, i, p)
                /\ overlap' = overlap \cup {<<wire[j], p>> : j \in i..Len(wire)}
          /\ UNCHANGED gone
       \/ wire' = wire /\ gone' = gone \cup {p} /\ UNCHANGED overlap
    /\ UNCHANGED <<page, sock, into, saved>>

\* A command for it that is executed and then repeated, by go-redis or by
\* PublishMessage itself: one more frame.  How many there may be is left open.
Stray(p) ==
    /\ stage[p] = "saved" /\ sock = into[p] /\ Len(wire) < MaxWire
    /\ wire' = Append(wire, p)
    /\ UNCHANGED <<page, sock, server, gone>>

-----------------------------------------------------------------------------
(* A frame.                                                                *)

\* Mutant: the text alone decides.
EchoOfText(m, i) == i.temp /\ Body[i.msg] = Body[m]

\* Mutant: the author alone decides.
EchoOfAuthor(m, i) == i.temp /\ m \in Mine

\* Temporary message i may be what the frame m confirms: author and text.
EchoOf(m, i) == i.temp /\ m \in Mine /\ Body[i.msg] = Body[m]

\* Mutant: frames are not compared with what is there.
ListWithTwice(s, m) ==
    LET t == SelectInSeq(s, LAMBDA i : EchoOf(m, i))
        kept == IF t = 0 THEN s ELSE RemoveAt(s, t)
    IN Append(kept, Item(m, FALSE))

\* Mutant: a frame is put where the list begins.
ListWithFront(s, m) ==
    LET t == SelectInSeq(s, LAMBDA i : EchoOf(m, i))
        kept == IF t = 0 THEN s ELSE RemoveAt(s, t)
    IN IF Item(m, FALSE) \in ToSet(kept) THEN kept ELSE <<Item(m, FALSE)>> \o kept

\* The first such message goes, and the frame is added unless it is there.
ListWith(s, m) ==
    LET t == SelectInSeq(s, LAMBDA i : EchoOf(m, i))
        kept == IF t = 0 THEN s ELSE RemoveAt(s, t)
    IN IF Item(m, FALSE) \in ToSet(kept) THEN kept ELSE Append(kept, Item(m, FALSE))

\* Mutant: a frame is kept only for the conversation that is active.
HearActive ==
    /\ wire # <<>>
    /\ wire' = Tail(wire)
    /\ list' = IF active = into[Head(wire)]
               THEN [list EXCEPT ![into[Head(wire)]] = ListWith(@, Head(wire))] ELSE list
    /\ UNCHANGED <<active, fetch, failed, stuck, sock, server, gone>>

\* The message handler of wsConnect.
Hear ==
    /\ wire # <<>>
    /\ LET m == Head(wire)
           c == into[m]
       IN  /\ list' = [list EXCEPT ![c] = ListWith(@, m)]
           /\ gone' = IF m \in Mine \cap Real(c) THEN gone \cup (Own(c, Body[m]) \ Real(c)) ELSE gone
    /\ wire' = Tail(wire)
    /\ UNCHANGED <<active, fetch, failed, stuck, sock, server>>

Next ==
    \/ \E c \in Convs : Click(c)
    \/ Select \/ HistoryArrives \/ Leave \/ Connect \/ Hear
    \/ \E p \in Mine : Send(p) \/ SendFailed(p)
    \/ \E p \in Posts, c \in Convs : Save(p, c)
    \/ \E p \in Posts : Publish(p) \/ Stray(p)

Spec == Init /\ [][Next]_vars

-----------------------------------------------------------------------------
(* Properties.                                                             *)

Shown(c, text) == Cardinality(Own(c, text) \cap Real(c)) + Cardinality(Own(c, text) \cap Temps(c))

\* A list holds a message at most once, whatever came twice or both in the
\* history and by the socket, and only saved ones of its own conversation
\* (script.js:449, 743-761).
NoMessageTwice ==
    \A c \in Convs :
        /\ \A i, j \in DOMAIN list[c] : list[c][i] = list[c][j] => i = j
        /\ \A m \in Real(c) : into[m] = c /\ m \in ToSet(saved[c])

\* Every temporary message left stands for one with its text that is still
\* under way, that never reached the list, or that failed while there was nothing
\* of it to remove from the active conversation: the user does not see a text
\* both as sent, or failed, and as pending without one of these
\* (script.js:539, 555-567, 746-753).
TempsAccounted ==
    \A c \in Convs, p \in Mine :
        Cardinality(Own(c, Body[p]) \cap Temps(c))
            <= Cardinality({q \in Own(c, Body[p]) :
                   \/ stage[q] = "sent" /\ q \notin failed
                   \/ stage[q] = "saved"
                   \/ q \in ToSet(wire) \cup stuck \cup gone})

\* What the user sent stays in view, pending or confirmed, until it fails or a
\* history without it replaces the list; only the frame of a message that is
\* listed already, by its history or by the same frame before, may take another
\* pending one with its text along (script.js:449, 539, 746-761).
SentStaysShown ==
    \A c \in Convs, p \in Mine :
        Shown(c, Body[p]) >= Cardinality(Own(c, Body[p]) \ (failed \cup gone))

\* A published message is missing from its list only if its frame passed the
\* page by, or a history took it, since the last history that had to hold it:
\* everything committed before its SELECT, up to the newest Limit
\* (script.js:443-470, repo.go:108-137).
MissingOnlyInGap ==
    \A m \in Posts : stage[m] = "published" =>
        m \in Real(into[m]) \cup ToSet(wire) \cup gone

\* Two messages are shown against the order they were saved in only if their
\* posts overlapped, one overtook the other on the way, or the older had been
\* too old for the history (main.go:386-403, repo.go:113-123, script.js:761).
OrderOnlyByOverlap ==
    \A c \in Convs, m, n \in Posts :
        Before(saved[c], m, n) /\ Before(list[c], Item(n, FALSE), Item(m, FALSE)) =>
            <<m, n>> \in overlap \/ m \in gone
=============================================================================
