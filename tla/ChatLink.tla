------------------------------ MODULE ChatLink ------------------------------
(***************************************************************************)
(* How a page of the browser client (frontend/script.js) keeps one live    *)
(* socket, to the conversation it shows: opening a conversation, the       *)
(* debounced wsConnect, its membership check, the socket's events, the     *)
(* reconnect timer, log-in and log-out.  JavaScript runs one callback at a *)
(* time; each action is one, up to the await or the end it reaches.        *)
(*                                                                         *)
(* Bounds: Slots names the calls of wsConnect under way and the sockets    *)
(* they made; Overlaps bounds the calls that overlap, counted with the     *)
(* sockets earlier overlaps left over.  `calm` is the moment from which    *)
(* the user and the network leave the page alone.  Definitions marked      *)
(* "Mutant" are no part of the model: each is a variant of the definition  *)
(* after it with a bug seeded for one property.                            *)
(***************************************************************************)
EXTENDS Naturals, FiniteSets

CONSTANTS
    Convs,      \* the conversations in the page's list
    None,
    Slots,      \* names of calls of wsConnect, reused (bound of the model)
    Overlaps    \* overlapping calls and leftover sockets (bound of the model)

ASSUME ChatLinkAssumption ==
    None \notin Convs \cup Slots /\ Overlaps \in Nat

VARIABLES
    active,         \* state.active
    fetch,          \* the conversation whose messages are being fetched
    notice,         \* errors the page shows: messages not loaded, no access
    debounce,       \* the conversation wsConnectDebounceTimer is set for
    timer,          \* reconnectTimer is set
    manualClose,
    socks,          \* socks[k]: conversation of call k, state of its check or WebSocket
    wsConn,
    cookie,         \* the browser holds a valid access_token
    crossed,        \* history: the last wsConnect overlapped another
    calm            \* nothing happens from outside any more

view == <<active, fetch, notice>>
retry == <<debounce, timer, manualClose>>
link == <<socks, wsConn>>
vars == <<view, retry, link, cookie, crossed, calm>>

Free == [conv |-> None, st |-> "free"]
Live(k) == socks[k].st \in {"connecting", "open"}
Checking == {k \in Slots : socks[k].st = "checking"}
Leftover == {k \in Slots : Live(k) /\ k # wsConn}

TypeOK ==
    /\ {active, fetch, debounce} \subseteq Convs \cup {None}
    /\ notice \subseteq {"loadError", "forbidden"}
    /\ {timer, manualClose, cookie, calm, crossed} \subseteq BOOLEAN
    /\ socks \in [Slots -> {Free} \cup [conv : Convs, st : {"checking", "connecting", "open", "doomed"}]]
    /\ wsConn # None => wsConn \in Slots /\ socks[wsConn].st \in {"connecting", "open", "doomed"}

\* The page after init() found a session.
Init ==
    /\ active = None /\ fetch = None /\ notice = {}
    /\ debounce = None /\ timer = FALSE /\ manualClose = FALSE
    /\ socks = [k \in Slots |-> Free] /\ wsConn = None
    /\ cookie = TRUE /\ crossed = FALSE /\ calm = FALSE

-----------------------------------------------------------------------------
(* Functions of script.js that callbacks call.                             *)

\* Mutant: wsConn is dropped without close().
Dropped == socks

\* closeWs: wsConn closes; its close event comes later.
Closed == [k \in Slots |-> IF k = wsConn THEN [socks[k] EXCEPT !.st = "doomed"] ELSE socks[k]]

\* scheduleReconnect: back-off delays are not counted, attempts not limited.
ScheduleReconnect == timer' = (timer \/ ~manualClose)

\* wsConnect up to the await of its membership check.
Connect(c, manual) ==
    /\ Checking # {} => Cardinality(Checking \cup Leftover) < Overlaps
    /\ \E k \in Slots : socks[k] = Free
    /\ socks' = [Closed EXCEPT ![CHOOSE k \in Slots : socks[k] = Free] = [conv |-> c, st |-> "checking"]]
    /\ wsConn' = None
    /\ manualClose' = manual
    /\ timer' = FALSE
    /\ notice' = notice \ {"forbidden"}
    /\ crossed' = (Checking # {})

\* Mutant: wsConnect leaves closeWs its default, isManual = true.
WsConnectManual(c) == Connect(c, TRUE)

\* wsConnect clears manualClose.
WsConnect(c) == Connect(c, FALSE)

\* handleLoggedOut, and the end of logout: timers other than the reconnect
\* timer, and requests under way, stay.
LeavePage ==
    /\ active' = None
    /\ notice' = {}
    /\ socks' = Closed /\ wsConn' = None
    /\ manualClose' = TRUE
    /\ timer' = FALSE

-----------------------------------------------------------------------------
(* The user, and time.                                                     *)

\* openConversation up to its await; the fetch before is aborted.
OpenConversation(c) ==
    /\ active' = c
    /\ fetch' = c
    /\ notice' = notice \ {"loadError"}

\* A click on the list, which a late answer of loadConversations fills even on a
\* page that has logged out.
Click(c) ==
    /\ ~calm
    /\ OpenConversation(c)
    /\ UNCHANGED <<retry, link, cookie, crossed, calm>>

\* The answer to /api/logout, or its failure; it may come after the page has
\* left for another reason, or logged in again.  A lost one keeps the cookie.
Logout ==
    /\ ~calm
    /\ cookie' \in {cookie, FALSE}
    /\ LeavePage
    /\ UNCHANGED <<fetch, debounce, crossed, calm>>

\* The answer to a log-in, which may come late like the one to a log-out.  Once
\* the list has come too, a conversation that is open is opened again: at once,
\* or after more of what else happens, as by a Click.
Login ==
    /\ ~calm
    /\ cookie' = TRUE
    /\ \/ UNCHANGED view
       \/ active # None /\ OpenConversation(active)
    /\ UNCHANGED <<retry, link, crossed, calm>>

Expire ==
    /\ ~calm /\ cookie
    /\ cookie' = FALSE
    /\ UNCHANGED <<view, retry, link, crossed, calm>>

Calm ==
    /\ ~calm
    /\ calm' = TRUE
    /\ UNCHANGED <<view, retry, link, cookie, crossed>>

-----------------------------------------------------------------------------
(* Answers of the server.                                                  *)

\* RequireAuth without a valid cookie answers 401.
Unauthorized == ~cookie

\* The messages of the conversation come, perhaps asked for with a cookie that
\* went since.  If it is still active they are shown and the debounce starts anew.
MessagesFetched ==
    /\ fetch # None
    /\ fetch' = None
    /\ debounce' = IF active = fetch THEN fetch ELSE debounce
    /\ UNCHANGED <<active, notice, timer, manualClose, link, cookie, crossed, calm>>

\* 401, an error of the database, or no answer.
FetchFailed ==
    /\ fetch # None
    /\ fetch' = None
    /\ \/ /\ Unauthorized
          /\ LeavePage
          /\ UNCHANGED <<debounce, cookie>>
       \/ /\ ~calm
          /\ notice' = IF active = fetch THEN notice \cup {"loadError"} ELSE notice
          /\ UNCHANGED <<active, retry, link, cookie>>
    /\ UNCHANGED <<crossed, calm>>

\* What ws_check may answer: yes, also to a cookie that went since, no to a
\* user who does not take part, an error.
Verdicts ==
    {"yes"} \cup (IF calm THEN {} ELSE {"no", "error"}) \cup (IF Unauthorized THEN {"error"} ELSE {})

\* Mutant: the page does not try again after a failed check.
CheckErrorIgnored(k) ==
    /\ socks[k].st = "checking" /\ "error" \in Verdicts
    /\ socks' = [socks EXCEPT ![k] = Free]
    /\ UNCHANGED <<view, retry, wsConn, cookie, crossed, calm>>

\* The check fails: 401, 500 or no answer.
CheckError(k) ==
    /\ socks[k].st = "checking" /\ "error" \in Verdicts
    /\ socks' = [socks EXCEPT ![k] = Free]
    /\ ScheduleReconnect
    /\ UNCHANGED <<view, debounce, manualClose, wsConn, cookie, crossed, calm>>

\* 403: the page says so and does not try again.
CheckDenied(k) ==
    /\ socks[k].st = "checking" /\ "no" \in Verdicts
    /\ socks' = [socks EXCEPT ![k] = Free]
    /\ notice' = notice \cup {"forbidden"}
    /\ UNCHANGED <<active, fetch, retry, wsConn, cookie, crossed, calm>>

\* The check succeeds and wsConnect goes on: a new WebSocket, whose handshake
\* is refused without a cookie, takes the place of whatever wsConn was.
CheckPassed(k) ==
    /\ socks[k].st = "checking" /\ "yes" \in Verdicts
    /\ socks' = [socks EXCEPT ![k].st = IF Unauthorized THEN "doomed" ELSE "connecting"]
    /\ wsConn' = k
    /\ UNCHANGED <<view, retry, cookie, crossed, calm>>

-----------------------------------------------------------------------------
(* Events of a socket, and timers.                                         *)

\* The "open" event; only wsConn's clears the timer.
SockOpens(k) ==
    /\ socks[k].st = "connecting"
    /\ socks' = [socks EXCEPT ![k].st = "open"]
    /\ timer' = (timer /\ wsConn # k)
    /\ UNCHANGED <<view, debounce, manualClose, wsConn, cookie, crossed, calm>>

\* The server or the network ends a connection or a handshake.
SockDrops(k) ==
    /\ ~calm /\ Live(k)
    /\ socks' = [socks EXCEPT ![k].st = "doomed"]
    /\ UNCHANGED <<view, retry, wsConn, cookie, crossed, calm>>

\* Mutant: wsConn still names the socket after its end.
SockClosedKept(k) ==
    /\ socks[k].st = "doomed"
    /\ socks' = [socks EXCEPT ![k] = Free]
    /\ timer' = ~manualClose
    /\ UNCHANGED <<view, debounce, manualClose, wsConn, cookie, crossed, calm>>

\* The "close" event, of a socket that wsConnect replaced as of any other.
SockClosed(k) ==
    /\ socks[k].st = "doomed"
    /\ socks' = [socks EXCEPT ![k] = Free]
    /\ wsConn' = IF wsConn = k THEN None ELSE wsConn
    /\ timer' = ~manualClose
    /\ UNCHANGED <<view, debounce, manualClose, cookie, crossed, calm>>

DebounceFires ==
    /\ debounce # None
    /\ debounce' = None
    /\ WsConnect(debounce)
    /\ UNCHANGED <<active, fetch, cookie, calm>>

\* Mutant: the timer connects to a conversation it remembers.
TimerFiresAnyway ==
    /\ timer
    /\ \E c \in Convs : WsConnect(c)
    /\ UNCHANGED <<active, fetch, debounce, cookie, calm>>

\* The callback of scheduleReconnect.
TimerFires ==
    /\ timer
    /\ \/ /\ active # None
          /\ WsConnect(active)
       \/ /\ active = None
          /\ timer' = FALSE
          /\ UNCHANGED <<notice, manualClose, link, crossed>>
    /\ UNCHANGED <<active, fetch, debounce, cookie, calm>>

CheckStep(k) == CheckError(k) \/ CheckDenied(k) \/ CheckPassed(k)
FetchStep == MessagesFetched \/ FetchFailed

Next ==
    \/ \E c \in Convs : Click(c)
    \/ FetchStep
    \/ \E k \in Slots : CheckStep(k) \/ SockOpens(k) \/ SockDrops(k) \/ SockClosed(k)
    \/ DebounceFires \/ TimerFires
    \/ Logout \/ Login \/ Expire \/ Calm

Spec == Init /\ [][Next]_vars

(* Requests are answered or fail, timers fire, closed sockets say so.  A    *)
(* handshake may be overtaken by the reconnect timer, but not for ever: the *)
(* delay doubles with every attempt until a socket opens (script.js:596).   *)
Fairness ==
    /\ WF_vars(FetchStep) /\ WF_vars(DebounceFires) /\ WF_vars(TimerFires)
    /\ \A k \in Slots : WF_vars(CheckStep(k)) /\ SF_vars(SockOpens(k)) /\ WF_vars(SockClosed(k))

FairSpec == Spec /\ Fairness

-----------------------------------------------------------------------------
(* Properties.                                                             *)

\* No request, timer or event is under way.
AtRest ==
    /\ fetch = None /\ debounce = None /\ ~timer
    /\ \A k \in Slots : socks[k].st \in {"free", "open"}

Connected == wsConn # None /\ socks[wsConn] = [conv |-> active, st |-> "open"]

\* The page never gives up silently: whatever failed and in whatever order
\* events came, once it rests with a conversation open it has a socket for that
\* conversation, or shows an error, or the last connects overlapped
\* (script.js:466, 588-782).
NoSilentEnd ==
    AtRest /\ active # None /\ notice = {} /\ ~crossed => Connected

\* A living socket stops being wsConn without being closed, so that its messages
\* are ignored and nobody will close it, only if the last connects overlapped
\* (script.js:617, 649, 772).
OrphansOnlyByOverlap == [][Leftover' \subseteq Leftover \/ crossed]_vars

\* Once user and network leave the page alone, it gets its socket, or shows an
\* error: reconnects do not chase each other for ever before a socket opens
\* (script.js:596-612, 659-663, 771-782).
GetsConnected ==
    calm /\ active # None ~> Connected \/ active = None \/ Unauthorized \/ notice # {} \/ crossed

\* A page that shows no conversation comes to rest: the debounce, checks and
\* close events a log-out leaves behind start no endless retries
\* (script.js:323-333, 607-611).
LogoutSettles == active = None ~> AtRest \/ active # None

\* What the connect at the end of openConversation is for (script.js:465):
\* "connecting the websocket for this active conversation".
ActiveSocket == AtRest /\ active # None /\ notice = {} => Connected
=============================================================================
