--------------------------- MODULE ChatLinkProofs ---------------------------
(***************************************************************************)
(* Theorems about ChatLink, for every set of conversations, any number of  *)
(* calls and sockets, and every bound on how many overlap.                 *)
(***************************************************************************)
EXTENDS ChatLink, TLAPS

-----------------------------------------------------------------------------
(* The inductive invariant.                                                *)

\* A page fetches for the conversation it shows, or shows none.
FetchInv == active # None /\ fetch # None => fetch = active

\* The conversation shown has its messages.
Loaded == active # None /\ fetch = None /\ "loadError" \notin notice

DebounceInv == Loaded => debounce \in {None, active}

\* Without an overlap one check is under way, and nothing it could replace.
CheckInv ==
    ~crossed => /\ \A j, k \in Checking : j = k
                /\ Checking # {} => wsConn = None

\* Then the last wsConnect was for the conversation shown.
Linked == Loaded /\ debounce = None /\ ~crossed

SockInv == Linked => \A k \in Slots : k \in Checking \/ k = wsConn => socks[k].conv = active

\* What keeps the page going: a timer, a check, or a socket that says when it
\* ends, to a page that will try again.
RetryInv == Linked /\ notice = {} => ~manualClose /\ (timer \/ Checking # {} \/ wsConn # None)

IInv == TypeOK /\ FetchInv /\ DebounceInv /\ CheckInv /\ SockInv /\ RetryInv

-----------------------------------------------------------------------------
(* The functions callbacks call.                                           *)

Socket == {Free} \cup [conv : Convs, st : {"checking", "connecting", "open", "doomed"}]

LEMMA SlotFacts ==
  /\ None \notin Convs /\ None \notin Slots
  /\ \A s \in Socket : s.st = "free" <=> s = Free
  /\ \A s \in Socket : s.st # "free" => s.conv \in Convs
  /\ Free \in Socket /\ Free.st = "free"
  BY ChatLinkAssumption DEF Free, Socket

\* What closeWs leaves.
LEMMA ClosedFacts ==
  ASSUME TypeOK
  PROVE  /\ Closed \in [Slots -> Socket]
         /\ \A k \in Slots : /\ k # wsConn => Closed[k] = socks[k]
                             /\ k = wsConn => Closed[k].st = "doomed"
<1>1. socks \in [Slots -> Socket]
  BY DEF TypeOK, Socket
<1>2. ASSUME NEW k \in Slots, k = wsConn
      PROVE  [socks[k] EXCEPT !.st = "doomed"] \in Socket /\ [socks[k] EXCEPT !.st = "doomed"].st = "doomed"
  <2>1. socks[k] \in [conv : Convs, st : {"checking", "connecting", "open", "doomed"}]
    BY <1>2, SlotFacts DEF TypeOK, Free
  <2> QED BY <2>1 DEF Socket
<1> QED BY <1>1, <1>2 DEF Closed

\* A wsConnect that overlaps no other leaves its own check, and nothing else.
LEMMA ConnectFacts ==
  ASSUME TypeOK, NEW c \in Convs, WsConnect(c)
  PROVE  /\ socks' \in [Slots -> Socket] /\ wsConn' = None /\ manualClose' = FALSE /\ timer' = FALSE
         /\ notice' = notice \ {"forbidden"} /\ crossed' \in BOOLEAN
         /\ Checking' # {}
         /\ ~crossed' => \A j \in Checking' : socks'[j].conv = c /\ \A k \in Checking' : j = k
         /\ Leftover' = Leftover
<1> DEFINE new == CHOOSE k \in Slots : socks[k] = Free
           row == [conv |-> c, st |-> "checking"]
<1>1. new \in Slots /\ socks[new] = Free /\ new # wsConn
  <2>1. \E k \in Slots : socks[k] = Free
    BY DEF WsConnect, Connect
  <2>2. new \in Slots /\ socks[new] = Free
    BY <2>1
  <2> HIDE DEF new
  <2> QED BY <2>2, SlotFacts DEF TypeOK
<1>2. /\ socks' = [Closed EXCEPT ![new] = row]
      /\ wsConn' = None /\ manualClose' = FALSE /\ timer' = FALSE
      /\ notice' = notice \ {"forbidden"} /\ crossed' = (Checking # {})
  BY DEF WsConnect, Connect
<1>3. row \in Socket /\ row.st = "checking" /\ row.conv = c
  BY DEF Socket
<1> HIDE DEF new, row
<1>4. /\ socks' \in [Slots -> Socket] /\ socks'[new] = row
      /\ \A k \in Slots : k # new => socks'[k] = Closed[k]
  BY <1>1, <1>2, <1>3, ClosedFacts
<1>5. new \in Checking' /\ \A k \in Checking' : k # new => k \in Checking
  BY <1>1, <1>3, <1>4, ClosedFacts DEF Checking
<1>6. Leftover' = Leftover
  <2>1. ASSUME NEW k \in Slots
        PROVE  (k \in Leftover)' <=> k \in Leftover
    <3>1. CASE k = new
      BY <1>1, <1>3, <1>4, <3>1 DEF Leftover, Live, Free
    <3>2. CASE k = wsConn
      BY <1>1, <1>4, <3>2, ClosedFacts DEF Leftover, Live
    <3>3. CASE k # new /\ k # wsConn
      <4>1. socks'[k] = socks[k] /\ k # wsConn'
        BY <1>2, <1>4, <3>3, SlotFacts, ClosedFacts
      <4> QED BY <4>1, <3>3 DEF Leftover, Live
    <3> QED BY <3>1, <3>2, <3>3
  <2> QED BY <2>1 DEF Leftover
<1> QED BY <1>2, <1>3, <1>4, <1>5, <1>6

\* A wsConnect for the conversation shown, or while it has no messages yet.
LEMMA ConnectStep ==
  ASSUME IInv, NEW c \in Convs, WsConnect(c), UNCHANGED <<active, fetch, cookie, calm>>,
         debounce' \in {debounce, None}, Loaded /\ debounce' = None => c = active
  PROVE  IInv'
<1>1. /\ socks' \in [Slots -> Socket] /\ wsConn' = None /\ manualClose' = FALSE /\ timer' = FALSE
      /\ notice' = notice \ {"forbidden"} /\ crossed' \in BOOLEAN
      /\ Checking' # {}
      /\ ~crossed' => \A j \in Checking' : socks'[j].conv = c /\ \A k \in Checking' : j = k
  BY ConnectFacts DEF IInv
<1>2. TypeOK'
  BY <1>1 DEF IInv, TypeOK, Socket
<1>3. Loaded' = Loaded
  BY <1>1 DEF Loaded
<1>4. FetchInv' /\ DebounceInv' /\ CheckInv'
  BY <1>1, <1>3 DEF IInv, FetchInv, DebounceInv, CheckInv, Loaded
<1>5. SockInv'
  BY <1>1, <1>3, SlotFacts DEF SockInv, Linked, Loaded
<1>6. RetryInv'
  BY <1>1 DEF RetryInv
<1> QED BY <1>2, <1>4, <1>5, <1>6 DEF IInv

\* The page shows no conversation any more.
LEMMA LeaveStep ==
  ASSUME IInv, LeavePage, UNCHANGED <<debounce, crossed, calm>>,
         fetch' \in {fetch, None}, cookie' \in BOOLEAN
  PROVE  IInv' /\ Leftover' = Leftover
<1>1. /\ active' = None /\ notice' = {} /\ socks' = Closed /\ wsConn' = None
      /\ manualClose' = TRUE /\ timer' = FALSE
  BY DEF LeavePage
<1>2. TypeOK'
  BY <1>1, ClosedFacts DEF IInv, TypeOK, Socket
<1>3. FetchInv' /\ DebounceInv' /\ SockInv' /\ RetryInv'
  BY <1>1 DEF FetchInv, DebounceInv, SockInv, RetryInv, Linked, Loaded
<1>4. \A k \in Slots : k \in Checking' => k \in Checking
  BY <1>1, ClosedFacts DEF IInv, Checking
<1>5. CheckInv'
  BY <1>1, <1>4 DEF IInv, CheckInv, Checking
<1>6. Leftover' = Leftover
  <2>1. ASSUME NEW k \in Slots
        PROVE  (k \in Leftover)' <=> k \in Leftover
    BY <1>1, SlotFacts, ClosedFacts DEF IInv, Leftover, Live
  <2> QED BY <2>1 DEF Leftover
<1> QED BY <1>2, <1>3, <1>5, <1>6 DEF IInv


-----------------------------------------------------------------------------
(* Each step.                                                              *)

\* Click, and what login opens again.
LEMMA OpenStep ==
  ASSUME IInv, NEW c \in Convs, OpenConversation(c), UNCHANGED <<retry, link, crossed, calm>>,
         cookie' \in BOOLEAN
  PROVE  IInv' /\ Leftover' = Leftover
<1>1. /\ active' = c /\ fetch' = c /\ notice' = notice \ {"loadError"} /\ c # None
      /\ UNCHANGED <<debounce, timer, manualClose, socks, wsConn, crossed, calm>>
  BY SlotFacts DEF OpenConversation, retry, link
<1>2. TypeOK'
  BY <1>1 DEF IInv, TypeOK
<1>3. FetchInv' /\ DebounceInv' /\ SockInv' /\ RetryInv'
  BY <1>1 DEF FetchInv, DebounceInv, SockInv, RetryInv, Linked, Loaded
<1>4. CheckInv' /\ Leftover' = Leftover
  BY <1>1 DEF IInv, CheckInv, Checking, Leftover, Live
<1> QED BY <1>2, <1>3, <1>4 DEF IInv

\* Expire, Calm, a login to an empty page, and what else leaves the connection alone.
LEMMA OutsideStep ==
  ASSUME IInv, UNCHANGED <<view, retry, link, crossed>>,
         cookie' \in BOOLEAN, calm' \in BOOLEAN
  PROVE  IInv' /\ Leftover' = Leftover
<1>1. UNCHANGED <<active, fetch, notice, debounce, timer, manualClose, socks, wsConn, crossed>>
  BY DEF view, retry, link
<1>2. TypeOK'
  BY <1>1 DEF IInv, TypeOK
<1>3. FetchInv' /\ DebounceInv' /\ SockInv' /\ RetryInv' /\ CheckInv' /\ Leftover' = Leftover
  BY <1>1 DEF IInv, FetchInv, DebounceInv, SockInv, RetryInv, Linked, Loaded, CheckInv, Checking,
              Leftover, Live
<1> QED BY <1>2, <1>3 DEF IInv

LEMMA FetchedStep ==
  ASSUME IInv, MessagesFetched
  PROVE  IInv' /\ Leftover' = Leftover
<1>1. /\ fetch # None /\ fetch' = None /\ debounce' = (IF active = fetch THEN fetch ELSE debounce)
      /\ UNCHANGED <<active, notice, timer, manualClose, socks, wsConn, cookie, crossed, calm>>
  BY DEF MessagesFetched, link
<1>2. TypeOK'
  BY <1>1 DEF IInv, TypeOK
<1>3. FetchInv' /\ DebounceInv' /\ SockInv' /\ RetryInv'
  BY <1>1 DEF IInv, FetchInv, DebounceInv, SockInv, RetryInv, Linked, Loaded
<1>4. CheckInv' /\ Leftover' = Leftover
  BY <1>1 DEF IInv, CheckInv, Checking, Leftover, Live
<1> QED BY <1>2, <1>3, <1>4 DEF IInv

LEMMA FetchFailedStep ==
  ASSUME IInv, FetchFailed
  PROVE  IInv' /\ Leftover' = Leftover
<1>1. fetch # None /\ fetch' = None /\ UNCHANGED <<crossed, calm>>
  BY DEF FetchFailed
<1>2. CASE LeavePage /\ UNCHANGED <<debounce, cookie>>
  BY <1>1, <1>2, LeaveStep DEF IInv, TypeOK
<1>3. CASE /\ notice' = IF active = fetch THEN notice \cup {"loadError"} ELSE notice
           /\ UNCHANGED <<active, retry, link, cookie>>
  <2>1. UNCHANGED <<active, debounce, timer, manualClose, socks, wsConn, cookie>>
    BY <1>3 DEF retry, link
  <2>2. TypeOK'
    BY <1>1, <1>3, <2>1 DEF IInv, TypeOK
  <2>3. ~Loaded'
    BY <1>1, <1>3, <2>1 DEF IInv, FetchInv, Loaded
  <2>4. FetchInv' /\ DebounceInv' /\ SockInv' /\ RetryInv'
    BY <1>1, <2>3 DEF FetchInv, DebounceInv, SockInv, RetryInv, Linked
  <2>5. CheckInv' /\ Leftover' = Leftover
    BY <1>1, <2>1 DEF IInv, CheckInv, Checking, Leftover, Live
  <2> QED BY <2>2, <2>4, <2>5 DEF IInv
<1> QED BY <1>2, <1>3 DEF FetchFailed

\* A check or a socket changes its state; what wsConn was is kept, or was None.
LEMMA SocketStep ==
  ASSUME IInv, UNCHANGED <<active, fetch, debounce, cookie, crossed, calm>>,
         notice' \in {notice, notice \cup {"forbidden"}},
         socks' \in [Slots -> Socket], timer' \in BOOLEAN, manualClose' = manualClose,
         \A k \in Slots : k \in Checking' => k \in Checking,
         \A k \in Slots : k \in Checking' \/ k = wsConn' =>
            /\ k \in Checking \/ k = wsConn
            /\ socks'[k].conv = socks[k].conv,
         wsConn' # None => wsConn' \in Slots /\ socks'[wsConn'].st \in {"connecting", "open", "doomed"},
         wsConn' = wsConn \/ wsConn' = None \/ (wsConn' \in Checking /\ wsConn' \notin Checking'),
         ~manualClose /\ notice' = notice /\ (timer \/ Checking # {} \/ wsConn # None) =>
            timer' \/ Checking' # {} \/ wsConn' # None
  PROVE  IInv'
<1>1. TypeOK'
  BY DEF IInv, TypeOK, Socket
<1>2. Loaded' = Loaded /\ Linked' = Linked
  BY DEF Loaded, Linked
<1>3. FetchInv' /\ DebounceInv'
  BY <1>2 DEF IInv, FetchInv, DebounceInv
<1>4. CheckInv'
  <2> SUFFICES ASSUME ~crossed
               PROVE  /\ \A j, k \in Checking' : j = k
                      /\ Checking' # {} => wsConn' = None
    BY DEF CheckInv
  <2>1. \A j, k \in Checking : j = k
    BY DEF IInv, CheckInv
  <2>2. Checking' \subseteq Checking
    BY DEF Checking
  <2>3. Checking # {} => wsConn = None
    BY DEF IInv, CheckInv
  <2> QED BY <2>1, <2>2, <2>3
<1>5. SockInv'
  BY <1>2 DEF IInv, SockInv
<1>6. RetryInv'
  BY <1>2 DEF IInv, RetryInv
<1> QED BY <1>1, <1>3, <1>4, <1>5, <1>6 DEF IInv


\* One entry of socks changes, to free or to a later state.
LEMMA OneSocket ==
  ASSUME TypeOK, NEW k \in Slots, socks[k] # Free, NEW t \in {"connecting", "open", "doomed"},
         NEW s \in {Free, [socks[k] EXCEPT !.st = t]}, socks' = [socks EXCEPT ![k] = s]
  PROVE  /\ socks' \in [Slots -> Socket] /\ socks'[k] = s
         /\ \A j \in Slots : j # k => socks'[j] = socks[j]
         /\ s = Free \/ (s.st = t /\ s.conv = socks[k].conv)
         /\ Checking' = Checking \ {k}
<1>1. socks \in [Slots -> Socket]
  BY DEF TypeOK, Socket
<1>2. s \in Socket /\ s.st # "checking" /\ (s = Free \/ (s.st = t /\ s.conv = socks[k].conv))
  <2>1. socks[k] \in [conv : Convs, st : {"checking", "connecting", "open", "doomed"}]
    BY <1>1 DEF Socket
  <2>2. [socks[k] EXCEPT !.st = t] \in Socket /\ [socks[k] EXCEPT !.st = t].st = t
        /\ [socks[k] EXCEPT !.st = t].conv = socks[k].conv
    BY <2>1 DEF Socket
  <2> QED BY <2>2, SlotFacts
<1> HIDE DEF Socket
<1> QED BY <1>1, <1>2 DEF Checking

LEMMA CheckErrorStep ==
  ASSUME IInv, NEW k \in Slots, CheckError(k)
  PROVE  IInv' /\ Leftover' \subseteq Leftover
<1>1. /\ socks[k].st = "checking" /\ socks' = [socks EXCEPT ![k] = Free]
      /\ timer' = (timer \/ ~manualClose)
      /\ UNCHANGED <<active, fetch, notice, debounce, manualClose, wsConn, cookie, crossed, calm>>
  BY DEF CheckError, ScheduleReconnect, view
<1>2. /\ socks' \in [Slots -> Socket] /\ socks'[k] = Free
      /\ \A j \in Slots : j # k => socks'[j] = socks[j]
      /\ Checking' = Checking \ {k}
  BY <1>1, OneSocket, SlotFacts DEF IInv
<1>3. wsConn # k
  BY <1>1, SlotFacts DEF IInv, TypeOK
<1>4. timer' \in BOOLEAN /\ (~manualClose => timer')
  BY <1>1 DEF IInv, TypeOK
<1>5. /\ \A j \in Slots : j \in Checking' => j \in Checking
      /\ \A j \in Slots : j \in Checking' \/ j = wsConn' =>
            /\ j \in Checking \/ j = wsConn
            /\ socks'[j].conv = socks[j].conv
      /\ wsConn' # None => wsConn' \in Slots /\ socks'[wsConn'].st \in {"connecting", "open", "doomed"}
  BY <1>1, <1>2, <1>3 DEF IInv, TypeOK
<1>6. IInv'
  BY <1>1, <1>2, <1>4, <1>5, SocketStep
<1>7. Leftover' \subseteq Leftover
  BY <1>1, <1>2, SlotFacts DEF Leftover, Live
<1> QED BY <1>6, <1>7

LEMMA CheckDeniedStep ==
  ASSUME IInv, NEW k \in Slots, CheckDenied(k)
  PROVE  IInv' /\ Leftover' \subseteq Leftover
<1>1. /\ socks[k].st = "checking" /\ socks' = [socks EXCEPT ![k] = Free]
      /\ notice' = notice \cup {"forbidden"}
      /\ UNCHANGED <<active, fetch, debounce, timer, manualClose, wsConn, cookie, crossed, calm>>
  BY DEF CheckDenied, retry
<1>2. /\ socks' \in [Slots -> Socket] /\ socks'[k] = Free
      /\ \A j \in Slots : j # k => socks'[j] = socks[j]
      /\ Checking' = Checking \ {k}
  BY <1>1, OneSocket, SlotFacts DEF IInv
<1>3. wsConn # k
  BY <1>1, SlotFacts DEF IInv, TypeOK
<1>4. TypeOK'
  BY <1>1, <1>2, <1>3 DEF IInv, TypeOK, Socket
<1>5. Loaded' = Loaded /\ Linked' = Linked /\ notice' # {}
  BY <1>1 DEF Loaded, Linked
<1>6. FetchInv' /\ DebounceInv' /\ CheckInv' /\ SockInv' /\ RetryInv'
  BY <1>1, <1>2, <1>3, <1>5 DEF IInv, FetchInv, DebounceInv, CheckInv, SockInv, RetryInv
<1>7. Leftover' \subseteq Leftover
  BY <1>1, <1>2, SlotFacts DEF Leftover, Live
<1> QED BY <1>4, <1>6, <1>7 DEF IInv

\* Here a socket may lose its place: wsConn was None unless calls overlapped.
LEMMA CheckPassedStep ==
  ASSUME IInv, NEW k \in Slots, CheckPassed(k)
  PROVE  IInv' /\ (Leftover' \subseteq Leftover \/ crossed)
<1>1. /\ socks[k].st = "checking" /\ wsConn' = k
      /\ UNCHANGED <<active, fetch, notice, debounce, timer, manualClose, cookie, crossed, calm>>
  BY DEF CheckPassed, view, retry
<1>2. PICK t \in {"connecting", "doomed"} : socks' = [socks EXCEPT ![k] = [socks[k] EXCEPT !.st = t]]
  BY DEF CheckPassed
<1>3. /\ socks' \in [Slots -> Socket] /\ socks'[k].st = t /\ socks'[k].conv = socks[k].conv
      /\ \A j \in Slots : j # k => socks'[j] = socks[j]
      /\ Checking' = Checking \ {k} /\ k \in Checking
  <2> DEFINE s == [socks[k] EXCEPT !.st = t]
  <2>1. socks[k] # Free /\ s # Free /\ socks' = [socks EXCEPT ![k] = s]
    BY <1>1, <1>2, SlotFacts DEF IInv, TypeOK, Free, Live
  <2>2. s \in {Free, [socks[k] EXCEPT !.st = t]}
    OBVIOUS
  <2> HIDE DEF s
  <2>3. /\ socks' \in [Slots -> Socket] /\ socks'[k] = s
        /\ \A j \in Slots : j # k => socks'[j] = socks[j]
        /\ s.st = t /\ s.conv = socks[k].conv
        /\ Checking' = Checking \ {k}
    BY <2>1, <2>2, OneSocket DEF IInv
  <2> QED BY <1>1, <2>3 DEF Checking, Live
<1>4. /\ timer' \in BOOLEAN /\ wsConn' # None
      /\ \A j \in Slots : j \in Checking' => j \in Checking
      /\ \A j \in Slots : j \in Checking' \/ j = wsConn' =>
            /\ j \in Checking \/ j = wsConn
            /\ socks'[j].conv = socks[j].conv
      /\ wsConn' \in Slots /\ socks'[wsConn'].st \in {"connecting", "open", "doomed"}
      /\ wsConn' \in Checking /\ wsConn' \notin Checking'
  BY <1>1, <1>3, SlotFacts DEF IInv, TypeOK
<1>5. IInv'
  BY <1>1, <1>3, <1>4, SocketStep
<1>6. Leftover' \subseteq Leftover \/ crossed
  <2> SUFFICES ASSUME ~crossed, NEW j \in Leftover'
               PROVE  j \in Leftover
    OBVIOUS
  <2>1. wsConn = None
    BY <1>3 DEF IInv, CheckInv
  <2>2. j \in Slots /\ j # k /\ socks'[j].st \in {"connecting", "open"}
    BY <1>1 DEF Leftover, Live
  <2> QED BY <1>3, <2>1, <2>2, SlotFacts DEF Leftover, Live
<1> QED BY <1>5, <1>6

LEMMA SockOpensStep ==
  ASSUME IInv, NEW k \in Slots, SockOpens(k)
  PROVE  IInv' /\ Leftover' \subseteq Leftover
<1>1. /\ socks[k].st = "connecting" /\ socks' = [socks EXCEPT ![k] = [socks[k] EXCEPT !.st = "open"]]
      /\ timer' = (timer /\ wsConn # k)
      /\ UNCHANGED <<active, fetch, notice, debounce, manualClose, wsConn, cookie, crossed, calm>>
  BY DEF SockOpens, view
<1>2. /\ socks' \in [Slots -> Socket] /\ socks'[k].st = "open" /\ socks'[k].conv = socks[k].conv
      /\ \A j \in Slots : j # k => socks'[j] = socks[j]
      /\ Checking' = Checking \ {k} /\ k \notin Checking
  <2> DEFINE s == [socks[k] EXCEPT !.st = "open"]
  <2>1. socks[k] # Free /\ s # Free /\ socks' = [socks EXCEPT ![k] = s]
    BY <1>1, SlotFacts DEF IInv, TypeOK, Free, Live
  <2>2. s \in {Free, [socks[k] EXCEPT !.st = "open"]}
    OBVIOUS
  <2> HIDE DEF s
  <2>3. /\ socks' \in [Slots -> Socket] /\ socks'[k] = s
        /\ \A j \in Slots : j # k => socks'[j] = socks[j]
        /\ s.st = "open" /\ s.conv = socks[k].conv
        /\ Checking' = Checking \ {k}
    BY <2>1, <2>2, OneSocket DEF IInv
  <2> QED BY <1>1, <2>3 DEF Checking, Live
<1>3. /\ timer' \in BOOLEAN /\ (timer' = timer \/ wsConn = k) /\ k # None
      /\ \A j \in Slots : j \in Checking' => j \in Checking
      /\ \A j \in Slots : j \in Checking' \/ j = wsConn' =>
            /\ j \in Checking \/ j = wsConn
            /\ socks'[j].conv = socks[j].conv
      /\ wsConn' # None => wsConn' \in Slots /\ socks'[wsConn'].st \in {"connecting", "open", "doomed"}
  BY <1>1, <1>2, SlotFacts DEF IInv, TypeOK
<1>4. IInv'
  BY <1>1, <1>2, <1>3, SocketStep
<1>5. Leftover' \subseteq Leftover
  BY <1>1, <1>2, SlotFacts DEF Leftover, Live
<1> QED BY <1>4, <1>5

LEMMA SockDropsStep ==
  ASSUME IInv, NEW k \in Slots, SockDrops(k)
  PROVE  IInv' /\ Leftover' \subseteq Leftover
<1>1. /\ Live(k) /\ socks' = [socks EXCEPT ![k] = [socks[k] EXCEPT !.st = "doomed"]]
      /\ UNCHANGED <<active, fetch, notice, debounce, timer, manualClose, wsConn, cookie, crossed, calm>>
  BY DEF SockDrops, view, retry
<1>2. /\ socks' \in [Slots -> Socket] /\ socks'[k].st = "doomed" /\ socks'[k].conv = socks[k].conv
      /\ \A j \in Slots : j # k => socks'[j] = socks[j]
      /\ Checking' = Checking \ {k} /\ k \notin Checking
  <2> DEFINE s == [socks[k] EXCEPT !.st = "doomed"]
  <2>1. socks[k] # Free /\ s # Free /\ socks' = [socks EXCEPT ![k] = s]
    BY <1>1, SlotFacts DEF IInv, TypeOK, Free, Live
  <2>2. s \in {Free, [socks[k] EXCEPT !.st = "doomed"]}
    OBVIOUS
  <2> HIDE DEF s
  <2>3. /\ socks' \in [Slots -> Socket] /\ socks'[k] = s
        /\ \A j \in Slots : j # k => socks'[j] = socks[j]
        /\ s.st = "doomed" /\ s.conv = socks[k].conv
        /\ Checking' = Checking \ {k}
    BY <2>1, <2>2, OneSocket DEF IInv
  <2> QED BY <1>1, <2>3 DEF Checking, Live
<1>3. /\ timer' \in BOOLEAN
      /\ \A j \in Slots : j \in Checking' => j \in Checking
      /\ \A j \in Slots : j \in Checking' \/ j = wsConn' =>
            /\ j \in Checking \/ j = wsConn
            /\ socks'[j].conv = socks[j].conv
      /\ wsConn' # None => wsConn' \in Slots /\ socks'[wsConn'].st \in {"connecting", "open", "doomed"}
  BY <1>1, <1>2 DEF IInv, TypeOK
<1>4. IInv'
  BY <1>1, <1>2, <1>3, SocketStep
<1>5. Leftover' \subseteq Leftover
  BY <1>1, <1>2, SlotFacts DEF Leftover, Live
<1> QED BY <1>4, <1>5

LEMMA SockClosedStep ==
  ASSUME IInv, NEW k \in Slots, SockClosed(k)
  PROVE  IInv' /\ Leftover' \subseteq Leftover
<1>1. /\ socks[k].st = "doomed" /\ socks' = [socks EXCEPT ![k] = Free]
      /\ wsConn' = (IF wsConn = k THEN None ELSE wsConn) /\ timer' = ~manualClose
      /\ UNCHANGED <<active, fetch, notice, debounce, manualClose, cookie, crossed, calm>>
  BY DEF SockClosed, view
<1>2. /\ socks' \in [Slots -> Socket] /\ socks'[k] = Free
      /\ \A j \in Slots : j # k => socks'[j] = socks[j]
      /\ Checking' = Checking \ {k}
  BY <1>1, OneSocket, SlotFacts DEF IInv
<1>3. /\ timer' \in BOOLEAN /\ (~manualClose => timer')
      /\ wsConn' = wsConn \/ wsConn' = None
      /\ \A j \in Slots : j \in Checking' => j \in Checking
      /\ \A j \in Slots : j \in Checking' \/ j = wsConn' =>
            /\ j \in Checking \/ j = wsConn
            /\ socks'[j].conv = socks[j].conv
      /\ wsConn' # None => wsConn' \in Slots /\ socks'[wsConn'].st \in {"connecting", "open", "doomed"}
  BY <1>1, <1>2, SlotFacts DEF IInv, TypeOK
<1>4. IInv'
  BY <1>1, <1>2, <1>3, SocketStep
<1>5. Leftover' \subseteq Leftover
  BY <1>1, <1>2, SlotFacts DEF Leftover, Live
<1> QED BY <1>4, <1>5


LEMMA DebounceStep ==
  ASSUME IInv, DebounceFires
  PROVE  IInv' /\ Leftover' = Leftover
<1>1. debounce \in Convs /\ debounce' = None /\ UNCHANGED <<active, fetch, cookie, calm>>
      /\ WsConnect(debounce)
  BY DEF DebounceFires, IInv, TypeOK
<1>2. Loaded => debounce = active
  BY <1>1, SlotFacts DEF IInv, DebounceInv
<1> QED BY <1>1, <1>2, ConnectStep, ConnectFacts DEF IInv

LEMMA TimerStep ==
  ASSUME IInv, TimerFires
  PROVE  IInv' /\ Leftover' = Leftover
<1>1. UNCHANGED <<active, fetch, debounce, cookie, calm>>
  BY DEF TimerFires
<1>2. CASE active # None /\ WsConnect(active)
  <2>1. active \in Convs
    BY <1>2 DEF IInv, TypeOK
  <2> QED BY <1>1, <1>2, <2>1, ConnectStep, ConnectFacts DEF IInv
<1>3. CASE active = None /\ timer' = FALSE /\ UNCHANGED <<notice, manualClose, link, crossed>>
  <2>1. UNCHANGED <<socks, wsConn>>
    BY <1>3 DEF link
  <2>2. TypeOK'
    BY <1>1, <1>3, <2>1 DEF IInv, TypeOK
  <2>3. FetchInv' /\ DebounceInv' /\ SockInv' /\ RetryInv'
    BY <1>1, <1>3 DEF FetchInv, DebounceInv, SockInv, RetryInv, Linked, Loaded
  <2>4. CheckInv' /\ Leftover' = Leftover
    BY <1>3, <2>1 DEF IInv, CheckInv, Checking, Leftover, Live
  <2> QED BY <2>2, <2>3, <2>4 DEF IInv
<1> QED BY <1>2, <1>3 DEF TimerFires

LEMMA InitInv == Init => IInv
<1> SUFFICES ASSUME Init PROVE IInv
  OBVIOUS
<1>1. \A k \in Slots : socks[k] = Free /\ socks[k].st = "free"
  BY SlotFacts DEF Init
<1>2. TypeOK
  BY DEF Init, TypeOK
<1>3. CheckInv
  BY <1>1 DEF Init, CheckInv, Checking
<1> QED BY <1>2, <1>3 DEF Init, IInv, FetchInv, DebounceInv, SockInv, RetryInv, Linked, Loaded

\* The invariant is kept, and no socket is left over but by an overlap.
LEMMA NextInv == IInv /\ [Next]_vars => IInv' /\ (Leftover' \subseteq Leftover \/ crossed)
<1> SUFFICES ASSUME IInv, [Next]_vars
             PROVE  IInv' /\ (Leftover' \subseteq Leftover \/ crossed)
  OBVIOUS
<1>1. ASSUME NEW c \in Convs, Click(c)
      PROVE  IInv' /\ Leftover' = Leftover
  BY <1>1, OpenStep DEF Click, IInv, TypeOK
<1>2. ASSUME FetchStep
      PROVE  IInv' /\ Leftover' = Leftover
  BY <1>2, FetchedStep, FetchFailedStep DEF FetchStep
<1>3. ASSUME NEW k \in Slots, CheckStep(k) \/ SockOpens(k) \/ SockDrops(k) \/ SockClosed(k)
      PROVE  IInv' /\ (Leftover' \subseteq Leftover \/ crossed)
  BY <1>3, CheckErrorStep, CheckDeniedStep, CheckPassedStep, SockOpensStep, SockDropsStep,
     SockClosedStep DEF CheckStep
<1>4. ASSUME DebounceFires \/ TimerFires
      PROVE  IInv' /\ Leftover' = Leftover
  BY <1>4, DebounceStep, TimerStep
<1>5. ASSUME Logout
      PROVE  IInv' /\ Leftover' = Leftover
  BY <1>5, LeaveStep DEF Logout, IInv, TypeOK
<1>6. ASSUME Login
      PROVE  IInv' /\ Leftover' = Leftover
  <2>1. /\ cookie' \in BOOLEAN /\ calm' \in BOOLEAN /\ UNCHANGED <<retry, link, crossed, calm>>
        /\ UNCHANGED view \/ (active # None /\ OpenConversation(active))
    BY <1>6 DEF Login, IInv, TypeOK
  <2>2. CASE UNCHANGED view
    BY <2>1, <2>2, OutsideStep
  <2>3. CASE active # None /\ OpenConversation(active)
    <3>1. active \in Convs
      BY <2>3 DEF IInv, TypeOK
    <3> QED BY <2>1, <2>3, <3>1, OpenStep
  <2> QED BY <2>1, <2>2, <2>3
<1>7. ASSUME Expire \/ Calm \/ UNCHANGED vars
      PROVE  IInv' /\ Leftover' = Leftover
  <2>1. /\ UNCHANGED <<view, retry, link, crossed>>
        /\ cookie' \in BOOLEAN /\ calm' \in BOOLEAN
    BY <1>7 DEF Expire, Calm, vars, IInv, TypeOK
  <2> QED BY <2>1, OutsideStep
<1> QED BY <1>1, <1>2, <1>3, <1>4, <1>5, <1>6, <1>7 DEF Next

\* The invariant holds in every run.
THEOREM Invariant == Spec => []IInv
<1>1. IInv /\ [Next]_vars => IInv'
  BY NextInv
<1> QED BY <1>1, InitInv, PTL DEF Spec

-----------------------------------------------------------------------------
(* What follows.                                                           *)

\* wsConn, when there is one, names a socket that was made and whose close event
\* has not come (script.js:649, 771-774).
THEOREM TypeCorrect == Spec => []TypeOK
<1>1. IInv => TypeOK
  BY DEF IInv
<1> QED BY <1>1, Invariant, PTL

\* The page never rests with a conversation open and neither a socket for it nor
\* an error, unless the last connects overlapped (script.js:466, 588-782).
THEOREM NeverSilent == Spec => []NoSilentEnd
<1>1. IInv => NoSilentEnd
  <2> SUFFICES ASSUME IInv, AtRest, active # None, notice = {}, ~crossed
               PROVE  Connected
    BY DEF NoSilentEnd
  <2>1. Linked /\ ~timer /\ Checking = {}
    BY DEF AtRest, Linked, Loaded, Checking
  <2>2. wsConn # None /\ wsConn \in Slots /\ socks[wsConn].conv = active
    BY <2>1 DEF IInv, RetryInv, SockInv, TypeOK
  <2>3. /\ socks[wsConn].st = "open"
        /\ socks[wsConn] \in [conv : Convs, st : {"checking", "connecting", "open", "doomed"}]
    BY <2>2, SlotFacts DEF AtRest, IInv, TypeOK
  <2> QED BY <2>2, <2>3 DEF Connected
<1> QED BY <1>1, Invariant, PTL

\* A living socket is left open and unheard only by connects that overlap
\* (script.js:617, 649, 772).
THEOREM OrphansByOverlap == Spec => OrphansOnlyByOverlap
<1>1. IInv /\ [Next]_vars => Leftover' \subseteq Leftover \/ crossed
  BY NextInv
<1> QED BY <1>1, Invariant, PTL DEF Spec, OrphansOnlyByOverlap
=============================================================================
