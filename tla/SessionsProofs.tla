--------------------------- MODULE SessionsProofs ---------------------------
(***************************************************************************)
(* Theorems about Sessions, for every set of browsers, users and requests. *)
(***************************************************************************)
EXTENDS Sessions, TLAPS

-----------------------------------------------------------------------------
(* The inductive invariant.                                                *)

\* The steps a handler of each kind goes through.
KindsInv ==
    /\ \A l \in Logins : pc[l] \in {"idle", "insert", "granted", "half", "refused", "done"}
    /\ \A r \in Refreshes : pc[r] \in {"idle", "select", "update", "granted", "refused", "done"}
    /\ \A o \in Logouts : pc[o] \in {"idle", "revoke", "cleared", "done"}

CandsInv ==
    \A q \in Requests : /\ Len(cands[q]) <= 3
                        /\ pc[q] \in {"select", "update", "revoke"} => cands[q] # <<>>

\* A refresh works on a row of its own browser, whose login is over.
PicksInv ==
    \A r \in Refreshes :
        /\ pc[r] \in {"update", "granted"} => sel[r] # None
        /\ sel[r] # None => /\ By[sel[r]] = By[r] /\ pc[sel[r]] = "done"
                            /\ rows[sel[r]].tok # None

\* Whose token may be in row l.
RowOf(t, l) ==
    /\ t \in (Logins \cup Refreshes) \X (0..3)
    /\ By[t[1]] = By[l]
    /\ t[1] \in Logins => t[1] = l
    /\ t[1] \in Refreshes => pc[l] = "done"

RowsInv ==
    /\ \A l \in Logins : /\ rows[l].tok # None => RowOf(rows[l].tok, l)
                         /\ rows[l].tok = None => ~rows[l].revoked
                         /\ pc[l] \in {"idle", "insert"} => rows[l].tok = None
    /\ \A l, m \in Logins : rows[l].tok = rows[m].tok => l = m \/ rows[l].tok = None

\* Tokens that are, or were, in a row.
Used == retired \cup {rows[l].tok : l \in Logins}

\* No request has used the token it would make next.
FreshInv ==
    /\ \A l \in Logins : <<l, 0>> \in Used => pc[l] \notin {"idle", "insert"}
    /\ \A r \in Refreshes, n \in 0..3 : <<r, n>> \in Used =>
           /\ pc[r] # "idle"
           /\ pc[r] \in {"select", "update"} => Len(cands[r]) < n
    /\ \A l \in Logins : rows[l].tok \notin retired

\* A token browser b may hold.
HomeOf(t, b) ==
    t # Stale => /\ By[t[1]] = b
                 /\ t[1] \in Logins => pc[t[1]] = "done"

HeldInv ==
    /\ \A b \in Browsers : /\ jar[b].refresh # None => HomeOf(jar[b].refresh, b)
                           /\ jar[b].legacy \in {None, Stale}
    /\ \A q \in Requests : /\ \A i \in 1..Len(cands[q]) : HomeOf(cands[q][i], By[q])
                           /\ pc[q] = "granted" =>
                                /\ reply[q] \in Requests \X (0..3)
                                /\ By[reply[q][1]] = By[q]
                                /\ reply[q][1] \in Logins => reply[q][1] = q

\* A revoked row that is about to be rotated is known to be in a race.
RaceInv ==
    \A r \in Refreshes :
        pc[r] = "update" /\ rows[sel[r]].revoked => r \in racing[sel[r]]

Alive(t) == \E l \in Logins : rows[l].tok = t /\ ~rows[l].revoked

\* A browser that was never disturbed has one request at a time, and its session
\* lives on in its jar or in the reply under way.
BrowserLive(b) ==
    /\ \A p, q \in Requests : By[p] = b /\ By[q] = b /\ InFlight(p) /\ InFlight(q) => p = q
    /\ \A q \in Requests : By[q] = b /\ pc[q] = "granted" => Alive(reply[q])
    /\ \/ jar[b].refresh = None
       \/ Alive(jar[b].refresh)
       \/ \E q \in Requests : By[q] = b /\ pc[q] \in {"granted", "cleared"}

LiveInv == \A b \in Browsers \ disturbed : BrowserLive(b)

\* The access cookie's part of SessionsStayHome.
AccessInv ==
    \A b \in Browsers : jar[b].access # None =>
        \E l \in Logins : By[l] = b /\ User[l] = jar[b].access /\ pc[l] = "done"

IInv == /\ TypeOK /\ KindsInv /\ CandsInv /\ PicksInv /\ RowsInv
        /\ FreshInv /\ HeldInv /\ RaceInv /\ LiveInv /\ AccessInv

-----------------------------------------------------------------------------
(* Requests, tokens and sequences.                                         *)

LEMMA Kinds ==
  /\ \A l \in Logins : l \in Requests /\ l \notin Refreshes /\ l \notin Logouts
  /\ \A r \in Refreshes : r \in Requests /\ r \notin Logins /\ r \notin Logouts
  /\ \A o \in Logouts : o \in Requests /\ o \notin Logins /\ o \notin Refreshes
  BY SessionsAssumption DEF Requests

LEMMA ByType == \A q \in Requests : By[q] \in Browsers /\ q # None
  BY SessionsAssumption

LEMMA TokenFacts ==
  /\ None \notin Tokens
  /\ Stale \in Tokens
  /\ \A t \in Tokens : t # Stale => t \in Requests \X (0..3)
  /\ \A t \in Requests \X (0..3) : t \in Tokens /\ t # Stale /\ t[1] \in Requests /\ t # None
  /\ \A t \in (Logins \cup Refreshes) \X (0..3) : t \in Requests \X (0..3)
  BY SessionsAssumption DEF Tokens, Stale, Requests

LEMMA TailFacts ==
  ASSUME NEW s \in Seq(Tokens), s # <<>>
  PROVE  /\ Head(s) = s[1] /\ s[1] \in Tokens /\ Len(s) \in Nat \ {0} /\ 1 \in 1..Len(s)
         /\ Tail(s) \in Seq(Tokens) /\ Len(Tail(s)) = Len(s) - 1
         /\ Len(s) > 1 => Tail(s) # <<>>
         /\ \A i \in 1..Len(Tail(s)) : i + 1 \in 1..Len(s) /\ Tail(s)[i] = s[i + 1]
<1>1. /\ Head(s) = s[1] /\ s[1] \in Tokens /\ Len(s) \in Nat \ {0} /\ 1 \in 1..Len(s)
      /\ Tail(s) \in Seq(Tokens) /\ Len(Tail(s)) = Len(s) - 1
      /\ \A i \in 1..Len(Tail(s)) : i + 1 \in 1..Len(s) /\ Tail(s)[i] = s[i + 1]
  OBVIOUS
<1>2. Len(<< >>) = 0
  OBVIOUS
<1> QED BY <1>1, <1>2

\* The cookies of a request, and the list of candidates made of them.
LEMMA CookiesFacts ==
  ASSUME TypeOK, HeldInv, NEW b \in Browsers
  PROVE  /\ Cookies(b) \in Seq(Tokens) /\ Len(Cookies(b)) <= 2
         /\ \A i \in 1..Len(Cookies(b)) : HomeOf(Cookies(b)[i], b)
<1>1. jar[b].refresh \in Tokens \cup {None} /\ jar[b].legacy \in Tokens \cup {None}
  BY DEF TypeOK
<1>2. /\ jar[b].refresh # None => HomeOf(jar[b].refresh, b)
      /\ jar[b].legacy # None => HomeOf(jar[b].legacy, b)
  BY DEF HeldInv, HomeOf
<1>3. CASE jar[b].legacy = None /\ jar[b].refresh = None
  BY <1>3 DEF Cookies, Sent
<1>4. CASE jar[b].legacy = None /\ jar[b].refresh # None
  BY <1>1, <1>2, <1>4 DEF Cookies, Sent
<1>5. CASE jar[b].legacy # None /\ jar[b].refresh = None
  BY <1>1, <1>2, <1>5 DEF Cookies, Sent
<1>6. CASE jar[b].legacy # None /\ jar[b].refresh # None
  BY <1>1, <1>2, <1>6 DEF Cookies, Sent
<1> QED BY <1>3, <1>4, <1>5, <1>6

LEMMA CandidatesFacts ==
  ASSUME TypeOK, HeldInv, NEW b \in Browsers, Cookies(b) # <<>>
  PROVE  \A c \in {<<Cookies(b)[1]>> \o Cookies(b), <<Cookies(b)[1]>>} :
            /\ c \in Seq(Tokens) /\ Len(c) <= 3 /\ c # <<>>
            /\ \A i \in 1..Len(c) : HomeOf(c[i], b)
<1> DEFINE f == Cookies(b)
<1>1. f \in Seq(Tokens) /\ Len(f) <= 2 /\ f # <<>> /\ \A i \in 1..Len(f) : HomeOf(f[i], b)
  BY CookiesFacts
<1> HIDE DEF f
<1>2. f[1] \in Tokens /\ 1 \in 1..Len(f)
  BY <1>1
<1>3. <<f[1]>> \in Seq(Tokens) /\ Len(<<f[1]>>) = 1 /\ \A i \in 1..1 : <<f[1]>>[i] = f[1]
  BY <1>2
<1>4. /\ <<f[1]>> \o f \in Seq(Tokens) /\ Len(<<f[1]>> \o f) = 1 + Len(f)
      /\ \A i \in 1..Len(<<f[1]>> \o f) : (<<f[1]>> \o f)[i] = IF i = 1 THEN f[1] ELSE f[i - 1]
  BY <1>1, <1>2
<1>5. \A i \in 2..1 + Len(f) : i - 1 \in 1..Len(f)
  BY <1>1
<1>6. \A i \in 1..Len(<<f[1]>> \o f) : HomeOf((<<f[1]>> \o f)[i], b)
  BY <1>1, <1>2, <1>4, <1>5
<1>7. <<f[1]>> \o f # <<>> /\ <<f[1]>> # <<>> /\ Len(<<f[1]>> \o f) <= 3
  BY <1>1, <1>4
<1> QED BY <1>1, <1>2, <1>3, <1>4, <1>6, <1>7 DEF f

-----------------------------------------------------------------------------
(* A request arrives.                                                      *)

LEMMA LoginSent ==
  ASSUME IInv, NEW q \in Logins, SendLogin(q)
  PROVE  /\ pc[q] = "idle" /\ cands' = cands /\ Overlap(q)
         /\ UNCHANGED <<rows, jar, sel, reply, retired, racing>>
         /\ \E to \in {"insert", "refused"} : pc' = [pc EXCEPT ![q] = to]
  BY DEF SendLogin, handlerVars

LEMMA RefreshSent ==
  ASSUME IInv, NEW q \in Refreshes, SendRefresh(q)
  PROVE  /\ pc[q] = "idle" /\ Overlap(q)
         /\ UNCHANGED <<rows, jar, sel, reply, retired, racing>>
         /\ \E c \in Seq(Tokens), to \in {"select", "refused"} :
              /\ pc' = [pc EXCEPT ![q] = to] /\ cands' = [cands EXCEPT ![q] = c]
              /\ to = "select" => c # <<>>
              /\ Len(c) <= 3 /\ \A i \in 1..Len(c) : HomeOf(c[i], By[q])
<1>1. By[q] \in Browsers
  BY Kinds, ByType
<1>2. CASE Cookies(By[q]) = <<>>
  <2> DEFINE c == << >>
  <2>1. c \in Seq(Tokens) /\ Len(c) <= 3 /\ \A i \in 1..Len(c) : HomeOf(c[i], By[q])
    OBVIOUS
  <2>2. /\ pc' = [pc EXCEPT ![q] = "refused"] /\ cands' = [cands EXCEPT ![q] = c]
        /\ pc[q] = "idle" /\ Overlap(q)
        /\ UNCHANGED <<rows, jar, sel, reply, retired, racing>>
    BY <1>2 DEF SendRefresh
  <2> HIDE DEF c
  <2> QED BY <2>1, <2>2
<1>3. CASE Cookies(By[q]) # <<>>
  BY <1>1, <1>3, CandidatesFacts DEF SendRefresh, IInv
<1> QED BY <1>2, <1>3

LEMMA LogoutSent ==
  ASSUME IInv, NEW q \in Logouts, SendLogout(q)
  PROVE  /\ pc[q] = "idle" /\ Overlap(q)
         /\ UNCHANGED <<rows, jar, sel, reply, retired, racing>>
         /\ \E c \in Seq(Tokens), to \in {"revoke", "cleared"} :
              /\ pc' = [pc EXCEPT ![q] = to] /\ cands' = [cands EXCEPT ![q] = c]
              /\ to = "revoke" => c # <<>>
              /\ Len(c) <= 3 /\ \A i \in 1..Len(c) : HomeOf(c[i], By[q])
<1>1. By[q] \in Browsers
  BY Kinds, ByType
<1>2. CASE Cookies(By[q]) = <<>>
  <2> DEFINE c == << >>
  <2>1. c \in Seq(Tokens) /\ Len(c) <= 3 /\ \A i \in 1..Len(c) : HomeOf(c[i], By[q])
    OBVIOUS
  <2>2. /\ pc' = [pc EXCEPT ![q] = "cleared"] /\ cands' = [cands EXCEPT ![q] = c]
        /\ pc[q] = "idle" /\ Overlap(q)
        /\ UNCHANGED <<rows, jar, sel, reply, retired, racing>>
    BY <1>2 DEF SendLogout
  <2> HIDE DEF c
  <2> QED BY <2>1, <2>2
<1>3. CASE Cookies(By[q]) # <<>>
  BY <1>1, <1>3, CandidatesFacts DEF SendLogout, IInv
<1> QED BY <1>2, <1>3

LEMMA SendStep ==
  ASSUME IInv, NEW q \in Requests,
         pc[q] = "idle", Overlap(q), UNCHANGED <<rows, jar, sel, reply, retired, racing>>,
         NEW c \in Seq(Tokens), cands' = [cands EXCEPT ![q] = c],
         Len(c) <= 3, \A i \in 1..Len(c) : HomeOf(c[i], By[q]),
         NEW to, pc' = [pc EXCEPT ![q] = to], to \in {"select", "revoke"} => c # <<>>,
         \/ q \in Logins /\ to \in {"insert", "refused"}
         \/ q \in Refreshes /\ to \in {"select", "refused"}
         \/ q \in Logouts /\ to \in {"revoke", "cleared"}
  PROVE  IInv'
<1>1. /\ \A p \in Requests : p # q => pc'[p] = pc[p] /\ cands'[p] = cands[p]
      /\ pc'[q] = to /\ cands'[q] = c
      /\ disturbed \subseteq disturbed'
  BY DEF IInv, TypeOK, Overlap, Disturb
<1>2. TypeOK'
  <2>1. pc' \in [Requests -> Steps \cup Replies \cup {"done"}]
    BY DEF IInv, TypeOK, Steps, Replies
  <2>2. disturbed' \subseteq Browsers
    BY ByType DEF IInv, TypeOK, Overlap, Disturb
  <2>3. cands' \in [Requests -> Seq(Tokens)]
    BY DEF IInv, TypeOK
  <2> QED BY <2>1, <2>2, <2>3 DEF IInv, TypeOK
<1>3. KindsInv'
  BY <1>1, Kinds DEF IInv, KindsInv
<1>4. CandsInv'
  BY <1>1 DEF IInv, CandsInv
<1>5. PicksInv' /\ AccessInv' /\ RaceInv'
  BY <1>1, Kinds DEF IInv, PicksInv, AccessInv, RaceInv, TypeOK
<1>6. RowsInv'
  BY <1>1, Kinds DEF IInv, RowsInv, RowOf, KindsInv
<1>7. FreshInv'
  BY <1>1, Kinds DEF IInv, FreshInv, Used
<1>8. HeldInv'
  BY <1>1 DEF IInv, HeldInv, HomeOf, Requests
<1>9. LiveInv'
  <2> SUFFICES ASSUME NEW b \in Browsers, b \notin disturbed'
               PROVE  BrowserLive(b)'
    BY DEF LiveInv
  <2>1. BrowserLive(b)
    BY <1>1 DEF IInv, LiveInv
  <2>2. By[q] = b => ~Busy(b)
    BY ByType DEF Overlap, Disturb
  <2>3. \A t : Alive(t)' <=> Alive(t)
    BY DEF Alive
  <2>4. to \notin {"idle", "done", "granted"}
    OBVIOUS
  <2> QED BY <1>1, <2>1, <2>2, <2>3, <2>4 DEF BrowserLive, Busy, InFlight
<1> QED BY <1>2, <1>3, <1>4, <1>5, <1>6, <1>7, <1>8, <1>9 DEF IInv

\* Each kind of request, and a login's candidates, of which there are none.
LEMMA Sends ==
  ASSUME IInv,
         \/ \E l \in Logins : SendLogin(l)
         \/ \E r \in Refreshes : SendRefresh(r)
         \/ \E o \in Logouts : SendLogout(o)
  PROVE  IInv'
<1>1. ASSUME NEW l \in Logins, SendLogin(l)
      PROVE  IInv'
  <2>1. /\ cands[l] \in Seq(Tokens) /\ Len(cands[l]) <= 3
        /\ \A i \in 1..Len(cands[l]) : HomeOf(cands[l][i], By[l])
        /\ cands' = [cands EXCEPT ![l] = cands[l]] /\ l \in Requests
    BY <1>1, LoginSent, Kinds DEF IInv, TypeOK, CandsInv, HeldInv
  <2>2. PICK to \in {"insert", "refused"} : pc' = [pc EXCEPT ![l] = to]
    BY <1>1, LoginSent
  <2> QED BY <1>1, <2>1, <2>2, LoginSent, SendStep
<1>2. ASSUME NEW r \in Refreshes, SendRefresh(r)
      PROVE  IInv'
  <2>1. PICK c \in Seq(Tokens), to \in {"select", "refused"} :
              /\ pc' = [pc EXCEPT ![r] = to] /\ cands' = [cands EXCEPT ![r] = c]
              /\ to = "select" => c # <<>>
              /\ Len(c) <= 3 /\ \A i \in 1..Len(c) : HomeOf(c[i], By[r])
    BY <1>2, RefreshSent
  <2>2. r \in Requests
    BY Kinds
  <2> QED BY <1>2, <2>1, <2>2, RefreshSent, SendStep
<1>3. ASSUME NEW o \in Logouts, SendLogout(o)
      PROVE  IInv'
  <2>1. PICK c \in Seq(Tokens), to \in {"revoke", "cleared"} :
              /\ pc' = [pc EXCEPT ![o] = to] /\ cands' = [cands EXCEPT ![o] = c]
              /\ to = "revoke" => c # <<>>
              /\ Len(c) <= 3 /\ \A i \in 1..Len(c) : HomeOf(c[i], By[o])
    BY <1>3, LogoutSent
  <2>2. o \in Requests
    BY Kinds
  <2> QED BY <1>3, <2>1, <2>2, LogoutSent, SendStep
<1> QED BY <1>1, <1>2, <1>3

-----------------------------------------------------------------------------
(* The table.                                                              *)

\* A token lives in one row, and the row and the token are of one browser: what
\* a request writes to rows of its browser ends no other browser's session.
LEMMA OtherBrowser ==
  ASSUME IInv, NEW b \in Browsers, NEW l \in Logins, By[l] # b,
         rows[l].tok # None
  PROVE  /\ jar[b].refresh # None => rows[l].tok # jar[b].refresh
         /\ \A q \in Requests : By[q] = b /\ pc[q] = "granted" => rows[l].tok # reply[q]
<1>1. RowOf(rows[l].tok, l)
  BY DEF IInv, RowsInv
<1>2. rows[l].tok # Stale /\ By[rows[l].tok[1]] # b
  BY <1>1, TokenFacts DEF RowOf
<1> QED BY <1>2 DEF IInv, HeldInv, HomeOf

LEMMA InsertStep ==
  ASSUME IInv, NEW l \in Logins, InsertRow(l)
  PROVE  IInv'
<1> DEFINE row == [tok |-> <<l, 0>>, fresh |-> TRUE, revoked |-> FALSE]
<1>1. /\ pc[l] = "insert" /\ UNCHANGED <<jar, cands, sel, retired, racing>>
      /\ rows[l].tok = None /\ <<l, 0>> \notin Used
      /\ l \in Requests /\ <<l, 0>> \in Requests \X (0..3)
      /\ <<l, 0>> \in Tokens /\ <<l, 0>> # Stale /\ <<l, 0>> # None /\ <<l, 0>>[1] = l
  BY Kinds, TokenFacts DEF InsertRow, IInv, RowsInv, FreshInv
<1>2. rows' = rows \/ rows' = [rows EXCEPT ![l] = row]
  BY DEF InsertRow
<1>3. \/ /\ rows' = [rows EXCEPT ![l] = row] /\ disturbed' = disturbed
         /\ reply' = [reply EXCEPT ![l] = <<l, 0>>]
         /\ pc' = [pc EXCEPT ![l] = "granted"]
      \/ /\ rows' = rows \/ By[l] \in disturbed'
         /\ disturbed' \in {disturbed, disturbed \cup {By[l]}}
         /\ reply' = reply
         /\ pc' = [pc EXCEPT ![l] = "half"]
  BY DEF InsertRow, Disturb
<1>4. /\ \A q \in Requests : q # l => pc'[q] = pc[q] /\ reply'[q] = reply[q]
      /\ pc'[l] \in {"granted", "half"} /\ (pc'[l] = "granted" => reply'[l] = <<l, 0>>)
      /\ \A m \in Logins : m # l => rows'[m] = rows[m]
      /\ rows'[l].tok \in {None, <<l, 0>>} /\ (rows'[l].tok = None => rows'[l] = rows[l])
      /\ rows'[l].tok = <<l, 0>> => ~rows'[l].revoked
      /\ disturbed \subseteq disturbed'
  BY <1>1, <1>2, <1>3 DEF IInv, TypeOK
<1>5. TypeOK'
  <2>1. rows' \in [Logins -> [tok: Tokens \cup {None}, fresh: BOOLEAN, revoked: BOOLEAN]]
    <3>1. row \in [tok: Tokens \cup {None}, fresh: BOOLEAN, revoked: BOOLEAN]
      BY <1>1
    <3> HIDE DEF row
    <3> QED BY <1>2, <3>1 DEF IInv, TypeOK
  <2>2. disturbed' \subseteq Browsers
    BY <1>1, <1>3, ByType DEF IInv, TypeOK
  <2>3. pc' \in [Requests -> Steps \cup Replies \cup {"done"}]
    BY <1>1, <1>3 DEF IInv, TypeOK, Replies
  <2>4. reply' \in [Requests -> Tokens \cup {None}]
    BY <1>1, <1>3 DEF IInv, TypeOK
  <2> QED BY <1>1, <2>1, <2>2, <2>3, <2>4 DEF IInv, TypeOK
<1>6. KindsInv' /\ CandsInv' /\ AccessInv'
  BY <1>1, <1>4, Kinds DEF IInv, KindsInv, CandsInv, AccessInv
<1>7. PicksInv' /\ RaceInv'
  <2> SUFFICES ASSUME NEW r \in Refreshes
               PROVE  /\ pc'[r] \in {"update", "granted"} => sel'[r] # None
                      /\ sel'[r] # None => /\ By[sel'[r]] = By[r] /\ pc'[sel'[r]] = "done"
                                           /\ rows'[sel'[r]].tok # None
                      /\ pc'[r] = "update" /\ rows'[sel'[r]].revoked => r \in racing'[sel'[r]]
    BY DEF PicksInv, RaceInv
  <2>1. sel'[r] = sel[r] /\ pc'[r] = pc[r] /\ sel[r] \in Logins \cup {None} /\ sel[r] # l
    BY <1>1, <1>4, Kinds, ByType DEF IInv, TypeOK, PicksInv
  <2>2. sel[r] # None => pc'[sel[r]] = pc[sel[r]] /\ rows'[sel[r]] = rows[sel[r]]
    BY <1>4, <2>1, Kinds
  <2> QED BY <1>1, <2>1, <2>2 DEF IInv, PicksInv, RaceInv
<1>8. RowsInv'
  BY <1>1, <1>4, Kinds DEF IInv, RowsInv, RowOf, Used
<1>9. FreshInv'
  BY SMTT(30), <1>1, <1>4, Kinds DEF IInv, FreshInv, Used
<1>10. HeldInv'
  BY <1>1, <1>4 DEF IInv, HeldInv, HomeOf, Requests
<1>11. LiveInv'
  <2> SUFFICES ASSUME NEW b \in Browsers, b \notin disturbed'
               PROVE  BrowserLive(b)'
    BY DEF LiveInv
  <2>1. BrowserLive(b)
    BY <1>4 DEF IInv, LiveInv
  <2>2. \A t : t # None /\ Alive(t) => Alive(t)'
    BY <1>1, <1>4 DEF Alive
  <2>3. pc'[l] = "granted" => Alive(<<l, 0>>)'
    <3> SUFFICES ASSUME pc'[l] = "granted"
                 PROVE  rows'[l].tok = <<l, 0>> /\ ~rows'[l].revoked
      BY DEF Alive
    <3>1. rows' = [rows EXCEPT ![l] = row] /\ rows \in [Logins -> [tok: Tokens \cup {None}, fresh: BOOLEAN, revoked: BOOLEAN]]
      BY <1>1, <1>3 DEF IInv, TypeOK
    <3> QED BY <3>1
  <2>4. \A q \in Requests : q # l /\ pc'[q] = "granted" => reply[q] # None
    BY <1>4, TokenFacts DEF IInv, HeldInv
  <2>5. \A p, q \in Requests : By[p] = b /\ By[q] = b /\ InFlight(p)' /\ InFlight(q)' => p = q
    BY <1>1, <1>4, <2>1 DEF BrowserLive, InFlight
  <2>6. \A q \in Requests : By[q] = b /\ pc'[q] = "granted" => Alive(reply[q])'
    BY <1>4, <2>1, <2>2, <2>3, <2>4 DEF BrowserLive, Alive
  <2>7. \/ jar'[b].refresh = None
        \/ Alive(jar[b].refresh)'
        \/ \E q \in Requests : By[q] = b /\ pc'[q] \in {"granted", "cleared"}
    BY <1>1, <1>4, <2>1, <2>2 DEF BrowserLive, Alive
  <2> QED BY <2>5, <2>6, <2>7 DEF BrowserLive
<1> QED BY <1>5, <1>6, <1>7, <1>8, <1>9, <1>10, <1>11 DEF IInv

LEMMA ExpireStep ==
  ASSUME IInv, NEW l \in Logins, Expire(l)
  PROVE  IInv'
<1>1. /\ UNCHANGED <<jar, pc, cands, sel, reply, retired, racing, disturbed>>
      /\ rows' = [rows EXCEPT ![l].fresh = FALSE]
  BY DEF Expire, handlerVars, history
<1>2. rows \in [Logins -> [tok: Tokens \cup {None}, fresh: BOOLEAN, revoked: BOOLEAN]]
  BY DEF IInv, TypeOK
<1>3. /\ rows' \in [Logins -> [tok: Tokens \cup {None}, fresh: BOOLEAN, revoked: BOOLEAN]]
      /\ \A m \in Logins : rows'[m].tok = rows[m].tok /\ rows'[m].revoked = rows[m].revoked
  BY <1>1, <1>2
<1>4. TypeOK'
  BY <1>1, <1>3 DEF IInv, TypeOK
<1>5. KindsInv' /\ CandsInv' /\ AccessInv'
  BY <1>1 DEF IInv, KindsInv, CandsInv, AccessInv
<1>6. PicksInv' /\ RaceInv'
  <2>1. \A r \in Refreshes : sel[r] \in Logins \cup {None}
    BY Kinds DEF IInv, TypeOK
  <2> QED BY <1>1, <1>3, <2>1 DEF IInv, PicksInv, RaceInv
<1>7. RowsInv' /\ FreshInv' /\ HeldInv'
  <2>1. RowsInv' /\ HeldInv'
    BY <1>1, <1>3 DEF IInv, RowsInv, RowOf, HeldInv, HomeOf
  <2>2. Used' = Used
    BY <1>1, <1>3 DEF Used
  <2>3. FreshInv'
    BY <1>1, <1>3, <2>2 DEF IInv, FreshInv
  <2> QED BY <2>1, <2>3
<1>8. LiveInv'
  BY <1>1, <1>3 DEF IInv, LiveInv, BrowserLive, Alive, InFlight
<1> QED BY <1>4, <1>5, <1>6, <1>7, <1>8 DEF IInv

-----------------------------------------------------------------------------
(* Rotation.                                                               *)

\* What SelectRow and UpdateRow do to the candidates when one failed.
LEMMA NextFacts ==
  ASSUME IInv, NEW r \in Refreshes, pc[r] \in {"select", "update"}, NextCandidate(r)
  PROVE  /\ cands' \in [Requests -> Seq(Tokens)]
         /\ \A q \in Requests : q # r => cands'[q] = cands[q] /\ pc'[q] = pc[q]
         /\ Len(cands'[r]) = Len(cands[r]) - 1
         /\ \A i \in 1..Len(cands'[r]) : i + 1 \in 1..Len(cands[r]) /\ cands'[r][i] = cands[r][i + 1]
         /\ pc' \in [Requests -> Steps \cup Replies \cup {"done"}]
         /\ pc'[r] \in {"select", "refused"}
         /\ pc'[r] = "select" => cands'[r] # <<>>
<1>1. /\ cands \in [Requests -> Seq(Tokens)] /\ cands[r] \in Seq(Tokens) /\ cands[r] # <<>>
      /\ pc \in [Requests -> Steps \cup Replies \cup {"done"}] /\ r \in Requests
  BY Kinds DEF IInv, TypeOK, CandsInv
<1>2. /\ cands' = [cands EXCEPT ![r] = Tail(cands[r])]
      /\ pc' = [pc EXCEPT ![r] = IF Len(cands[r]) > 1 THEN "select" ELSE "refused"]
  BY DEF NextCandidate
<1>3. cands'[r] = Tail(cands[r])
  BY <1>1, <1>2
<1>4. /\ Tail(cands[r]) \in Seq(Tokens) /\ Len(Tail(cands[r])) = Len(cands[r]) - 1
      /\ \A i \in 1..Len(Tail(cands[r])) : i + 1 \in 1..Len(cands[r]) /\ Tail(cands[r])[i] = cands[r][i + 1]
  BY <1>1, TailFacts
<1>5. Len(cands[r]) \in Nat /\ (Len(cands[r]) > 1 => Tail(cands[r]) # <<>>)
  BY <1>1, TailFacts
<1> QED BY <1>1, <1>2, <1>3, <1>4, <1>5 DEF Steps, Replies

\* The candidate failed and nothing else happened.
LEMMA NextStep ==
  ASSUME IInv, NEW r \in Refreshes, pc[r] \in {"select", "update"}, NextCandidate(r),
         UNCHANGED <<rows, jar, sel, reply, retired, racing, disturbed>>
  PROVE  IInv'
<1>0. /\ UNCHANGED <<rows, jar, sel, reply, retired, racing, disturbed>>
      /\ pc[r] \in {"select", "update"} /\ r \in Requests
      /\ cands[r] \in Seq(Tokens) /\ cands[r] # <<>>
      /\ pc \in [Requests -> Steps \cup Replies \cup {"done"}]
      /\ sel \in [Requests -> Logins \cup {None}]
  BY Kinds DEF IInv, TypeOK, CandsInv
<1>1. /\ cands' \in [Requests -> Seq(Tokens)] /\ pc' \in [Requests -> Steps \cup Replies \cup {"done"}]
      /\ \A q \in Requests : q # r => cands'[q] = cands[q] /\ pc'[q] = pc[q]
      /\ Len(cands'[r]) = Len(cands[r]) - 1
      /\ \A i \in 1..Len(cands'[r]) : i + 1 \in 1..Len(cands[r]) /\ cands'[r][i] = cands[r][i + 1]
      /\ pc'[r] \in {"select", "refused"} /\ (pc'[r] = "select" => cands'[r] # <<>>)
      /\ sel' = sel /\ Len(cands[r]) \in Nat
  BY <1>0, NextFacts
<1>2. TypeOK'
  BY <1>0, <1>1 DEF IInv, TypeOK
<1>3. KindsInv' /\ CandsInv' /\ AccessInv'
  <2>1. KindsInv'
    BY <1>0, <1>1, Kinds DEF IInv, KindsInv
  <2>2. CandsInv'
    <3>1. Len(cands[r]) <= 3
      BY <1>0 DEF IInv, CandsInv
    <3>2. Len(cands'[r]) <= 3
      BY <1>1, <3>1
    <3>3. pc'[r] \in {"select", "update", "revoke"} => cands'[r] # <<>>
      BY <1>1
    <3>4. \A q \in Requests : q # r => Len(cands'[q]) <= 3 /\
             (pc'[q] \in {"select", "update", "revoke"} => cands'[q] # <<>>)
      BY <1>1 DEF IInv, CandsInv
    <3> QED BY <3>2, <3>3, <3>4 DEF CandsInv
  <2>3. AccessInv'
    BY <1>0, <1>1, Kinds DEF IInv, AccessInv
  <2> QED BY <2>1, <2>2, <2>3
<1>4. PicksInv' /\ RaceInv'
  BY <1>0, <1>1, Kinds DEF IInv, PicksInv, RaceInv
<1>5. RowsInv'
  BY <1>0, <1>1, Kinds DEF IInv, RowsInv, RowOf
<1>6. FreshInv'
  <2>1. Used' = Used
    BY <1>0 DEF Used
  <2>2. \A l \in Logins : <<l, 0>> \in Used => pc'[l] \notin {"idle", "insert"}
    BY <1>1, Kinds DEF IInv, FreshInv
  <2>3. \A q \in Refreshes, n \in 0..3 : <<q, n>> \in Used =>
           pc'[q] # "idle" /\ (pc'[q] \in {"select", "update"} => Len(cands'[q]) < n)
    <3>1. \A n \in 0..3 : <<r, n>> \in Used => Len(cands[r]) < n
      BY <1>0 DEF IInv, FreshInv
    <3> DEFINE k == Len(cands[r])
    <3>2. Len(cands'[r]) = k - 1 /\ k \in Nat
      BY <1>1
    <3>3. \A n \in 0..3 : <<r, n>> \in Used => k - 1 < n
      <4> HIDE DEF k
      <4> SUFFICES ASSUME NEW n \in 0..3, k < n PROVE k - 1 < n
        BY <3>1 DEF k
      <4> QED BY <3>2
    <3> QED BY <1>1, <3>2, <3>3, Kinds DEF IInv, FreshInv
  <2> QED BY <1>0, <2>1, <2>2, <2>3 DEF IInv, FreshInv
<1>7. HeldInv'
  <2>1. \A t, b : HomeOf(t, b) => HomeOf(t, b)'
    BY <1>0, <1>1, Kinds DEF HomeOf
  <2>2. ASSUME NEW q \in Requests, NEW i \in 1..Len(cands'[q])
        PROVE  HomeOf(cands'[q][i], By[q])
    BY <1>1 DEF IInv, HeldInv
  <2> QED BY <1>0, <1>1, <2>1, <2>2 DEF IInv, HeldInv
<1>8. LiveInv'
  <2>1. \A t : Alive(t)' <=> Alive(t)
    BY <1>0 DEF Alive
  <2>2. ASSUME NEW b \in Browsers, BrowserLive(b)
        PROVE  BrowserLive(b)'
    BY <1>0, <1>1, <2>1, <2>2 DEF BrowserLive, InFlight
  <2> QED BY <1>0, <2>2 DEF IInv, LiveInv
<1> QED BY <1>2, <1>3, <1>4, <1>5, <1>6, <1>7, <1>8 DEF IInv

LEMMA SelectStep ==
  ASSUME IInv, NEW r \in Refreshes, SelectRow(r)
  PROVE  IInv'
<1>1. /\ UNCHANGED <<rows, jar, reply, retired, racing, disturbed>>
      /\ pc[r] = "select" /\ r \in Requests
      /\ cands[r] \in Seq(Tokens) /\ cands[r] # <<>>
      /\ pc \in [Requests -> Steps \cup Replies \cup {"done"}]
      /\ sel \in [Requests -> Logins \cup {None}]
  BY Kinds DEF SelectRow, history, IInv, TypeOK, CandsInv
<1>2. CASE \E l \in Logins : /\ Usable(l, Head(cands[r]))
                             /\ sel' = [sel EXCEPT ![r] = l]
                             /\ pc' = [pc EXCEPT ![r] = "update"]
                             /\ UNCHANGED cands
  <2>1. PICK l \in Logins : /\ Usable(l, Head(cands[r]))
                            /\ sel' = [sel EXCEPT ![r] = l]
                            /\ pc' = [pc EXCEPT ![r] = "update"]
                            /\ UNCHANGED cands
    BY <1>2
  <2>2. /\ Head(cands[r]) \in Tokens /\ HomeOf(Head(cands[r]), By[r])
        /\ rows[l].tok = Head(cands[r]) /\ ~rows[l].revoked
    BY <1>1, <2>1, TailFacts DEF IInv, HeldInv, Usable
  <2>3. /\ rows[l].tok # None /\ RowOf(rows[l].tok, l) /\ rows[l].tok # Stale
        /\ rows[l].tok[1] \in Requests
    BY <2>2, TokenFacts DEF IInv, RowsInv, RowOf
  <2>4. By[l] = By[r] /\ pc[l] = "done"
    BY <2>2, <2>3 DEF RowOf, HomeOf
  <2>5. /\ \A q \in Requests : q # r => pc'[q] = pc[q] /\ sel'[q] = sel[q]
        /\ pc'[r] = "update" /\ sel'[r] = l /\ l \in Requests /\ l # r
    BY <1>1, <2>1, Kinds
  <2>6. TypeOK'
    BY <1>1, <2>1 DEF IInv, TypeOK, Steps
  <2>7. KindsInv' /\ CandsInv' /\ AccessInv'
    BY <1>1, <2>1, <2>5, Kinds DEF IInv, KindsInv, CandsInv, AccessInv
  <2>8. PicksInv' /\ RaceInv'
    <3> SUFFICES ASSUME NEW q \in Refreshes
                 PROVE  /\ pc'[q] \in {"update", "granted"} => sel'[q] # None
                        /\ sel'[q] # None => /\ By[sel'[q]] = By[q] /\ pc'[sel'[q]] = "done"
                                             /\ rows'[sel'[q]].tok # None
                        /\ pc'[q] = "update" /\ rows'[sel'[q]].revoked => q \in racing'[sel'[q]]
      BY DEF PicksInv, RaceInv
    <3>1. CASE q = r
      BY <1>1, <2>2, <2>3, <2>4, <2>5, <3>1, ByType
    <3>2. CASE q # r
      <4>1. sel'[q] = sel[q] /\ pc'[q] = pc[q] /\ sel[q] \in Logins \cup {None}
        BY <1>1, <2>5, <3>2, Kinds
      <4>2. sel[q] # None => pc'[sel[q]] = pc[sel[q]]
        BY <1>1, <2>5, <4>1, Kinds
      <4> QED BY <1>1, <4>1, <4>2 DEF IInv, PicksInv, RaceInv
    <3> QED BY <3>1, <3>2
  <2>9. RowsInv' /\ FreshInv' /\ HeldInv'
    <3>1. RowsInv'
      BY <1>1, <2>1, <2>5, Kinds DEF IInv, RowsInv, RowOf
    <3>2. FreshInv'
      BY <1>1, <2>1, <2>5, Kinds DEF IInv, FreshInv, Used
    <3>3. HeldInv'
      BY <1>1, <2>1, <2>5, Kinds DEF IInv, HeldInv, HomeOf, Requests
    <3> QED BY <3>1, <3>2, <3>3
  <2>10. LiveInv'
    BY <1>1, <2>5 DEF IInv, LiveInv, BrowserLive, Alive, InFlight
  <2> QED BY <2>6, <2>7, <2>8, <2>9, <2>10 DEF IInv
<1>3. CASE NextCandidate(r) /\ UNCHANGED sel
  BY <1>1, <1>3, NextStep
<1> QED BY <1>2, <1>3 DEF SelectRow

\* The row loses its token, which is retired, to one that was never used.
LEMMA RotatedFacts ==
  ASSUME IInv, NEW r \in Refreshes, pc[r] = "update", Rotated(r, sel[r])
  PROVE  LET l == sel[r]
             new == <<r, Len(cands[r])>>
         IN  /\ l \in Logins /\ By[l] = By[r] /\ pc[l] = "done" /\ rows[l].tok # None
             /\ new \in (Refreshes \X (0..3)) /\ RowOf(new, l) /\ new \notin Used
             /\ rows' \in [Logins -> [tok: Tokens \cup {None}, fresh: BOOLEAN, revoked: BOOLEAN]]
             /\ \A m \in Logins : m # l => rows'[m] = rows[m]
             /\ rows'[l].tok = new /\ ~rows'[l].revoked
             /\ retired' = retired \cup {rows[l].tok}
             /\ retired' \subseteq Tokens
<1> DEFINE l == sel[r]
           new == <<r, Len(cands[r])>>
           row == [tok |-> new, fresh |-> TRUE, revoked |-> FALSE]
<1>1. l \in Logins /\ By[l] = By[r] /\ pc[l] = "done" /\ rows[l].tok # None
  BY Kinds DEF IInv, PicksInv, TypeOK
<1>2. Len(cands[r]) \in 0..3
  <2> DEFINE k == Len(cands[r])
  <2>1. r \in Requests /\ cands[r] \in Seq(Tokens) /\ k <= 3
    BY Kinds DEF IInv, CandsInv, TypeOK
  <2>2. k \in Nat
    BY <2>1
  <2> HIDE DEF k
  <2>3. k \in 0..3
    BY <2>1, <2>2
  <2> QED BY <2>3 DEF k
<1>3. /\ new \in (Refreshes \X (0..3)) /\ new[1] = r /\ new \in (Logins \cup Refreshes) \X (0..3)
      /\ new \in Tokens
  BY <1>2, TokenFacts
<1>4. RowOf(new, l)
  BY <1>1, <1>3, Kinds DEF RowOf
<1>5. new \notin Used
  <2> DEFINE k == Len(cands[r])
  <2>1. k \in 0..3
    BY <1>2
  <2>2. <<r, k>> \in Used => k < k
    BY <2>1 DEF IInv, FreshInv
  <2> HIDE DEF k
  <2>3. <<r, k>> \notin Used
    BY <2>1, <2>2
  <2> QED BY <2>3 DEF k
<1>6. row \in [tok: Tokens \cup {None}, fresh: BOOLEAN, revoked: BOOLEAN]
      /\ row.tok = new /\ ~row.revoked
  BY <1>3
<1>7. rows' = [rows EXCEPT ![l] = row] /\ retired' = retired \cup {rows[l].tok}
  BY DEF Rotated
<1>8. rows \in [Logins -> [tok: Tokens \cup {None}, fresh: BOOLEAN, revoked: BOOLEAN]] /\ retired \subseteq Tokens
  BY DEF IInv, TypeOK
<1> HIDE DEF l, new, row
<1>9. /\ rows' \in [Logins -> [tok: Tokens \cup {None}, fresh: BOOLEAN, revoked: BOOLEAN]]
      /\ \A m \in Logins : m # l => rows'[m] = rows[m]
      /\ rows'[l].tok = new /\ ~rows'[l].revoked /\ retired' \subseteq Tokens
  BY <1>1, <1>6, <1>7, <1>8
<1> QED BY <1>1, <1>3, <1>4, <1>5, <1>7, <1>9 DEF l, new

LEMMA RotateStep ==
  ASSUME IInv, NEW r \in Refreshes, pc[r] = "update", Rotated(r, sel[r]),
         UNCHANGED <<jar, sel, racing>>,
         pc' \in [Requests -> Steps \cup Replies \cup {"done"}],
         cands' \in [Requests -> Seq(Tokens)], reply' \in [Requests -> Tokens \cup {None}],
         \A q \in Requests : q # r => pc'[q] = pc[q] /\ cands'[q] = cands[q] /\ reply'[q] = reply[q],
         pc'[r] \in {"granted", "select", "refused"},
         pc'[r] = "granted" => reply'[r] = <<r, Len(cands[r])>>,
         pc'[r] = "granted" \/ By[r] \in disturbed',
         Len(cands'[r]) \in 0..Len(cands[r]),
         \A i \in 1..Len(cands'[r]) : \E j \in 1..Len(cands[r]) : cands'[r][i] = cands[r][j],
         pc'[r] = "select" => Len(cands'[r]) < Len(cands[r]) /\ cands'[r] # <<>>,
         disturbed \subseteq disturbed', disturbed' \subseteq Browsers
  PROVE  IInv'
<1> DEFINE l == sel[r]
           new == <<r, Len(cands[r])>>
<1>1. /\ l \in Logins /\ By[l] = By[r] /\ pc[l] = "done" /\ rows[l].tok # None
      /\ new \in (Refreshes \X (0..3)) /\ RowOf(new, l) /\ new \notin Used
      /\ rows' \in [Logins -> [tok: Tokens \cup {None}, fresh: BOOLEAN, revoked: BOOLEAN]]
      /\ \A m \in Logins : m # l => rows'[m] = rows[m]
      /\ rows'[l].tok = new /\ ~rows'[l].revoked
      /\ retired' = retired \cup {rows[l].tok}
      /\ retired' \subseteq Tokens
  BY RotatedFacts
<1>2. r \in Requests /\ l \in Requests /\ new # None /\ new[1] = r /\ new \in Requests \X (0..3)
  BY <1>1, Kinds, TokenFacts DEF RowOf
<1>3. TypeOK'
  BY <1>1 DEF IInv, TypeOK
<1>4. KindsInv' /\ AccessInv'
  <2>1. KindsInv'
    BY <1>2, Kinds DEF IInv, KindsInv
  <2>2. \A m \in Logins : pc'[m] = pc[m]
    BY Kinds
  <2> QED BY <2>1, <2>2 DEF IInv, AccessInv
<1>5. CandsInv'
  <2>1. Len(cands[r]) <= 3 /\ Len(cands[r]) \in Nat
    BY <1>2 DEF IInv, CandsInv, TypeOK
  <2>2. Len(cands'[r]) <= 3
    BY <2>1
  <2> QED BY <2>2 DEF IInv, CandsInv
<1>6. PicksInv' /\ RaceInv'
  <2> SUFFICES ASSUME NEW q \in Refreshes
               PROVE  /\ pc'[q] \in {"update", "granted"} => sel'[q] # None
                      /\ sel'[q] # None => /\ By[sel'[q]] = By[q] /\ pc'[sel'[q]] = "done"
                                           /\ rows'[sel'[q]].tok # None
                      /\ pc'[q] = "update" /\ rows'[sel'[q]].revoked => q \in racing'[sel'[q]]
    BY DEF PicksInv, RaceInv
  <2>1. sel'[q] = sel[q] /\ sel[q] \in Logins \cup {None} /\ (sel[q] # None => sel[q] \in Requests /\ sel[q] # r)
    BY Kinds DEF IInv, TypeOK
  <2>2. /\ pc'[q] = pc[q] \/ (q = r /\ sel[q] # None /\ pc'[q] # "update")
        /\ sel[q] # None => pc'[sel[q]] = pc[sel[q]]
    BY <1>1, <1>2, <2>1, ByType, Kinds
  <2>3. sel[q] # None => rows'[sel[q]].tok # None /\ (rows'[sel[q]].revoked => rows[sel[q]].revoked)
    BY <1>1, <1>2, <2>1 DEF IInv, PicksInv
  <2> QED BY <2>1, <2>2, <2>3 DEF IInv, PicksInv, RaceInv
<1>7. RowsInv'
  <2>1. \A m \in Logins : rows[m].tok # new
    BY <1>1 DEF Used
  <2>2. \A m \in Logins : \A t : RowOf(t, m) => RowOf(t, m)'
    BY <1>2, Kinds DEF RowOf, IInv, KindsInv
  <2>3. ASSUME NEW m \in Logins
        PROVE  /\ rows'[m].tok # None => RowOf(rows'[m].tok, m)
               /\ rows'[m].tok = None => ~rows'[m].revoked
               /\ pc'[m] \in {"idle", "insert"} => rows'[m].tok = None
    <3>1. /\ rows[m].tok # None => RowOf(rows[m].tok, m)
          /\ rows[m].tok = None => ~rows[m].revoked
          /\ pc[m] \in {"idle", "insert"} => rows[m].tok = None
      BY DEF IInv, RowsInv
    <3>2. pc'[m] = pc[m]
      BY <1>1, Kinds
    <3>3. CASE m = l
      <4>1. rows[l].tok # None
        BY <1>1 DEF IInv, PicksInv
      <4> QED BY <1>1, <1>2, <3>1, <3>2, <3>3, <4>1
    <3>4. CASE m # l
      BY <1>1, <3>1, <3>2, <3>4
    <3> QED BY <3>3, <3>4
  <2>4. \A m, n \in Logins : rows'[m].tok = rows'[n].tok => m = n \/ rows'[m].tok = None
    <3> SUFFICES ASSUME NEW m \in Logins, NEW n \in Logins, m # n, rows'[m].tok = rows'[n].tok
                 PROVE  rows'[m].tok = None
      OBVIOUS
    <3>1. CASE m = l
      BY <1>1, <2>1, <3>1
    <3>2. CASE n = l
      BY <1>1, <2>1, <3>2
    <3>3. CASE m # l /\ n # l
      BY <1>1, <3>3 DEF IInv, RowsInv
    <3> QED BY <3>1, <3>2, <3>3
  <2>5. \A m \in Logins : RowOf(rows'[m].tok, m) => RowOf(rows[m].tok, m)'
    BY <1>2, Kinds DEF RowOf
  <2> QED BY <2>3, <2>4, <2>5 DEF RowsInv
<1>8. FreshInv'
  <2>1. \A t : t \in Used' => t \in Used \/ t = new
    <3>1. \A m \in Logins : rows'[m].tok \in {rows[m].tok, new}
      BY <1>1
    <3> QED BY SMTT(30), <1>1, <3>1 DEF Used
  <2>2. \A m \in Logins : <<m, 0>> \in Used' => pc'[m] \notin {"idle", "insert"}
    BY <1>2, <2>1, Kinds DEF IInv, FreshInv
  <2>3. ASSUME NEW q \in Refreshes, NEW n \in 0..3, <<q, n>> \in Used'
        PROVE  pc'[q] # "idle" /\ (pc'[q] \in {"select", "update"} => Len(cands'[q]) < n)
    <3>1. CASE q # r
      BY <1>2, <2>1, <2>3, <3>1, Kinds DEF IInv, FreshInv
    <3>2. CASE q = r
      <4> DEFINE k == Len(cands[r])
      <4>1. n = k \/ k < n
        BY <2>1, <2>3, <3>2 DEF IInv, FreshInv
      <4>2. k \in Nat /\ Len(cands'[r]) \in 0..k /\ (pc'[r] = "select" => Len(cands'[r]) < k)
        BY <1>2 DEF IInv, TypeOK
      <4> HIDE DEF k
      <4>3. pc'[r] = "select" => Len(cands'[r]) < n
        BY <4>1, <4>2
      <4> QED BY <3>2, <4>3
    <3> QED BY <3>1, <3>2
  <2>4. \A m \in Logins : rows'[m].tok \notin retired'
    <3>1. rows[l].tok # new /\ new \notin retired
      BY <1>1 DEF Used
    <3>2. \A m \in Logins : m # l => rows[m].tok # rows[l].tok
      BY <1>1 DEF IInv, RowsInv
    <3>3. \A m \in Logins : rows[m].tok \notin retired
      BY DEF IInv, FreshInv
    <3>4. ASSUME NEW m \in Logins
          PROVE  rows'[m].tok \notin retired \cup {rows[l].tok}
      <4>1. CASE m = l
        BY <1>1, <3>1, <4>1
      <4>2. CASE m # l
        BY <1>1, <3>2, <3>3, <4>2
      <4> QED BY <4>1, <4>2
    <3> QED BY <1>1, <3>4
  <2> QED BY <2>2, <2>3, <2>4 DEF FreshInv
<1>9. HeldInv'
  <2>1. \A t, b : HomeOf(t, b) => HomeOf(t, b)'
    BY <1>2, Kinds DEF HomeOf
  <2>2. ASSUME NEW q \in Requests, NEW i \in 1..Len(cands'[q])
        PROVE  HomeOf(cands'[q][i], By[q])
    <3>1. CASE q = r
      <4>1. PICK j \in 1..Len(cands[r]) : cands'[r][i] = cands[r][j]
        BY <3>1
      <4> QED BY <1>2, <3>1, <4>1 DEF IInv, HeldInv
    <3>2. CASE q # r
      BY <3>2 DEF IInv, HeldInv
    <3> QED BY <3>1, <3>2
  <2>3. ASSUME NEW q \in Requests, pc'[q] = "granted"
        PROVE  /\ reply'[q] \in Requests \X (0..3)
               /\ By[reply'[q][1]] = By[q]
               /\ reply'[q][1] \in Logins => reply'[q][1] = q
    <3>1. CASE q = r
      BY <1>2, <2>3, <3>1, Kinds
    <3>2. CASE q # r
      BY <2>3, <3>2 DEF IInv, HeldInv
    <3> QED BY <3>1, <3>2
  <2> QED BY <2>1, <2>2, <2>3 DEF IInv, HeldInv
<1>10. LiveInv'
  <2> SUFFICES ASSUME NEW b \in Browsers, b \notin disturbed'
               PROVE  BrowserLive(b)'
    BY DEF LiveInv
  <2>1. BrowserLive(b)
    BY DEF IInv, LiveInv
  <2>2. \A p, q \in Requests : By[p] = b /\ By[q] = b /\ InFlight(p)' /\ InFlight(q)' => p = q
    BY <1>2, <2>1 DEF BrowserLive, InFlight
  <2>3. CASE By[r] # b
    <3>1. /\ jar[b].refresh # None => rows[l].tok # jar[b].refresh
          /\ \A q \in Requests : By[q] = b /\ pc[q] = "granted" => rows[l].tok # reply[q]
      BY <1>1, <2>3, OtherBrowser
    <3>2. \A q \in Requests : By[q] = b /\ pc'[q] = "granted" => Alive(reply[q])'
      <4> SUFFICES ASSUME NEW q \in Requests, By[q] = b, pc'[q] = "granted"
                   PROVE  Alive(reply[q])'
        OBVIOUS
      <4>1. q # r /\ pc[q] = "granted" /\ reply'[q] = reply[q]
        BY <2>3
      <4>2. PICK m \in Logins : rows[m].tok = reply[q] /\ ~rows[m].revoked
        BY <2>1, <4>1 DEF BrowserLive, Alive
      <4>3. rows'[m] = rows[m]
        BY <1>1, <3>1, <4>1, <4>2
      <4> QED BY <4>1, <4>2, <4>3 DEF Alive
    <3>3. \/ jar'[b].refresh = None
          \/ Alive(jar[b].refresh)'
          \/ \E q \in Requests : By[q] = b /\ pc'[q] \in {"granted", "cleared"}
      BY <1>1, <2>1, <2>3, <3>1 DEF BrowserLive, Alive
    <3> QED BY <2>2, <3>2, <3>3 DEF BrowserLive
  <2>4. CASE By[r] = b
    <3>1. pc'[r] = "granted"
      BY <2>4
    <3>2. \A q \in Requests : By[q] = b /\ pc'[q] = "granted" => q = r
      BY <1>2, <2>4, <3>1, <2>2 DEF InFlight
    <3>3. Alive(reply[r])'
      BY <1>1, <3>1 DEF Alive
    <3> QED BY <1>2, <2>2, <2>4, <3>1, <3>2, <3>3 DEF BrowserLive
  <2> QED BY <2>3, <2>4
<1> QED BY <1>3, <1>4, <1>5, <1>6, <1>7, <1>8, <1>9, <1>10 DEF IInv


LEMMA UpdateStep ==
  ASSUME IInv, NEW r \in Refreshes, UpdateRow(r)
  PROVE  IInv'
<1>1. /\ pc[r] = "update" /\ UNCHANGED <<jar, sel, racing>> /\ r \in Requests
      /\ pc \in [Requests -> Steps \cup Replies \cup {"done"}]
      /\ cands \in [Requests -> Seq(Tokens)] /\ reply \in [Requests -> Tokens \cup {None}]
      /\ disturbed \subseteq Browsers /\ sel[r] \in Logins /\ By[r] \in Browsers
  BY Kinds, ByType DEF UpdateRow, IInv, TypeOK, PicksInv
<1>2. CASE /\ Rotated(r, sel[r])
           /\ reply' = [reply EXCEPT ![r] = rows'[sel[r]].tok]
           /\ pc' = [pc EXCEPT ![r] = "granted"]
           /\ UNCHANGED <<cands, disturbed>>
  <2>1. rows'[sel[r]].tok = <<r, Len(cands[r])>> /\ <<r, Len(cands[r])>> \in Tokens
    BY <1>1, <1>2, RotatedFacts, TokenFacts
  <2>2. pc' \in [Requests -> Steps \cup Replies \cup {"done"}]
        /\ reply' \in [Requests -> Tokens \cup {None}]
    BY <1>1, <1>2, <2>1 DEF Replies
  <2>3. /\ \A q \in Requests : q # r => pc'[q] = pc[q] /\ cands'[q] = cands[q] /\ reply'[q] = reply[q]
        /\ pc'[r] = "granted" /\ reply'[r] = <<r, Len(cands[r])>>
    BY <1>1, <1>2, <2>1
  <2>4. /\ Len(cands'[r]) \in 0..Len(cands[r]) /\ cands'[r] = cands[r]
    BY <1>1, <1>2
  <2>5. /\ cands' \in [Requests -> Seq(Tokens)] /\ disturbed' = disturbed
        /\ \A i \in 1..Len(cands'[r]) : \E j \in 1..Len(cands[r]) : cands'[r][i] = cands[r][j]
    BY <1>1, <1>2
  <2> QED BY <1>1, <1>2, <2>2, <2>3, <2>4, <2>5, RotateStep
<1>3. CASE /\ Rotated(r, sel[r]) /\ Disturb(By[r])
           /\ NextCandidate(r)
           /\ UNCHANGED reply
  <2>1. /\ cands' \in [Requests -> Seq(Tokens)]
        /\ \A q \in Requests : q # r => cands'[q] = cands[q] /\ pc'[q] = pc[q]
        /\ Len(cands'[r]) = Len(cands[r]) - 1
        /\ \A i \in 1..Len(cands'[r]) : i + 1 \in 1..Len(cands[r]) /\ cands'[r][i] = cands[r][i + 1]
        /\ pc' \in [Requests -> Steps \cup Replies \cup {"done"}]
        /\ pc'[r] \in {"select", "refused"}
        /\ pc'[r] = "select" => cands'[r] # <<>>
    BY <1>1, <1>3, NextFacts
  <2>2. cands[r] \in Seq(Tokens) /\ cands'[r] \in Seq(Tokens)
    BY <1>1, <2>1
  <2>3. Len(cands'[r]) \in 0..Len(cands[r]) /\ Len(cands'[r]) < Len(cands[r])
    <3> DEFINE k == Len(cands[r])
               m == Len(cands'[r])
    <3>1. k \in Nat /\ m \in Nat /\ m = k - 1
      BY <2>1, <2>2
    <3> HIDE DEF k, m
    <3>2. m \in 0..k /\ m < k
      BY <3>1
    <3> QED BY <3>2 DEF k, m
  <2>4. \A i \in 1..Len(cands'[r]) : \E j \in 1..Len(cands[r]) : cands'[r][i] = cands[r][j]
    BY <2>1
  <2>5. /\ disturbed \subseteq disturbed' /\ disturbed' \subseteq Browsers /\ By[r] \in disturbed'
        /\ reply' \in [Requests -> Tokens \cup {None}]
        /\ \A q \in Requests : q # r => reply'[q] = reply[q]
    BY <1>1, <1>3 DEF Disturb
  <2> QED BY <1>1, <1>3, <2>1, <2>3, <2>4, <2>5, RotateStep
<1>4. CASE UNCHANGED <<rows, retired, disturbed>> /\ NextCandidate(r) /\ UNCHANGED reply
  BY <1>1, <1>4, NextStep
<1> QED BY <1>2, <1>3, <1>4 DEF UpdateRow


-----------------------------------------------------------------------------
(* Logout.                                                                 *)

LEMMA RevokeStep ==
  ASSUME IInv, NEW o \in Logouts, RevokeRow(o)
  PROVE  IInv'
<1> DEFINE t == Head(cands[o])
           hit == {l \in Logins : rows[l].tok = t}
<1>1. /\ pc[o] = "revoke" /\ pc' = [pc EXCEPT ![o] = "cleared"] /\ o \in Requests
      /\ UNCHANGED <<jar, cands, sel, reply, retired, disturbed>>
      /\ pc \in [Requests -> Steps \cup Replies \cup {"done"}]
      /\ rows \in [Logins -> [tok: Tokens \cup {None}, fresh: BOOLEAN, revoked: BOOLEAN]]
      /\ sel \in [Requests -> Logins \cup {None}]
      /\ cands[o] \in Seq(Tokens) /\ cands[o] # <<>>
  BY Kinds DEF RevokeRow, handlerVars, IInv, TypeOK, CandsInv
<1>2. \/ rows' = rows /\ racing' = racing
      \/ /\ rows' = [l \in Logins |-> IF l \in hit THEN [rows[l] EXCEPT !.revoked = TRUE] ELSE rows[l]]
         /\ racing' = [l \in Logins |-> IF l \in hit
                         THEN {r \in Refreshes : pc[r] = "update" /\ sel[r] = l} ELSE racing[l]]
  BY DEF RevokeRow
<1>3. t \in Tokens /\ t # None /\ HomeOf(t, By[o])
  BY <1>1, TailFacts, TokenFacts DEF IInv, HeldInv
<1>4. \A l \in hit : rows[l].tok # None /\ By[l] = By[o]
  <2> SUFFICES ASSUME NEW l \in Logins, rows[l].tok = t
               PROVE  rows[l].tok # None /\ By[l] = By[o]
    OBVIOUS
  <2>1. RowOf(t, l)
    BY <1>3 DEF IInv, RowsInv
  <2>2. t # Stale
    BY <2>1, TokenFacts DEF RowOf
  <2> QED BY <1>3, <2>1, <2>2 DEF RowOf, HomeOf
<1> HIDE DEF hit, t
<1>5. /\ rows' \in [Logins -> [tok: Tokens \cup {None}, fresh: BOOLEAN, revoked: BOOLEAN]]
      /\ \A l \in Logins : /\ rows'[l].tok = rows[l].tok
                           /\ l \notin hit => rows'[l] = rows[l] /\ racing'[l] = racing[l]
      /\ racing' \in [Logins -> SUBSET Refreshes]
  <2>1. \A l \in Logins :
          /\ [rows[l] EXCEPT !.revoked = TRUE] \in [tok: Tokens \cup {None}, fresh: BOOLEAN, revoked: BOOLEAN]
          /\ [rows[l] EXCEPT !.revoked = TRUE].tok = rows[l].tok
    BY <1>1
  <2>2. rows' \in [Logins -> [tok: Tokens \cup {None}, fresh: BOOLEAN, revoked: BOOLEAN]]
    BY <1>1, <1>2, <2>1
  <2>3. racing' \in [Logins -> SUBSET Refreshes]
    <3>1. racing \in [Logins -> SUBSET Refreshes]
      BY DEF IInv, TypeOK
    <3> QED BY <1>2, <3>1
  <2>4. \A l \in Logins : /\ rows'[l].tok = rows[l].tok
                          /\ l \notin hit => rows'[l] = rows[l] /\ racing'[l] = racing[l]
    BY <1>2, <2>1
  <2> QED BY <2>2, <2>3, <2>4
<1>6. /\ \A q \in Requests : q # o => pc'[q] = pc[q]
      /\ pc'[o] = "cleared"
  BY <1>1
<1>7. TypeOK'
  BY <1>1, <1>5 DEF IInv, TypeOK, Replies
<1>8. KindsInv' /\ CandsInv' /\ AccessInv'
  BY <1>1, <1>6, Kinds DEF IInv, KindsInv, CandsInv, AccessInv
<1>9. PicksInv'
  BY <1>1, <1>5, <1>6, Kinds DEF IInv, PicksInv
<1>10. RaceInv'
  <2> SUFFICES ASSUME NEW r \in Refreshes, pc'[r] = "update", rows'[sel[r]].revoked
               PROVE  r \in racing'[sel[r]]
    BY <1>1 DEF RaceInv
  <2>1. pc[r] = "update" /\ sel[r] \in Logins
    BY <1>1, <1>6, Kinds DEF IInv, PicksInv
  <2>2. CASE sel[r] \notin hit
    BY <1>5, <2>1, <2>2 DEF IInv, RaceInv
  <2>3. CASE sel[r] \in hit
    BY <1>2, <2>1, <2>3 DEF IInv, RaceInv
  <2> QED BY <2>2, <2>3
<1>11. RowsInv'
  <2>1. \A l \in Logins : rows'[l].tok = None => ~rows'[l].revoked
    BY <1>4, <1>5 DEF IInv, RowsInv
  <2> QED BY <1>5, <1>6, <2>1, Kinds DEF IInv, RowsInv, RowOf
<1>12. FreshInv'
  <2>1. Used' = Used
    BY <1>1, <1>5 DEF Used
  <2> QED BY <1>1, <1>5, <1>6, <2>1, Kinds DEF IInv, FreshInv
<1>13. HeldInv'
  BY <1>1, <1>6, Kinds DEF IInv, HeldInv, HomeOf
<1>14. LiveInv'
  <2> SUFFICES ASSUME NEW b \in Browsers, b \notin disturbed
               PROVE  BrowserLive(b)'
    BY <1>1 DEF LiveInv
  <2>1. BrowserLive(b)
    BY DEF IInv, LiveInv
  <2>2. \A p, q \in Requests : By[p] = b /\ By[q] = b /\ InFlight(p)' /\ InFlight(q)' => p = q
    BY <1>1, <1>6, <2>1 DEF BrowserLive, InFlight
  <2>3. CASE By[o] = b
    <3>1. \A q \in Requests : By[q] = b => pc'[q] # "granted"
      BY <1>1, <1>6, <2>2, <2>3 DEF InFlight
    <3> QED BY <1>1, <1>6, <2>2, <2>3, <3>1 DEF BrowserLive
  <2>4. CASE By[o] # b
    <3>1. ASSUME NEW l \in hit, NEW u, u = jar[b].refresh \/ \E q \in Requests : By[q] = b /\ pc[q] = "granted" /\ u = reply[q]
          PROVE  rows[l].tok # u
      <4>1. l \in Logins /\ By[l] # b /\ rows[l].tok # None
        BY <1>4, <2>4 DEF hit
      <4> QED BY <3>1, <4>1, OtherBrowser
    <3>2. ASSUME NEW u, Alive(u), \A l \in hit : rows[l].tok # u
          PROVE  \E l \in Logins : rows'[l].tok = u /\ ~rows'[l].revoked
      <4>1. PICK l \in Logins : rows[l].tok = u /\ ~rows[l].revoked
        BY <3>2 DEF Alive
      <4>2. l \notin hit /\ rows'[l] = rows[l]
        BY <1>5, <3>2, <4>1
      <4>3. rows'[l].tok = u /\ ~rows'[l].revoked
        BY <4>1, <4>2
      <4> QED BY <4>3
    <3>3. \A q \in Requests : By[q] = b /\ pc'[q] = "granted" => Alive(reply[q])'
      <4> SUFFICES ASSUME NEW q \in Requests, By[q] = b, pc'[q] = "granted"
                   PROVE  Alive(reply[q])'
        OBVIOUS
      <4>1. pc[q] = "granted" /\ Alive(reply[q])
        BY <1>6, <2>1 DEF BrowserLive
      <4>2. \A l \in hit : rows[l].tok # reply[q]
        BY <3>1, <4>1
      <4>3. reply' = reply
        BY <1>1
      <4> DEFINE u == reply[q]
      <4>5. Alive(u)
        BY <4>1
      <4>6. \A l \in hit : rows[l].tok # u
        BY <4>2
      <4> HIDE DEF u
      <4>7. \E l \in Logins : rows'[l].tok = u /\ ~rows'[l].revoked
        BY <3>2, <4>5, <4>6 DEF Alive
      <4> QED BY <4>3, <4>7 DEF u, Alive
    <3>4. \/ jar[b].refresh = None
          \/ Alive(jar[b].refresh)'
          \/ \E q \in Requests : By[q] = b /\ pc'[q] \in {"granted", "cleared"}
      <4>1. CASE Alive(jar[b].refresh)
        <5> DEFINE u == jar[b].refresh
        <5>1. Alive(u) /\ \A l \in hit : rows[l].tok # u
          BY <3>1, <4>1
        <5> HIDE DEF u
        <5>2. \E l \in Logins : rows'[l].tok = u /\ ~rows'[l].revoked
          BY <3>2, <5>1 DEF Alive
        <5> QED BY <1>1, <5>2 DEF u, Alive
      <4>2. CASE \E q \in Requests : By[q] = b /\ pc[q] \in {"granted", "cleared"}
        BY <1>1, <1>6, <4>2
      <4> QED BY <2>1, <4>1, <4>2 DEF BrowserLive
    <3> QED BY <1>1, <2>2, <3>3, <3>4 DEF BrowserLive
  <2> QED BY <2>3, <2>4
<1> QED BY <1>7, <1>8, <1>9, <1>10, <1>11, <1>12, <1>13, <1>14 DEF IInv


-----------------------------------------------------------------------------
(* Replies.                                                                *)

\* What the jar holds after a reply was there, is in the reply, or is its due.
LEMMA CookiesAfterFacts ==
  ASSUME IInv, NEW q \in Requests, pc[q] \in Replies
  PROVE  LET b == By[q]
             c == CookiesAfter(q, jar[b])
         IN  /\ c \in [access: Users \cup {None}, refresh: Tokens \cup {None}, legacy: Tokens \cup {None}]
             /\ c.legacy \in {None, Stale}
             /\ c.refresh \in {None, jar[b].refresh} \/ pc[q] = "granted"
             /\ pc[q] = "granted" => c.refresh = reply[q]
             /\ pc[q] = "cleared" => c.refresh = None
             /\ pc[q] \notin {"granted", "cleared"} => c.refresh = jar[b].refresh
             /\ \/ c.access \in {None, jar[b].access}
                \/ \E l \in Logins : By[l] = b /\ User[l] = c.access /\ (l = q \/ pc[l] = "done")
<1> DEFINE b == By[q]
           j == jar[b]
           c == CookiesAfter(q, j)
           s == sel[q]
<1>1. /\ j \in [access: Users \cup {None}, refresh: Tokens \cup {None}, legacy: Tokens \cup {None}]
      /\ j.legacy \in {None, Stale}
  BY ByType DEF IInv, TypeOK, HeldInv
<1>2. \A l \in Logins : User[l] \in Users
  BY SessionsAssumption
<1>3. pc[q] = "granted" => reply[q] \in Tokens
  BY TokenFacts DEF IInv, HeldInv
<1>4. pc[q] = "granted" => q \in Logins \/ (q \notin Logins /\ s \in Logins /\ By[s] = b /\ pc[s] = "done")
  BY Kinds DEF IInv, KindsInv, PicksInv, TypeOK, Requests
<1>5. pc[q] = "half" => q \in Logins
  BY Kinds DEF IInv, KindsInv, Requests
<1>6. CASE pc[q] = "granted" /\ q \in Logins
  <2>1. c = [j EXCEPT !.refresh = reply[q], !.access = User[q]]
    BY <1>6 DEF CookiesAfter
  <2> HIDE DEF c, j, b
  <2> QED BY <1>1, <1>2, <1>3, <1>6, <2>1 DEF c, j, b
<1>7. CASE pc[q] = "granted" /\ q \notin Logins
  <2>1. c = [j EXCEPT !.refresh = reply[q], !.access = User[s]]
    BY <1>7 DEF CookiesAfter
  <2> HIDE DEF c, j, b, s
  <2> QED BY <1>1, <1>2, <1>3, <1>4, <1>7, <2>1 DEF c, j, b
<1>8. CASE pc[q] = "half"
  <2>1. c = [j EXCEPT !.access = User[q]]
    BY <1>8 DEF CookiesAfter
  <2> HIDE DEF c, j, b
  <2> QED BY <1>1, <1>2, <1>5, <1>8, <2>1 DEF c, j, b
<1>9. CASE pc[q] = "cleared"
  <2>1. c = [access |-> None, refresh |-> None, legacy |-> None]
    BY <1>9 DEF CookiesAfter
  <2> QED BY <1>9, <2>1
<1>10. CASE pc[q] = "refused"
  <2>1. c = j
    BY <1>10 DEF CookiesAfter
  <2> QED BY <1>1, <1>10, <2>1
<1> QED BY <1>6, <1>7, <1>8, <1>9, <1>10 DEF Replies

\* The jars' part of HeldInv.
JarsHeld ==
    \A b \in Browsers : /\ jar[b].refresh # None => HomeOf(jar[b].refresh, b)
                        /\ jar[b].legacy \in {None, Stale}

\* A request ends; rows, tokens and picks are as they were.
LEMMA DoneStep ==
  ASSUME IInv, NEW q \in Requests, pc[q] \in Replies,
         pc' = [pc EXCEPT ![q] = "done"],
         UNCHANGED <<rows, cands, sel, reply, retired, racing>>,
         jar' \in [Browsers -> [access: Users \cup {None}, refresh: Tokens \cup {None},
                                legacy: Tokens \cup {None}]],
         disturbed' \subseteq Browsers,
         JarsHeld', AccessInv', LiveInv'
  PROVE  IInv'
<1>1. /\ \A p \in Requests : p # q => pc'[p] = pc[p]
      /\ pc'[q] = "done" /\ pc[q] \notin {"idle", "insert", "select", "update"}
  BY DEF IInv, TypeOK, Replies
<1>2. TypeOK'
  BY DEF IInv, TypeOK
<1>3. KindsInv' /\ CandsInv'
  BY <1>1, Kinds DEF IInv, KindsInv, CandsInv
<1>4. PicksInv' /\ RaceInv'
  <2> SUFFICES ASSUME NEW r \in Refreshes
               PROVE  /\ pc'[r] \in {"update", "granted"} => sel[r] # None
                      /\ sel[r] # None => /\ By[sel[r]] = By[r] /\ pc'[sel[r]] = "done"
                                          /\ rows[sel[r]].tok # None
                      /\ pc'[r] = "update" /\ rows[sel[r]].revoked => r \in racing[sel[r]]
    BY DEF PicksInv, RaceInv
  <2>1. sel[r] # None => pc[sel[r]] = "done" /\ sel[r] \in Requests /\ pc'[sel[r]] = "done"
    BY <1>1, Kinds DEF IInv, TypeOK, PicksInv
  <2>2. pc'[r] \in {"update", "granted"} => pc'[r] = pc[r]
    BY <1>1, Kinds
  <2> QED BY <2>1, <2>2 DEF IInv, PicksInv, RaceInv
<1>5. RowsInv'
  BY <1>1, Kinds DEF IInv, RowsInv, RowOf
<1>6. FreshInv'
  BY <1>1, Kinds DEF IInv, FreshInv, Used
<1>7. HeldInv'
  <2>1. \A t, b : HomeOf(t, b) => HomeOf(t, b)'
    BY <1>1, Kinds DEF HomeOf
  <2>2. ASSUME NEW p \in Requests
        PROVE  (/\ \A i \in 1..Len(cands[p]) : HomeOf(cands[p][i], By[p])
                /\ pc[p] = "granted" =>
                     /\ reply[p] \in Requests \X (0..3)
                     /\ By[reply[p][1]] = By[p]
                     /\ reply[p][1] \in Logins => reply[p][1] = p)'
    <3>1. \A i \in 1..Len(cands[p]) : HomeOf(cands[p][i], By[p])'
      BY <2>1 DEF IInv, HeldInv
    <3>2. pc'[p] = "granted" => pc[p] = "granted"
      BY <1>1
    <3> QED BY <3>1, <3>2 DEF IInv, HeldInv
  <2> QED BY <2>2 DEF HeldInv, JarsHeld
<1> QED BY <1>2, <1>3, <1>4, <1>5, <1>6, <1>7 DEF IInv

LEMMA ReplyStep ==
  ASSUME IInv, NEW q \in Requests, Reply(q)
  PROVE  IInv'
<1> DEFINE h == By[q]
           c == CookiesAfter(q, jar[h])
<1>1. /\ pc[q] \in Replies /\ pc' = [pc EXCEPT ![q] = "done"] /\ h \in Browsers
      /\ jar' = [jar EXCEPT ![h] = c]
      /\ UNCHANGED <<rows, cands, sel, reply, retired, racing, disturbed>>
      /\ jar \in [Browsers -> [access: Users \cup {None}, refresh: Tokens \cup {None},
                               legacy: Tokens \cup {None}]]
      /\ disturbed \subseteq Browsers /\ pc \in [Requests -> Steps \cup Replies \cup {"done"}]
  BY ByType DEF Reply, handlerVars, history, IInv, TypeOK
<1>2. /\ c \in [access: Users \cup {None}, refresh: Tokens \cup {None}, legacy: Tokens \cup {None}]
      /\ c.legacy \in {None, Stale}
      /\ c.refresh \in {None, jar[h].refresh} \/ pc[q] = "granted"
      /\ pc[q] = "granted" => c.refresh = reply[q]
      /\ pc[q] = "cleared" => c.refresh = None
      /\ pc[q] \notin {"granted", "cleared"} => c.refresh = jar[h].refresh
      /\ \/ c.access \in {None, jar[h].access}
         \/ \E l \in Logins : By[l] = h /\ User[l] = c.access /\ (l = q \/ pc[l] = "done")
  BY <1>1, CookiesAfterFacts
<1> HIDE DEF c, h
<1>3. /\ \A p \in Requests : p # q => pc'[p] = pc[p]
      /\ pc'[q] = "done" /\ pc[q] \notin {"idle", "done"}
      /\ \A b \in Browsers : b # h => jar'[b] = jar[b]
      /\ jar'[h] = c /\ h = By[q]
  BY <1>1 DEF h, Replies
<1>4. jar' \in [Browsers -> [access: Users \cup {None}, refresh: Tokens \cup {None},
                             legacy: Tokens \cup {None}]]
  BY <1>1, <1>2
<1>5. JarsHeld'
  <2> SUFFICES ASSUME NEW b \in Browsers
               PROVE  (/\ jar[b].refresh # None => HomeOf(jar[b].refresh, b)
                       /\ jar[b].legacy \in {None, Stale})'
    BY DEF JarsHeld
  <2>1. \A l \in Logins : pc[l] = "done" \/ l = q => pc'[l] = "done"
    BY <1>3, Kinds
  <2>2. jar'[b].legacy \in {None, Stale}
    BY <1>2, <1>3 DEF IInv, HeldInv
  <2> DEFINE t == jar'[b].refresh
  <2>3. t = None \/ t = jar[b].refresh \/ (b = h /\ pc[q] = "granted" /\ t = reply[q])
    BY <1>2, <1>3
  <2> SUFFICES ASSUME t # None, t # Stale
               PROVE  By[t[1]] = b /\ (t[1] \in Logins => pc'[t[1]] = "done")
    BY <2>2 DEF HomeOf
  <2> HIDE DEF t
  <2>4. CASE t = jar[b].refresh
    BY <2>1, <2>4 DEF IInv, HeldInv, HomeOf
  <2>5. CASE b = h /\ pc[q] = "granted" /\ t = reply[q]
    BY <1>3, <2>1, <2>5 DEF IInv, HeldInv
  <2> QED BY <2>3, <2>4, <2>5
<1>6. AccessInv'
  <2> SUFFICES ASSUME NEW b \in Browsers, jar'[b].access # None
               PROVE  \E l \in Logins : By[l] = b /\ User[l] = jar'[b].access /\ pc'[l] = "done"
    BY DEF AccessInv
  <2>1. \A l \in Logins : pc[l] = "done" \/ l = q => pc'[l] = "done"
    BY <1>3, Kinds
  <2> QED BY <1>2, <1>3, <2>1 DEF IInv, AccessInv
<1>7. LiveInv'
  <2> SUFFICES ASSUME NEW b \in Browsers, b \notin disturbed
               PROVE  BrowserLive(b)'
    BY <1>1 DEF LiveInv
  <2>1. BrowserLive(b)
    BY DEF IInv, LiveInv
  <2>2. \A t : Alive(t)' <=> Alive(t)
    BY <1>1 DEF Alive
  <2>3. \A p, r \in Requests : By[p] = b /\ By[r] = b /\ InFlight(p)' /\ InFlight(r)' => p = r
    BY <1>3, <2>1 DEF BrowserLive, InFlight
  <2>4. \A p \in Requests : By[p] = b /\ pc'[p] = "granted" => Alive(reply[p])'
    <3>1. \A p \in Requests : By[p] = b /\ pc'[p] = "granted" => Alive(reply[p])
      BY <1>3, <2>1 DEF BrowserLive
    <3> QED BY <1>1, <3>1 DEF Alive
  <2>5. CASE b # h
    BY <1>1, <1>3, <2>1, <2>2, <2>3, <2>4, <2>5 DEF BrowserLive
  <2>6. CASE b = h
    <3>1. \A p \in Requests : By[p] = b /\ pc[p] \in {"granted", "cleared"} => p = q
      BY <1>3, <2>1, <2>6 DEF BrowserLive, InFlight
    <3>2. c.refresh = None \/ Alive(c.refresh)
      BY <1>2, <1>3, <2>1, <2>6, <3>1 DEF BrowserLive
    <3>3. jar'[b].refresh = None \/ Alive(jar'[b].refresh)
      BY <1>3, <2>6, <3>2
    <3>4. jar'[b].refresh = None \/ Alive(jar[b].refresh)'
      BY <1>1, <3>3 DEF Alive
    <3> QED BY <1>1, <2>3, <2>4, <3>4 DEF BrowserLive
  <2> QED BY <2>5, <2>6
<1> QED BY <1>1, <1>4, <1>5, <1>6, <1>7, DoneStep

LEMMA LoseReplyStep ==
  ASSUME IInv, NEW q \in Requests, LoseReply(q)
  PROVE  IInv'
<1>1. /\ pc[q] \in Replies /\ pc' = [pc EXCEPT ![q] = "done"]
      /\ UNCHANGED <<rows, jar, cands, sel, reply, retired, racing>>
      /\ disturbed' = disturbed \cup {By[q]}
      /\ pc \in [Requests -> Steps \cup Replies \cup {"done"}]
  BY DEF LoseReply, handlerVars, Disturb, IInv, TypeOK
<1>2. /\ \A p \in Requests : p # q => pc'[p] = pc[p]
      /\ pc'[q] = "done" /\ disturbed' \subseteq Browsers
  BY <1>1, ByType DEF IInv, TypeOK
<1>3. JarsHeld'
  BY <1>1, <1>2, Kinds DEF IInv, HeldInv, JarsHeld, HomeOf
<1>4. AccessInv'
  BY <1>1, <1>2, Kinds DEF IInv, AccessInv
<1>5. LiveInv'
  <2> SUFFICES ASSUME NEW b \in Browsers, b \notin disturbed'
               PROVE  BrowserLive(b)'
    BY DEF LiveInv
  <2>1. BrowserLive(b) /\ b # By[q]
    BY <1>1 DEF IInv, LiveInv
  <2> QED BY <1>1, <1>2, <2>1 DEF BrowserLive, InFlight, Alive
<1> QED BY <1>1, <1>2, <1>3, <1>4, <1>5, DoneStep DEF IInv, TypeOK

LEMMA ExpireAccessStep ==
  ASSUME IInv, NEW b \in Browsers, ExpireAccess(b)
  PROVE  IInv'
<1>1. /\ jar' = [jar EXCEPT ![b].access = None]
      /\ UNCHANGED <<rows, pc, cands, sel, reply, retired, racing, disturbed>>
      /\ jar \in [Browsers -> [access: Users \cup {None}, refresh: Tokens \cup {None},
                               legacy: Tokens \cup {None}]]
  BY DEF ExpireAccess, handlerVars, history, IInv, TypeOK
<1>2. /\ jar' \in [Browsers -> [access: Users \cup {None}, refresh: Tokens \cup {None},
                                legacy: Tokens \cup {None}]]
      /\ \A d \in Browsers : /\ jar'[d].refresh = jar[d].refresh /\ jar'[d].legacy = jar[d].legacy
                             /\ jar'[d].access \in {None, jar[d].access}
  BY <1>1
<1>3. TypeOK' /\ KindsInv' /\ CandsInv' /\ PicksInv' /\ RowsInv' /\ RaceInv'
  BY <1>1, <1>2 DEF IInv, TypeOK, KindsInv, CandsInv, PicksInv, RowsInv, RowOf, RaceInv
<1>4. FreshInv' /\ HeldInv' /\ AccessInv'
  BY <1>1, <1>2 DEF IInv, FreshInv, Used, HeldInv, HomeOf, AccessInv
<1>5. LiveInv'
  BY <1>1, <1>2 DEF IInv, LiveInv, BrowserLive, Alive, InFlight
<1> QED BY <1>3, <1>4, <1>5 DEF IInv


-----------------------------------------------------------------------------
(* The invariant.                                                          *)

LEMMA InitInv == Init => IInv
<1> SUFFICES ASSUME Init PROVE IInv
  OBVIOUS
<1>1. /\ \A l \in Logins : rows[l] = [tok |-> None, fresh |-> FALSE, revoked |-> FALSE]
      /\ \A b \in Browsers : /\ jar[b].access = None /\ jar[b].refresh = None
                             /\ jar[b].legacy \in {None, Stale}
      /\ \A q \in Requests : pc[q] = "idle" /\ cands[q] = <<>> /\ sel[q] = None /\ reply[q] = None
      /\ retired = {} /\ disturbed = {}
  BY Kinds DEF Init
<1>2. TypeOK
  BY TokenFacts DEF Init, TypeOK, Steps
<1>3. KindsInv /\ CandsInv /\ PicksInv /\ AccessInv /\ RaceInv
  BY <1>1, Kinds DEF KindsInv, CandsInv, PicksInv, AccessInv, RaceInv
<1>4. RowsInv
  BY <1>1 DEF RowsInv
<1>5. FreshInv
  <2>1. \A t \in Used : t = None
    BY <1>1 DEF Used
  <2>2. \A q \in Requests, n \in 0..3 : <<q, n>> # None
    BY TokenFacts
  <2> QED BY <1>1, <2>1, <2>2, Kinds DEF FreshInv
<1>6. HeldInv
  BY <1>1 DEF HeldInv
<1>7. LiveInv
  BY <1>1 DEF LiveInv, BrowserLive, InFlight
<1> QED BY <1>2, <1>3, <1>4, <1>5, <1>6, <1>7 DEF IInv

LEMMA StutterInv == IInv /\ UNCHANGED vars => IInv'
<1> SUFFICES ASSUME IInv, UNCHANGED vars PROVE IInv'
  OBVIOUS
<1>1. UNCHANGED <<rows, jar, pc, cands, sel, reply, retired, racing, disturbed>>
  BY DEF vars, handlerVars, history
<1>2. TypeOK' /\ KindsInv' /\ CandsInv' /\ PicksInv' /\ RaceInv' /\ AccessInv'
  BY <1>1 DEF IInv, TypeOK, KindsInv, CandsInv, PicksInv, RaceInv, AccessInv
<1>3. RowsInv' /\ FreshInv' /\ HeldInv'
  BY <1>1 DEF IInv, RowsInv, RowOf, FreshInv, Used, HeldInv, HomeOf
<1>4. LiveInv'
  BY <1>1 DEF IInv, LiveInv, BrowserLive, Alive, InFlight
<1> QED BY <1>2, <1>3, <1>4 DEF IInv

LEMMA NextInv == IInv /\ [Next]_vars => IInv'
<1> SUFFICES ASSUME IInv, [Next]_vars PROVE IInv'
  OBVIOUS
<1>1. ASSUME NEW l \in Logins, SendLogin(l) \/ InsertRow(l) \/ Expire(l)
      PROVE  IInv'
  BY <1>1, Sends, InsertStep, ExpireStep
<1>2. ASSUME NEW r \in Refreshes, SendRefresh(r) \/ SelectRow(r) \/ UpdateRow(r)
      PROVE  IInv'
  BY <1>2, Sends, SelectStep, UpdateStep
<1>3. ASSUME NEW o \in Logouts, SendLogout(o) \/ RevokeRow(o)
      PROVE  IInv'
  BY <1>3, Sends, RevokeStep
<1>4. ASSUME NEW q \in Requests, Reply(q) \/ LoseReply(q)
      PROVE  IInv'
  BY <1>4, ReplyStep, LoseReplyStep
<1>5. ASSUME NEW b \in Browsers, ExpireAccess(b)
      PROVE  IInv'
  BY <1>5, ExpireAccessStep
<1> QED BY <1>1, <1>2, <1>3, <1>4, <1>5, StutterInv DEF Next

\* The invariant holds in every run.
THEOREM Invariant == Spec => []IInv
  BY InitInv, NextInv, PTL DEF Spec

-----------------------------------------------------------------------------
(* What follows.                                                           *)

\* Every handler is at a step of its own, with at most three candidates, and
\* rows and cookies hold tokens (auth.go).
THEOREM TypeCorrect == Spec => []TypeOK
<1>1. IInv => TypeOK
  BY DEF IInv
<1> QED BY <1>1, Invariant, PTL

\* A refresh works on a row of the browser that sent it, the token in a jar
\* names no other browser's row, and the user of an access cookie logged in with
\* this browser (auth.go:180-201, 268-274, 322-340).
THEOREM SessionsHome == Spec => []SessionsStayHome
<1>1. IInv => SessionsStayHome
  <2> SUFFICES ASSUME IInv PROVE SessionsStayHome
    OBVIOUS
  <2>1. ASSUME NEW b \in Browsers, NEW l \in Logins,
               jar[b].refresh # None, rows[l].tok = jar[b].refresh
        PROVE  By[l] = b
    <3>1. RowOf(jar[b].refresh, l) /\ HomeOf(jar[b].refresh, b)
      BY <2>1 DEF IInv, RowsInv, HeldInv
    <3>2. jar[b].refresh # Stale
      BY <3>1, TokenFacts DEF RowOf
    <3> QED BY <3>1, <3>2 DEF RowOf, HomeOf
  <2> QED BY <2>1 DEF IInv, PicksInv, AccessInv, SessionsStayHome
<1> QED BY <1>1, Invariant, PTL

\* A browser that sends one request at a time and loses nothing never keeps a
\* refresh token whose row is gone or revoked (auth.go:302-334).
THEOREM SessionsLiveCorrect == Spec => []SessionsLive
<1>1. IInv => SessionsLive
  <2> SUFFICES ASSUME IInv, NEW b \in Browsers \ disturbed, ~Busy(b), jar[b].refresh # None
               PROVE  Alive(jar[b].refresh)
    BY DEF SessionsLive, Alive
  <2>1. BrowserLive(b)
    BY DEF IInv, LiveInv
  <2>2. ~ \E q \in Requests : By[q] = b /\ pc[q] \in {"granted", "cleared"}
    BY DEF Busy, InFlight
  <2> QED BY <2>1, <2>2 DEF BrowserLive
<1> QED BY <1>1, Invariant, PTL

\* Only a row's present token passes the SELECT, and a token that was overwritten
\* is in no row ever after (auth.go:180-201).
THEOREM RetiredDead == Spec => RetiredTokensDead
<1>1. IInv /\ [Next]_vars =>
        \A r \in Refreshes :
           pc[r] = "select" /\ pc'[r] = "update" => Head(cands[r]) \notin retired
  <2> SUFFICES ASSUME IInv, [Next]_vars, NEW r \in Refreshes,
                      pc[r] = "select", pc'[r] = "update"
               PROVE  Head(cands[r]) \notin retired
    OBVIOUS
  <2>1. pc \in [Requests -> Steps \cup Replies \cup {"done"}] /\ r \in Requests
    BY Kinds DEF IInv, TypeOK
  <2>2. ASSUME NEW p \in Requests, SelectRow(p), p \in Refreshes
        PROVE  Head(cands[r]) \notin retired
    <3>1. p = r
      BY <2>1, <2>2, NextFacts DEF SelectRow
    <3>2. \E l \in Logins : Usable(l, Head(cands[r]))
      BY <2>1, <2>2, <3>1 DEF SelectRow, NextCandidate
    <3> QED BY <3>2 DEF Usable, IInv, FreshInv
  <2>3. ASSUME NEW p \in Refreshes, UpdateRow(p)
        PROVE  FALSE
    BY <2>1, <2>3, NextFacts, Kinds DEF UpdateRow
  <2>4. ASSUME NEW l \in Logins, SendLogin(l) \/ InsertRow(l) \/ Expire(l)
        PROVE  FALSE
    BY <2>1, <2>4, Kinds DEF SendLogin, InsertRow, Expire
  <2>5. ASSUME NEW p \in Refreshes, SendRefresh(p)
        PROVE  FALSE
    BY <2>1, <2>5 DEF SendRefresh
  <2>6. ASSUME NEW o \in Logouts, SendLogout(o) \/ RevokeRow(o)
        PROVE  FALSE
    BY <2>1, <2>6, Kinds DEF SendLogout, RevokeRow
  <2>7. ASSUME NEW q \in Requests, Reply(q) \/ LoseReply(q)
        PROVE  FALSE
    BY <2>1, <2>7 DEF Reply, LoseReply
  <2>8. ASSUME NEW b \in Browsers, ExpireAccess(b)
        PROVE  FALSE
    BY <2>8 DEF ExpireAccess
  <2>9. UNCHANGED vars => FALSE
    BY DEF vars
  <2> QED BY <2>2, <2>3, <2>4, <2>5, <2>6, <2>7, <2>8, <2>9, Kinds DEF Next
<1> QED BY <1>1, Invariant, PTL DEF Spec, RetiredTokensDead

\* After a logout only a refresh that had already read the row can bring it back
\* (auth.go:189, 200, 215).
THEOREM RevivedByRace == Spec => RevivedOnlyByRace
<1>1. IInv /\ [Next]_vars =>
        \A l \in Logins : rows[l].revoked /\ ~rows'[l].revoked =>
           \E r \in racing[l] : pc[r] = "update" /\ sel[r] = l /\ pc'[r] # "update"
  <2> SUFFICES ASSUME IInv, [Next]_vars, NEW l \in Logins, rows[l].revoked, ~rows'[l].revoked
               PROVE  \E r \in racing[l] : pc[r] = "update" /\ sel[r] = l /\ pc'[r] # "update"
    OBVIOUS
  <2>1. /\ rows \in [Logins -> [tok: Tokens \cup {None}, fresh: BOOLEAN, revoked: BOOLEAN]]
        /\ rows' # rows
    BY DEF IInv, TypeOK
  <2>2. ASSUME NEW r \in Refreshes, UpdateRow(r)
        PROVE  \E p \in racing[l] : pc[p] = "update" /\ sel[p] = l /\ pc'[p] # "update"
    <3>1. pc[r] = "update" /\ Rotated(r, sel[r])
      BY <2>1, <2>2 DEF UpdateRow
    <3>2. sel[r] = l
      BY <3>1, RotatedFacts
    <3>3. pc'[r] # "update"
      BY <2>2, <3>1, NextFacts, Kinds DEF UpdateRow, IInv, TypeOK
    <3> QED BY <3>1, <3>2, <3>3 DEF IInv, RaceInv
  <2>3. ASSUME NEW m \in Logins, InsertRow(m)
        PROVE  FALSE
    <3>1. ~rows[m].revoked
      BY <2>3 DEF InsertRow, IInv, RowsInv
    <3> QED BY <2>1, <2>3, <3>1 DEF InsertRow
  <2>4. ASSUME NEW m \in Logins, Expire(m)
        PROVE  FALSE
    BY <2>1, <2>4 DEF Expire
  <2>5. ASSUME NEW o \in Logouts, RevokeRow(o)
        PROVE  FALSE
    <3>1. \A m \in Logins : [rows[m] EXCEPT !.revoked = TRUE].revoked
      BY <2>1
    <3> QED BY <2>1, <2>5, <3>1 DEF RevokeRow
  <2>6. ~UNCHANGED rows
    BY <2>1
  <2>7. \A q \in Requests : ~Reply(q) /\ ~LoseReply(q)
    BY <2>6 DEF Reply, LoseReply
  <2>8. /\ \A m \in Logins : ~SendLogin(m)
        /\ \A r \in Refreshes : ~SendRefresh(r) /\ ~SelectRow(r)
        /\ \A o \in Logouts : ~SendLogout(o)
        /\ \A b \in Browsers : ~ExpireAccess(b)
    BY <2>6 DEF SendLogin, SendRefresh, SelectRow, SendLogout, ExpireAccess
  <2>9. ~UNCHANGED vars
    BY <2>6 DEF vars
  <2> QED BY <2>2, <2>3, <2>4, <2>5, <2>7, <2>8, <2>9 DEF Next
<1> QED BY <1>1, Invariant, PTL DEF Spec, RevivedOnlyByRace
=============================================================================
