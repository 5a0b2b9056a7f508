------------------------------ MODULE Sessions ------------------------------
(***************************************************************************)
(* Refresh tokens (backend/auth.go): login inserts a row, refresh rotates  *)
(* the token of a row with a SELECT and a separate UPDATE, logout revokes. *)
(* Several requests of a browser, and of its tabs, are in flight at once;  *)
(* a statement may fail before or after it took effect; a reply may be     *)
(* lost or overtaken by another.                                           *)
(*                                                                         *)
(* Bounds: a request is sent once; a row is named by the login that makes  *)
(* it; a token is a random number nobody guesses, so it is named by the    *)
(* request, and its try, that generates it.  Time is the steps Expire and  *)
(* ExpireAccess.  Definitions marked "Mutant" are no part of the model:    *)
(* each is a variant of the definition after it with a bug seeded for one  *)
(* property.                                                               *)
(***************************************************************************)
EXTENDS Naturals, Sequences, FiniteSets

CONSTANTS
    Browsers, Users,
    Logins, Refreshes, Logouts,     \* the requests, one handler run each
    By,                             \* By[q]: the browser that sends q
    User,                           \* User[l]: whose e-mail login l gives
    Legacy,                         \* browsers that may still hold a cookie of path /api
    None

Requests == Logins \cup Refreshes \cup Logouts

\* A request's cookies give at most three candidates.
Stale == <<None, 0>>
Tokens == (Requests \X (0..3)) \cup {Stale}

ASSUME SessionsAssumption ==
    /\ Logins \cap Refreshes = {} /\ Logins \cap Logouts = {} /\ Refreshes \cap Logouts = {}
    /\ By \in [Requests -> Browsers] /\ User \in [Logins -> Users]
    /\ Legacy \subseteq Browsers
    /\ None \notin Requests \cup Users \cup Tokens

VARIABLES
    rows,       \* rows[l]: the refresh_tokens row login l inserted, if its tok # None
    jar,        \* jar[b]: the browser's cookies
    pc,         \* pc[q]: where the handler of q stands
    cands,      \* cands[q]: tokens still to be tried, the current one first
    sel,        \* sel[q]: the row the SELECT of q found
    reply,      \* reply[q]: the refresh token in the reply
    retired,    \* history: tokens an UPDATE overwrote
    racing,     \* history: racing[l]: requests between SELECT and UPDATE when l was revoked
    disturbed   \* history: browsers with overlapping requests, lost replies or lost results

handlerVars == <<cands, sel, reply>>
history == <<retired, racing, disturbed>>
vars == <<rows, jar, pc, handlerVars, history>>

Steps == {"idle", "insert", "select", "update", "revoke"}
Replies == {"granted", "refused", "half", "cleared"}
InFlight(q) == pc[q] \notin {"idle", "done"}

TypeOK ==
    /\ rows \in [Logins -> [tok: Tokens \cup {None}, fresh: BOOLEAN, revoked: BOOLEAN]]
    /\ jar \in [Browsers -> [access: Users \cup {None}, refresh: Tokens \cup {None},
                             legacy: Tokens \cup {None}]]
    /\ pc \in [Requests -> Steps \cup Replies \cup {"done"}]
    /\ cands \in [Requests -> Seq(Tokens)]
    /\ sel \in [Requests -> Logins \cup {None}]
    /\ reply \in [Requests -> Tokens \cup {None}]
    /\ retired \subseteq Tokens
    /\ racing \in [Logins -> SUBSET Refreshes]
    /\ disturbed \subseteq Browsers

Init ==
    /\ rows = [l \in Logins |-> [tok |-> None, fresh |-> FALSE, revoked |-> FALSE]]
    /\ \E old \in SUBSET Legacy :
         jar = [b \in Browsers |-> [access |-> None, refresh |-> None,
                                    legacy |-> IF b \in old THEN Stale ELSE None]]
    /\ pc = [q \in Requests |-> "idle"]
    /\ cands = [q \in Requests |-> <<>>]
    /\ sel = [q \in Requests |-> None]
    /\ reply = [q \in Requests |-> None]
    /\ retired = {}
    /\ racing = [l \in Logins |-> {}]
    /\ disturbed = {}

Busy(b) == \E q \in Requests : By[q] = b /\ InFlight(q)
Disturb(b) == disturbed' = disturbed \cup {b}
Overlap(q) == IF Busy(By[q]) THEN Disturb(By[q]) ELSE UNCHANGED disturbed

Sent(t) == IF t = None THEN <<>> ELSE <<t>>

\* Mutant: a cookie that is not there is a candidate.
CookiesOrNone(b) == <<jar[b].legacy, jar[b].refresh>>

\* The refresh_token cookies of a request, the longer path first.
Cookies(b) == Sent(jar[b].legacy) \o Sent(jar[b].refresh)

-----------------------------------------------------------------------------
(* LoginHandler.                                                           *)

\* The credentials are wrong, or checked and the access token made.
SendLogin(l) ==
    /\ pc[l] = "idle"
    /\ \E next \in {"insert", "refused"} : pc' = [pc EXCEPT ![l] = next]
    /\ Overlap(l)
    /\ UNCHANGED <<rows, jar, handlerVars, retired, racing>>

\* createRefreshToken.  If the INSERT reports an error the reply is a 500, but
\* the access cookie is already in its header.
InsertRow(l) ==
    LET row == [tok |-> <<l, 0>>, fresh |-> TRUE, revoked |-> FALSE] IN
    /\ pc[l] = "insert"
    /\ \/ /\ rows' = [rows EXCEPT ![l] = row]
          /\ reply' = [reply EXCEPT ![l] = row.tok]
          /\ pc' = [pc EXCEPT ![l] = "granted"]
          /\ UNCHANGED disturbed
       \/ /\ \/ rows' = [rows EXCEPT ![l] = row] /\ Disturb(By[l])
             \/ UNCHANGED <<rows, disturbed>>
          /\ pc' = [pc EXCEPT ![l] = "half"]
          /\ UNCHANGED reply
    /\ UNCHANGED <<jar, cands, sel, retired, racing>>

-----------------------------------------------------------------------------
(* RefreshHandler and rotateRefreshToken.                                  *)

\* The candidates: the cookie net/http finds, then every refresh_token of the
\* header, that one again included.
SendRefresh(r) ==
    LET found == Cookies(By[r]) IN
    /\ pc[r] = "idle"
    /\ cands' = [cands EXCEPT ![r] = IF found = <<>> THEN <<>> ELSE <<found[1]>> \o found]
    /\ pc' = [pc EXCEPT ![r] = IF found = <<>> THEN "refused" ELSE "select"]
    /\ Overlap(r)
    /\ UNCHANGED <<rows, jar, sel, reply, retired, racing>>

\* Mutant: the loop tries the same candidate for ever.
NextCandidateSame(r) ==
    /\ pc' = [pc EXCEPT ![r] = IF Len(cands[r]) > 1 THEN "select" ELSE "refused"]
    /\ UNCHANGED cands

\* This candidate failed: try the next, or answer 401.
NextCandidate(r) ==
    /\ cands' = [cands EXCEPT ![r] = Tail(@)]
    /\ pc' = [pc EXCEPT ![r] = IF Len(cands[r]) > 1 THEN "select" ELSE "refused"]

\* Mutants: a revoked row is good; the term alone is looked at.
UsableRevoked(l, t) == rows[l].tok = t /\ rows[l].fresh
UsableAny(l, t) == ~rows[l].revoked /\ rows[l].fresh

\* The row SELECT ... WHERE token_hash finds, and the checks on what it read.
Usable(l, t) == rows[l].tok = t /\ ~rows[l].revoked /\ rows[l].fresh

SelectRow(r) ==
    /\ pc[r] = "select"
    /\ \/ \E l \in Logins :
            /\ Usable(l, Head(cands[r]))
            /\ sel' = [sel EXCEPT ![r] = l]
            /\ pc' = [pc EXCEPT ![r] = "update"]
            /\ UNCHANGED cands
       \/ NextCandidate(r) /\ UNCHANGED sel   \* no such row, revoked, expired, or an error
    /\ UNCHANGED <<rows, jar, reply, history>>

\* Mutant: only the term is renewed, the token stays.
RotatedTermOnly(r, l) ==
    /\ rows' = [rows EXCEPT ![l].fresh = TRUE]
    /\ retired' = retired \cup {rows[l].tok}

\* The UPDATE, by the row's id alone: a new token, a new term, not revoked.
Rotated(r, l) ==
    LET new == <<r, Len(cands[r])>> IN
    /\ rows' = [rows EXCEPT ![l] = [tok |-> new, fresh |-> TRUE, revoked |-> FALSE]]
    /\ retired' = retired \cup {rows[l].tok}

\* Mutant: the loop does not break after a rotation that worked.
UpdateRowNoBreak(r) ==
    /\ pc[r] = "update"
    /\ Rotated(r, sel[r])
    /\ NextCandidate(r)
    /\ UNCHANGED <<jar, sel, reply, racing, disturbed>>

UpdateRow(r) ==
    LET l == sel[r] IN
    /\ pc[r] = "update"
    /\ \/ /\ Rotated(r, l)
          /\ reply' = [reply EXCEPT ![r] = rows'[l].tok]
          /\ pc' = [pc EXCEPT ![r] = "granted"]
          /\ UNCHANGED <<cands, disturbed>>
       \/ /\ \/ Rotated(r, l) /\ Disturb(By[r])
             \/ UNCHANGED <<rows, retired, disturbed>>
          /\ NextCandidate(r)
          /\ UNCHANGED reply
    /\ UNCHANGED <<jar, sel, racing>>

-----------------------------------------------------------------------------
(* LogoutHandler and revokeRefreshToken.                                   *)

\* Only the first cookie of that name is read.
SendLogout(o) ==
    LET found == Cookies(By[o]) IN
    /\ pc[o] = "idle"
    /\ cands' = [cands EXCEPT ![o] = IF found = <<>> THEN <<>> ELSE <<found[1]>>]
    /\ pc' = [pc EXCEPT ![o] = IF found = <<>> THEN "cleared" ELSE "revoke"]
    /\ Overlap(o)
    /\ UNCHANGED <<rows, jar, sel, reply, retired, racing>>

\* The UPDATE by hash; its error is ignored.
RevokeRow(o) ==
    LET hit == {l \in Logins : rows[l].tok = Head(cands[o])} IN
    /\ pc[o] = "revoke"
    /\ \/ /\ rows' = [l \in Logins |-> IF l \in hit THEN [rows[l] EXCEPT !.revoked = TRUE]
                                       ELSE rows[l]]
          /\ racing' = [l \in Logins |-> IF l \in hit
                          THEN {r \in Refreshes : pc[r] = "update" /\ sel[r] = l}
                          ELSE racing[l]]
       \/ UNCHANGED <<rows, racing>>
    /\ pc' = [pc EXCEPT ![o] = "cleared"]
    /\ UNCHANGED <<jar, handlerVars, retired, disturbed>>

-----------------------------------------------------------------------------
(* Replies, browsers and time.                                             *)

\* What the Set-Cookie headers of q's reply do to the jar.
CookiesAfter(q, cookies) ==
    CASE pc[q] = "granted" -> [cookies EXCEPT
                                 !.refresh = reply[q],
                                 !.access = User[IF q \in Logins THEN q ELSE sel[q]]]
      [] pc[q] = "half"    -> [cookies EXCEPT !.access = User[q]]
      [] pc[q] = "cleared" -> [access |-> None, refresh |-> None, legacy |-> None]
      [] OTHER             -> cookies

Reply(q) ==
    /\ pc[q] \in Replies
    /\ jar' = [jar EXCEPT ![By[q]] = CookiesAfter(q, @)]
    /\ pc' = [pc EXCEPT ![q] = "done"]
    /\ UNCHANGED <<rows, handlerVars, history>>

LoseReply(q) ==
    /\ pc[q] \in Replies
    /\ Disturb(By[q])
    /\ pc' = [pc EXCEPT ![q] = "done"]
    /\ UNCHANGED <<rows, jar, handlerVars, retired, racing>>

\* expires_at passes, refreshTokenTTL after the row's last rotation.
Expire(l) ==
    /\ rows[l].fresh
    /\ rows' = [rows EXCEPT ![l].fresh = FALSE]
    /\ UNCHANGED <<jar, pc, handlerVars, history>>

\* The access cookie's own, shorter term ends.
ExpireAccess(b) ==
    /\ jar[b].access # None
    /\ jar' = [jar EXCEPT ![b].access = None]
    /\ UNCHANGED <<rows, pc, handlerVars, history>>

Next ==
    \/ \E l \in Logins : SendLogin(l) \/ InsertRow(l) \/ Expire(l)
    \/ \E r \in Refreshes : SendRefresh(r) \/ SelectRow(r) \/ UpdateRow(r)
    \/ \E o \in Logouts : SendLogout(o) \/ RevokeRow(o)
    \/ \E q \in Requests : Reply(q) \/ LoseReply(q)
    \/ \E b \in Browsers : ExpireAccess(b)

Spec == Init /\ [][Next]_vars

\* Statements return, with a result or an error, and so do handlers.
Fairness ==
    /\ \A l \in Logins : WF_vars(InsertRow(l))
    /\ \A r \in Refreshes : WF_vars(SelectRow(r)) /\ WF_vars(UpdateRow(r))
    /\ \A o \in Logouts : WF_vars(RevokeRow(o))

FairSpec == Spec /\ Fairness

-----------------------------------------------------------------------------
(* Properties.                                                             *)

\* A token that was rotated away never opens a session again, whichever
\* request, candidate or retry presents it (auth.go:180-201, 322-330).
RetiredTokensDead ==
    [][\A r \in Refreshes :
          pc[r] = "select" /\ pc'[r] = "update" => Head(cands[r]) \notin retired]_vars

\* A revoked row comes back only through a refresh that had read it before the
\* logout revoked it and had not written yet: no refresh that starts later,
\* with whatever token, revives a session that was logged out (auth.go:189,
\* 200, 215).
RevivedOnlyByRace ==
    [][\A l \in Logins : rows[l].revoked /\ ~rows'[l].revoked =>
          \E r \in racing[l] : pc[r] = "update" /\ sel[r] = l /\ pc'[r] # "update"]_vars

\* A browser whose requests never overlapped and lost neither reply nor result
\* holds, whenever it waits for none, a refresh token that names a row which is
\* not revoked, however many candidates failed on the way (auth.go:302-334).
SessionsLive ==
    \A b \in Browsers \ disturbed :
        ~Busy(b) /\ jar[b].refresh # None =>
            \E l \in Logins : rows[l].tok = jar[b].refresh /\ ~rows[l].revoked

\* No session moves to another browser, and an access cookie names a user whose
\* credentials this browser sent, through every rotation, retry and race.
SessionsStayHome ==
    /\ \A r \in Refreshes : sel[r] # None => By[sel[r]] = By[r]
    /\ \A b \in Browsers :
         /\ \A l \in Logins : jar[b].refresh # None /\ rows[l].tok = jar[b].refresh => By[l] = b
         /\ jar[b].access # None =>
              \E l \in Logins : By[l] = b /\ User[l] = jar[b].access /\ pc[l] = "done"

\* Every handler answers, the candidate loop included.
RequestsAnswered ==
    \A q \in Requests : InFlight(q) ~> pc[q] \in Replies \cup {"done"}

\* What the comments of revokeRefreshToken and LogoutHandler say (auth.go:208,
\* 387): a row once revoked is revoked.
RevokedForGood ==
    [][\A l \in Logins : rows[l].revoked => rows'[l].revoked]_vars
=============================================================================
