--------------------------- MODULE Conversations ---------------------------
(***************************************************************************)
(* POST /api/conversations and POST /api/messages (main.go) with the store *)
(* functions they call (backend/store/repo.go): checks, a transaction, the *)
(* goroutine that announces a conversation, a message saved and then       *)
(* published.  Every statement takes a connection of the pool              *)
(* (backend/store/pool.go) and gives it back, but a transaction keeps its  *)
(* connection until it ends.  What a Publish method then does is Hub's.    *)
(*                                                                         *)
(* Bounds: a request is sent once; a conversation is named by the request  *)
(* that creates it; MaxCrashes bounds the process's crashes.  Statements   *)
(* run at read committed, the default; one that takes effect does so       *)
(* before its handler goes on, even if its answer is lost.  Definitions    *)
(* marked "Mutant" are no part of the model: each is a variant of the      *)
(* definition after it with a bug seeded for one property.                 *)
(***************************************************************************)
EXTENDS Naturals, Sequences, FiniteSets, SequencesExt

CONSTANTS
    Ids, Nil,       \* the UUIDs a body may name, uuid.Nil among them
    Accounts,       \* users.id
    Creates, Posts, \* the requests, one handler run each
    By,             \* By[q]: the user of the access token of q
    Into,           \* Into[p]: the conversation p posts into
    Bodies,         \* [group, named]: what a create may ask for
    MaxConns,       \* cfg.MaxConns of the pool (10)
    MaxCrashes      \* bound of the model

Requests == Creates \cup Posts

ASSUME ConversationsAssumption ==
    /\ Creates \cap Posts = {}
    /\ Accounts \subseteq Ids /\ Nil \in Ids \ Accounts
    /\ By \in [Requests -> Accounts] /\ Into \in [Posts -> Creates]
    /\ Bodies \subseteq [group: BOOLEAN, named: Seq(Ids)]
    /\ MaxConns \in Nat \ {0} /\ MaxCrashes \in Nat

VARIABLES
    body,       \* body[r]: what create r asks for
    pc,         \* pc[q]: where the handler of q stands
    tx,         \* tx[r]: participants inserted by the open transaction of r
    convs,      \* committed rows of conversations
    parts,      \* parts[r]: committed conversation_participants of conversation r
    saved,      \* messages
    published,  \* posts handed to PublishMessage
    note,       \* note[r]: where the goroutine that announces r stands
    told,       \* told[r]: users PublishUserEvent was called for
    rivals,     \* history: rivals[r]: committed by others after r looked for a duplicate
    crashes

database == <<convs, parts, saved>>
announcing == <<note, told>>
vars == <<body, pc, tx, database, published, announcing, rivals, crashes>>

Statements == {"exists", "count", "begin", "conv", "party", "commit", "member", "save", "author"}
Replies == {"invalid", "conflict", "failed", "forbidden", "created", "posted"}
InFlight(q) == pc[q] \in Statements \cup {"publish"}

TypeOK ==
    /\ body \in [Creates -> Bodies]
    /\ pc \in [Requests -> {"idle", "publish", "lost"} \cup Statements \cup Replies]
    /\ tx \in [Creates -> SUBSET Accounts]
    /\ convs \subseteq Creates
    /\ parts \in [Creates -> SUBSET Accounts]
    /\ saved \subseteq Posts
    /\ published \subseteq Posts
    /\ note \in [Creates -> {"none", "event", "names", "users"}]
    /\ told \in [Creates -> SUBSET Ids]
    /\ rivals \in [Creates -> SUBSET Creates]
    /\ crashes \in 0..MaxCrashes

Init ==
    /\ body \in [Creates -> Bodies]
    /\ pc = [q \in Requests |-> "idle"]
    /\ tx = [r \in Creates |-> {}]
    /\ convs = {}
    /\ parts = [r \in Creates |-> {}]
    /\ saved = {}
    /\ published = {}
    /\ note = [r \in Creates |-> "none"]
    /\ told = [r \in Creates |-> {}]
    /\ rivals = [r \in Creates |-> {}]
    /\ crashes = 0

Direct(r) == ~body[r].group

\* Mutant: the creator is not added.
PartyNamedOnly(r) == ToSet(body[r].named) \ {Nil}

\* unique: the named users once each, without uuid.Nil, and the creator.
Party(r) == (ToSet(body[r].named) \ {Nil}) \cup {By[r]}

\* Mutant: everybody the database knows is told.
RecipientsAll(r) == Accounts

\* recipients: the creator and the named users, uuid.Nil among them.
Recipients(r) == {By[r]} \cup ToSet(body[r].named)

\* An open transaction holds a connection.
Open == {r \in Creates : pc[r] \in {"conv", "party", "commit"}}
ConnFree == Cardinality(Open) < MaxConns

Goto(q, from, to) == pc[q] = from /\ pc' = [pc EXCEPT ![q] = to]

-----------------------------------------------------------------------------
(* POST /api/conversations.                                                *)

\* The handler's checks and those CreateConversation makes before it asks the
\* database.  A body, a user or a participant that does not parse is refused.
SendCreate(r) ==
    /\ \/ Goto(r, "idle", "invalid")
       \/ IF Direct(r)
          THEN /\ Len(body[r].named) <= 1 /\ Cardinality(Party(r)) = 2
               /\ Goto(r, "idle", "exists")
          ELSE Goto(r, "idle", "count")
    /\ UNCHANGED <<body, tx, database, published, announcing, rivals, crashes>>

\* Mutant: only conversations the same user created are looked at.
TwinOwn(r) ==
    \E c \in convs : Direct(c) /\ By[c] = By[r] /\ Party(r) \subseteq parts[c] /\ Cardinality(parts[c]) = 2

\* SELECT EXISTS: a direct conversation of two, creator and other among them.
Twin(r) ==
    \E c \in convs : Direct(c) /\ Party(r) \subseteq parts[c] /\ Cardinality(parts[c]) = 2

LookForTwin(r) ==
    /\ ConnFree
    /\ Goto(r, "exists", IF Twin(r) THEN "conflict" ELSE "count")
    /\ UNCHANGED <<body, tx, database, published, announcing, rivals, crashes>>

\* Mutant: the accounts are not counted.
CountUsersAny(r) ==
    /\ ConnFree
    /\ Goto(r, "count", "begin")
    /\ UNCHANGED <<body, tx, database, published, announcing, rivals, crashes>>

\* SELECT COUNT(1) FROM users.
CountUsers(r) ==
    /\ ConnFree
    /\ Goto(r, "count", IF Party(r) \subseteq Accounts THEN "begin" ELSE "failed")
    /\ UNCHANGED <<body, tx, database, published, announcing, rivals, crashes>>

Begin(r) ==
    /\ ConnFree
    /\ Goto(r, "begin", "conv")
    /\ UNCHANGED <<body, tx, database, published, announcing, rivals, crashes>>

\* INSERT INTO conversations, seen by nobody else before the commit.
InsertConversation(r) ==
    /\ Goto(r, "conv", "party")
    /\ UNCHANGED <<body, tx, database, published, announcing, rivals, crashes>>

\* Mutant: the INSERT goes through the pool and waits for a second connection.
InsertParticipantByPool(r) ==
    \E u \in Party(r) \ tx[r] :
        /\ ConnFree
        /\ tx' = [tx EXCEPT ![r] = @ \cup {u}]
        /\ Goto(r, "party", IF tx'[r] = Party(r) THEN "commit" ELSE "party")
        /\ UNCHANGED <<body, database, published, announcing, rivals, crashes>>

\* One INSERT INTO conversation_participants of the loop.
InsertParticipant(r) ==
    \E u \in Party(r) \ tx[r] :
        /\ tx' = [tx EXCEPT ![r] = @ \cup {u}]
        /\ Goto(r, "party", IF tx'[r] = Party(r) THEN "commit" ELSE "party")
        /\ UNCHANGED <<body, database, published, announcing, rivals, crashes>>

\* Mutant: an error of COMMIT is taken for a duplicate and answered 409.
CommitOrConflict(r) ==
    /\ convs' = convs \cup {r}
    /\ parts' = [parts EXCEPT ![r] = tx[r]]
    /\ rivals' = [s \in Creates |-> IF s # r /\ (s \in Open \/ pc[s] \in {"count", "begin"})
                                    THEN rivals[s] \cup {r} ELSE rivals[s]]
    /\ \/ Goto(r, "commit", "created") /\ note' = [note EXCEPT ![r] = "event"]
       \/ Goto(r, "commit", "conflict") /\ UNCHANGED note
    /\ tx' = [tx EXCEPT ![r] = {}]
    /\ UNCHANGED <<body, saved, published, told, crashes>>

\* COMMIT; if its answer is lost the rows are there all the same.  Only after
\* a success the handler starts the announcing goroutine and answers 201.
Commit(r) ==
    /\ convs' = convs \cup {r}
    /\ parts' = [parts EXCEPT ![r] = tx[r]]
    /\ rivals' = [s \in Creates |-> IF s # r /\ (s \in Open \/ pc[s] \in {"count", "begin"})
                                    THEN rivals[s] \cup {r} ELSE rivals[s]]
    /\ \/ Goto(r, "commit", "created") /\ note' = [note EXCEPT ![r] = "event"]
       \/ Goto(r, "commit", "failed") /\ UNCHANGED note
    /\ tx' = [tx EXCEPT ![r] = {}]
    /\ UNCHANGED <<body, saved, published, told, crashes>>

-----------------------------------------------------------------------------
(* The goroutine that announces a conversation.                            *)

\* PublishEvent to the conversation's channel; its error is only logged.
AnnounceConversation(r) ==
    /\ note[r] = "event"
    /\ note' = [note EXCEPT ![r] = "names"]
    /\ UNCHANGED <<body, pc, tx, database, published, told, rivals, crashes>>

\* Mutant: without the names nobody is told.
LoadNamesOrStop(r) ==
    /\ note[r] = "names"
    /\ ConnFree
    /\ \E next \in {"users", "none"} : note' = [note EXCEPT ![r] = next]
    /\ UNCHANGED <<body, pc, tx, database, published, told, rivals, crashes>>

\* The query for display names; if it fails the events go without them.
LoadNames(r) ==
    /\ note[r] = "names"
    /\ ConnFree
    /\ note' = [note EXCEPT ![r] = "users"]
    /\ UNCHANGED <<body, pc, tx, database, published, told, rivals, crashes>>

\* One goroutine per recipient calls PublishUserEvent, in any order.
TellUser(r) ==
    /\ note[r] = "users"
    /\ \E u \in Recipients(r) \ told[r] : told' = [told EXCEPT ![r] = @ \cup {u}]
    /\ UNCHANGED <<body, pc, tx, database, published, note, rivals, crashes>>

-----------------------------------------------------------------------------
(* POST /api/messages.                                                     *)

\* The body's, the id's and the user's checks.
SendPost(p) ==
    /\ \E next \in {"invalid", "member"} : Goto(p, "idle", next)
    /\ UNCHANGED <<body, tx, database, published, announcing, rivals, crashes>>

\* Mutant: whoever knows the conversation may post.
CheckMemberAny(p) ==
    /\ ConnFree
    /\ Goto(p, "member", IF Into[p] \in convs THEN "save" ELSE "forbidden")
    /\ UNCHANGED <<body, tx, database, published, announcing, rivals, crashes>>

\* IsUserInConversation.
CheckMember(p) ==
    /\ ConnFree
    /\ Goto(p, "member", IF By[p] \in parts[Into[p]] THEN "save" ELSE "forbidden")
    /\ UNCHANGED <<body, tx, database, published, announcing, rivals, crashes>>

\* The INSERT of SaveMessage; its answer may be lost.
SaveMessage(p) ==
    /\ ConnFree
    /\ saved' = saved \cup {p}
    /\ \E next \in {"author", "failed"} : Goto(p, "save", next)
    /\ UNCHANGED <<body, tx, convs, parts, published, announcing, rivals, crashes>>

\* The second query of SaveMessage; its error is dropped.
LoadAuthor(p) ==
    /\ ConnFree
    /\ Goto(p, "author", "publish")
    /\ UNCHANGED <<body, tx, database, published, announcing, rivals, crashes>>

\* PublishMessage; whatever it returns the answer is 201.
PublishMessage(p) ==
    /\ Goto(p, "publish", "posted")
    /\ published' = published \cup {p}
    /\ UNCHANGED <<body, tx, database, announcing, rivals, crashes>>

-----------------------------------------------------------------------------
\* A statement, or the wait for a connection, ends with an error and no effect:
\* the handler answers 500 and the deferred Rollback ends the transaction.
\* Only the author's query may fail without harm.
Fail(q) ==
    /\ pc[q] \in Statements
    /\ pc' = [pc EXCEPT ![q] = IF pc[q] = "author" THEN "publish" ELSE "failed"]
    /\ tx' = [r \in Creates |-> IF r = q THEN {} ELSE tx[r]]
    /\ UNCHANGED <<body, database, published, announcing, rivals, crashes>>

\* The process dies with its handlers and goroutines; Postgres rolls back what
\* was not committed.
Crash ==
    /\ crashes < MaxCrashes
    /\ crashes' = crashes + 1
    /\ pc' = [q \in Requests |-> IF InFlight(q) THEN "lost" ELSE pc[q]]
    /\ tx' = [r \in Creates |-> {}]
    /\ note' = [r \in Creates |-> "none"]
    /\ UNCHANGED <<body, database, published, told, rivals>>

CreateStep(r) ==
    \/ LookForTwin(r) \/ CountUsers(r) \/ Begin(r)
    \/ InsertConversation(r) \/ InsertParticipant(r) \/ Commit(r)
PostStep(p) == CheckMember(p) \/ SaveMessage(p) \/ LoadAuthor(p) \/ PublishMessage(p)
NoteStep(r) == AnnounceConversation(r) \/ LoadNames(r) \/ TellUser(r)

Next ==
    \/ \E r \in Creates : SendCreate(r) \/ CreateStep(r) \/ NoteStep(r)
    \/ \E p \in Posts : SendPost(p) \/ PostStep(p)
    \/ \E q \in Requests : Fail(q)
    \/ Crash

Spec == Init /\ [][Next]_vars

(* Statements return, and the pool serves waiters in order (puddle's        *)
(* semaphore), hence strong fairness while the last connection comes and    *)
(* goes.  The Publish methods are taken to return: Hub says when they do.   *)
Fairness ==
    /\ \A r \in Creates : SF_vars(CreateStep(r)) /\ SF_vars(NoteStep(r))
    /\ \A p \in Posts : SF_vars(PostStep(p))

FairSpec == Spec /\ Fairness

-----------------------------------------------------------------------------
(* Properties.                                                             *)

\* Whatever fails, whoever crashes, a conversation is there with all it takes
\* or not at all: its creator, everybody named, accounts only, two if it is
\* direct; and nobody takes part in one that is not there (repo.go:170-277).
ConversationsWhole ==
    \A r \in Creates :
        IF r \in convs
        THEN /\ parts[r] = ({By[r]} \cup ToSet(body[r].named)) \ {Nil}
             /\ parts[r] \subseteq Accounts
             /\ Direct(r) => Cardinality(parts[r]) = 2
        ELSE parts[r] = {}

\* Two direct conversations of one pair exist only if one was committed while
\* the other's handler stood between its check and its commit: a commit done by
\* the time its answer is lost is found by the user's retry and by the peer's
\* later request (repo.go:205-222, 252-276).
TwinsOnlyByRace ==
    \A r, s \in convs :
        r # s /\ Direct(r) /\ Direct(s) /\ parts[r] = parts[s] =>
            r \in rivals[s] \/ s \in rivals[r]

\* No account outside a conversation is told of it, and none before it is
\* there for everybody to open (main.go:207-297).
OnlyPartyTold ==
    \A r \in Creates : told[r] \cap Accounts # {} =>
        r \in convs /\ told[r] \cap Accounts \subseteq parts[r]

\* A message that is saved, or goes out to the sockets, has an author who
\* takes part in its conversation; what goes out is saved, and an answer 201
\* means both, although the answer of the INSERT may be lost (main.go:378-405).
PostsSound ==
    /\ \A p \in saved : By[p] \in parts[Into[p]]
    /\ published \subseteq saved
    /\ \A p \in Posts : pc[p] = "posted" => p \in published

\* Every handler answers unless the process dies, even if the pool has one
\* connection: nobody waits for a connection while it holds one (pool.go:23,
\* repo.go:226-276).
RequestsAnswered == \A q \in Requests : InFlight(q) ~> ~InFlight(q)

\* Whoever was answered 201 and whoever takes part in the new conversation is
\* told of it, unless the process dies first, with or without display names
\* (main.go:207-297).
PartyTold ==
    \A r \in Creates : pc[r] = "created" ~> parts[r] \subseteq told[r] \/ crashes > 0

\* What the check of CreateConversation and its error are for (repo.go:14, 205;
\* main.go:199): two users have at most one direct conversation.
OneDirectPerPair ==
    \A r, s \in convs : Direct(r) /\ Direct(s) /\ parts[r] = parts[s] => r = s

-----------------------------------------------------------------------------
(* The abstract specification.                                             *)

\* What the caller of q has been told; an error 500, like no answer, leaves open
\* whether the request was carried out.
Told(q) ==
    CASE pc[q] \in {"created", "posted"} -> "ok"
      [] pc[q] \in {"invalid", "conflict", "forbidden"} -> "refused"
      [] OTHER -> "none"

\* Nobody listens for uuid.Nil.
Abstract == INSTANCE Ledger WITH
    asked <- [r \in Creates |-> Party(r)],
    party <- parts,
    heard <- [r \in Creates |-> told[r] \ {Nil}],
    kept <- saved,
    sent <- published,
    answer <- [q \in Requests |-> Told(q)]

\* The handlers with their statements, the goroutines and the crashes do nothing
\* the ledger does not: a conversation is there at once and whole before anyone
\* hears of it, a 201 tells of what is there to stay, and a request answered
\* with a refusal is never carried out (main.go:153-297, 335-409; repo.go:151-277).
ImplementsLedger == Abstract!Spec
=============================================================================
