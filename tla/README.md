# A verification of go-realtime-chat in TLA+

A chat server in Go (`src/main.go`, `src/backend/`) keeps users, conversations,
messages and refresh tokens in Postgres, relays live events between its processes
through Redis, and pushes them over websockets to a client in plain JavaScript
(`src/frontend/script.js`). The modules here model what the server does to shared
state, and how a page of the client keeps its socket and its lists of messages; TLC
checks them on small instances, and TLAPS proves every safety property of the runs
for every instance. The
repository has no tests, so its code and comments are the only reference.

## The system

| component | state | operations | talks to |
|---|---|---|---|
| hub (`backend/ws/hub.go`) | `clients`: room key -> set of connections, behind an RWMutex; nil or a Redis client | AddClient, RemoveClient, PublishMessage, PublishEvent, PublishUserEvent, UpdatePresence, HandleClientMessage, runPubSub | Redis PUBLISH / PSUBSCRIBE, sockets |
| websocket endpoint (`backend/ws/ws.go`) | one `Client` and one reader goroutine per socket | ServeWS, Client.send | hub, store, access tokens |
| HTTP handlers (`main.go`) | none of their own | create a conversation, post a message, reads | store, hub |
| store (`backend/store/repo.go`, `pool.go`) | tables; at most 10 connections | CreateConversation, SaveMessage, IsUserInConversation, selects | Postgres |
| sessions (`backend/auth.go`) | `refresh_tokens`; the browser's cookies | login, refresh (rotation), logout | Postgres |
| access tokens (`backend/auth.go`) | none (JWT) | sign, parse, find in a request | - |
| browser client (`frontend/script.js`) | active conversation, message lists, one socket, timers | open, send, connect, reconnect, typing, log in and out | the HTTP handlers, one websocket |

What is hard about it:

* *Concurrency in a process.* Handlers, one reader per socket and the relay share
  the registry. Two of the three send loops range over an inner map after they
  released the lock; the scan for a user's sockets holds the read lock while it
  writes to sockets, and those writes have no deadline.
* *Redis between processes.* A PUBLISH may succeed though its caller sees an error;
  the Redis client repeats commands on its own, the hub retries messages and then falls
  back to local sockets; a subscription may be down, or its buffer full.
* *Check, then act, in two statements.* The rotation of a refresh token, and the
  look for an existing direct conversation, both read first and write later.
* *Lost answers and crashes.* A statement may take effect and still report an
  error; a process may die between two statements, or between saving and
  publishing.
* *Callbacks in the client.* Between an `await` and its answer the user may have
  opened another conversation, logged out or sent again; a fetched history replaces a
  list that the socket and `onSend` write to as well; a socket that was replaced still
  has its close event to come, and timers fire for what is no longer there.

`PROJECT.json` lists each hazard at its line, with the properties that watch it.

## Modules

| module | models | how |
|---|---|---|
| `Broadcast` | what the hub promises its callers | abstract: issue, attach, detach, deliver |
| `Hub` | `hub.go`, `ws.go`, several processes, one Redis | one action per step between two points where another goroutine can interfere |
| `MCHub` | instances | four runs |
| `HubProofs`, `HubOrderProofs`, `HubCopiesProofs` | theorems about `Hub` | TLAPS |
| `Sessions`, `MCSessions` | refresh tokens, the cookie jar, lost and reordered replies | one action per SQL statement, request and reply |
| `SessionsProofs` | theorems about `Sessions` | TLAPS |
| `Ledger` | what the handlers promise their callers | abstract: refuse, create, tell, keep, send |
| `Conversations`, `MCConversations` | POST of a conversation and of a message, the transaction, the pool, the announcing goroutine | one action per SQL statement and per Publish call |
| `ConversationsProofs` | theorems about `Conversations` | TLAPS |
| `ChatLink`, `MCChatLink` | the client's connection: opening a conversation, `wsConnect`, its socket, timers, log-in and log-out | one action per callback, up to the next `await` |
| `ChatLinkProofs` | theorems about `ChatLink` | TLAPS |
| `ChatView`, `MCChatView` | the client's lists: `onSend`, frames, the fetched history; the server's save and publish of a message | one action per callback, SQL statement and publish |
| `ChatViewProofs`, `ChatCountProofs` | theorems about `ChatView` | TLAPS |

How they fit together: a Publish call is one step of `Conversations` and a caller of
`Hub`. The server half of `ChatView` takes from `Conversations` that a message is
saved before it is published, and from `Hub` what may happen on the way to a socket:
a frame is lost, repeated any number of times (commands that fail after they took
effect), or overtaken (the fallback goes past the relay's queue). `ChatView` asks nothing of the moment at
which `wsConn` is for which conversation, which is what `ChatLink` is about. The
cookie of `ChatLink` may vanish at any time, as in `Sessions`.

Definitions marked "Mutant" are not part of a model. Each is the definition after
it with a bug that could have been written, and the run of one property must find
it; they show that the property looks at the code.

### Hub

* `registered[s]` and `rooms[s]` are the inner maps and the outer map of
  `h.clients` of process `s`. `loop[g]` is the send loop a goroutine is in: what is
  left to send, whether the map it ranges over is still in the registry, whether it
  holds the read lock. `pc` and `attempt` are a Publish method's place and the
  variable of its retry loop; `tries` counts the commands that failed within the call of
  `redis.Publish` under way, `sends` all commands of a payload; `chan[s]` is go-redis's
  channel; `got[c]` is what was written to a socket.
* `Publish`, `SetPresence`, `RedisPublish`, `BroadcastLocal`, `Send`, `EndLoop` are
  the steps of the four methods. One call of `redis.Publish` sends up to `MaxSends`
  commands, as `main.go:36-42` leaves go-redis's `MaxRetries` at its default of 3:
  `RedisRetry` is a command that failed, executed or not, and is sent again without
  the hub's knowledge, `RedisPublish` the last one, with three outcomes: success, failure
  before Redis, failure after it. So a call that returns nil may have published several
  times. `AfterFailure` holds the hub's own retry count and the fallback, which only
  `PublishMessage` has.
* `AddClient` and `RemoveClient` wait for readers, and change what a loop that
  ranges without the lock may still meet, as Go's map iteration does: an entry
  added may or may not be produced, one deleted is not produced later. That the
  runtime may instead stop the process is `Crash`.
* A write waiting for an `RWMutex` stops new readers in Go; in the model readers may
  still enter, which allows more behaviours. `Send` is one step: picking the client
  and writing to it, under the client's own mutex.
* Rooms are keyed by the raw query parameter of the socket, publishers use the
  canonical UUID; `Canon` keeps the two spellings apart.

### Sessions

A token is a random number and named by the request, and the try within it, that
made it. `rows` is the table, a row named by the login that inserted it; `jar` is
each browser's cookies, with an old cookie of path `/api` that logout also clears.
`SelectRow` and `UpdateRow` are the two halves of `rotateRefreshToken`, and the
candidate list with its repeated first entry is as the handler builds it. A
statement succeeds, fails without effect, or takes effect and reports an error.
`retired`, `racing` and `disturbed` only record history for the properties. Two
rotations of one token that overlap both succeed, and the first to write gives away
a token that is no longer in the row: `SessionsLive` speaks of browsers whose
requests do not overlap, and `RetiredTokensDead` bounds the rest.

### Conversations

`tx[r]` are the participant rows of an open transaction, `convs` and `parts` what is
committed. `Party` is the deduplicated list CreateConversation inserts, `Recipients`
the one the handler announces to; they are computed by two different pieces of code
and differ in how they treat `uuid.Nil`. `ConnFree` is the pool: only a transaction
holds a connection from one step to the next. `Fail` is any statement, or wait for a
connection, that ends with an error; `Commit` and `SaveMessage` may also take effect
and report one. `Ledger` has no statements, goroutines or crashes: under the mapping at
the end of `Conversations` a commit is its `Create`, whether answered or not, a 4xx its
`Refuse`, which finds nothing done and after which nothing is, and an error 500, a lost
answer or a crash is no step at all. It does not say that a pair has one direct
conversation, which the code does not keep; `TwinsOnlyByRace` says what it keeps.

### ChatLink

* `active`, `wsConn`, `manualClose` are the variables of that name, `timer` and
  `debounce` say whether `reconnectTimer` and `wsConnectDebounceTimer` are set, and
  for which conversation; `notice` is an error the page shows. `socks[k]` is a call of
  `wsConnect` and then the WebSocket it made: its membership check is under way, the
  socket connects, is open, or is "doomed": it is ending and its close event is still
  to come. A socket that is no longer `wsConn` goes on like any other.
* `OpenConversation` is `openConversation` up to its `await`, by a `Click` or by `Login`,
  `MessagesFetched` and `FetchFailed` the rest. A click needs no logged-in page, as a late
  answer of `loadConversations` may fill the list of one that has logged out; `DebounceFires` and `TimerFires` are the timers' callbacks and the part of
  `wsConnect` before its `await`, `CheckPassed`, `CheckDenied` and `CheckError` the
  rest of it; `SockOpens` and `SockClosed` are the socket's events. `LeavePage` is what
  log-out and a 401 do: the debounce timer and the requests under way stay.
* Answers to log-in and log-out come at any time, whatever the page shows by then.
  `crossed` records that the last `wsConnect` began while another waited for its
  check, `calm` that user, network and server errors leave the page alone from here.

### ChatView

* `list[c]` is `state.messages[c]`, in which a post is temporary or confirmed; `fetch`
  is the history asked for, and how many rows its SELECT saw; `wire` is what was
  written to `wsConn` and not heard yet. `saved[c]` are the table's rows of a
  conversation, `stage` how far the server is with a post. `Send` and `SendFailed` are `onSend`, `Hear` is the message
  handler: `ListWith` takes away the first temporary message of that author and text
  and adds the frame unless it is there. `HistoryArrives` replaces the list. `Publish` is
  the frame that ends a post's publishing, which as the fallback's may go past frames on
  the way, or is lost; `Stray` is one more copy, of a command executed and repeated.
* `overlap`, `gone` and `stuck` record history: which posts were under way at the same
  time, or overtook each other; which the page may miss, as a frame passed it by or a
  history, or the echo of another, took them from the list; and whose failure found no
  temporary message to remove.

## Runs

| run | instance | shows |
|---|---|---|
| `hub_churn` | 1 process that may die or lose its subscription, 3 connections (two rooms), a message with 2 attempts and a user event | `RegistryExact`, `CopiesBounded`, `SendLoopsComplete`, `ImplementsBroadcast` |
| `hub_fanout` | 2 processes with a connection each, a message and a user event, each with a command that go-redis may repeat | `CopiesBounded`, `RelayOrder` |
| `hub_frames` | 2 processes, a presence frame, a message, repeated commands, one peer that may stop reading | `CallsReturn`, `RelayDelivers` |
| `hub_scan` | 1 process, 3 connections in 2 rooms, one of a user who is no participant, a user event and a frame | `AudienceSound`, `ConnectionsSettle` |
| `sessions` | 2 browsers, 2 logins, 2 refreshes, 1 logout | `SessionsLive`, `SessionsStayHome`, `RetiredTokensDead`, `RevivedOnlyByRace`, `RequestsAnswered` |
| `conv_safety` | 2 creates with 7 kinds of body, 2 posts, 1 crash | `ConversationsWhole`, `OnlyPartyTold`, `PostsSound`, `TwinsOnlyByRace`, `ImplementsLedger` |
| `conv_pool` | 2 creates, 1 post, a pool of one | `RequestsAnswered`, `PartyTold` |
| `link` | 2 conversations, 3 calls of `wsConnect` or sockets | `NoSilentEnd`, `OrphansOnlyByOverlap`, `GetsConnected`, `LogoutSettles` |
| `view` | 2 conversations, 2 posts of 4 (three of one text, one of them somebody else's) | `NoMessageTwice`, `TempsAccounted`, `SentStaysShown`, `MissingOnlyInGap`, `OrderOnlyByOverlap` |
| `sessions_revive`, `conv_pair`, `link_socket` | as the above | the three findings below |

Each module's first run also checks its `TypeOK`. Deadlock is not checked: requests
are sent once and the system then rests.

*Bounds.* A connection sends at most one frame and a handler publishes once, since
nothing in the hub depends on earlier calls of a caller but the sockets' history;
two concurrent publications and three connections give every overlap of a loop with
a join, a departure, the last departure and a room that fills again. Two attempts
reach every branch of the retry loop (retry, give up), and two commands in a call that
of go-redis's; the two are not combined in one run, but by `CopiesCorrect`, for any
number of each. A channel of one or two frames fills. One fault, in `hub_churn`, reaches
the abort of a process by Go's check of concurrent map access, a restart with old
sockets and a subscription that resumes; `RelayOrdered` and `AudienceCorrect` hold with
any number of faults, and `hub_scan` was run with one as well, without an error. In
`hub_scan` two connections join and leave while the event's scan holds the read lock for
the third, or for themselves. For sessions, two
refreshes and a logout are the least for every race of two writers and a reader of
one row; the second browser is there to see that nothing crosses over. For
conversations, two writers; crashes do not interact, so one is enough. In `link` three
slots hold a socket that lives, one that is closing and a call that waits for its
check, or two calls that overlap. `Connect` says in its guard how many may overlap:
`Overlaps` bounds the checks under way and the sockets earlier overlaps left over, two in
the runs, any number in the theorems. The reconnect delays and their growth are not counted. In `view` two posts
reach every race of a message with itself (echo, doubled frame, history, failure) and
of two messages; which two of the four kinds is chosen as the run goes. A history
holds one message, so that a message can be too old for it, and two frames are on
the way at most; how many copies of a message come in all is not bounded. An instance with four posts,
a history of two and five frames was simulated as well, without an error.
Symmetry is used in safety runs only, over model values that play the same part.

*Fairness.* The Go scheduler runs every goroutine that can run (weak fairness);
Redis commands and SQL statements end, with a result or an error. Waiting writers of
an RWMutex and waiters for a pool connection are served although others come and go
(strong fairness): Go blocks new readers once a writer waits, and the pool's
semaphore is first come, first served. Nothing is assumed of a loop that still has
to write to a peer that stopped reading, of users, of peers, of faults or of
starts. In the client, requests are answered or fail, timers fire and a socket that ends
says so (weak fairness). A handshake may be overtaken by the reconnect timer, which
closes the socket and tries again, but not for ever: the delay doubles until a socket
opens, so opening has strong fairness. That is also as much as `GetsConnected` says: a
socket opens at some moment, or an error is shown. The close event of an earlier socket
may come after that and replace the open one; that such replacements end is not
claimed, `NoSilentEnd` only that the page does not rest without a socket. Nothing is
assumed of the user, or of drops
and errors, and `GetsConnected` speaks of what follows once these end (`Calm`, which
nothing forces). The Publish methods are taken to return in `Conversations`; `CallsReturn` of
`Hub` says under which condition they do.

## Findings

* `sessions_revive`: a rotation sets `revoked=false` by the row's id, so one that
  overlaps a logout undoes it. `RevivedOnlyByRace` bounds this: only a refresh that
  had read the row before can.
* `conv_pair`: two overlapping requests create two direct conversations of the same
  pair. `TwinsOnlyByRace` bounds it.
* `link_socket`: `wsConnect` waits for its membership check and then assigns `wsConn`
  whatever happened meanwhile, so the page may rest with a socket for a conversation
  that is not the active one, and another socket open that nobody will close.
  `OrphansOnlyByOverlap` and `NoSilentEnd` bound it: only connects that overlap do this.

Also seen, and allowed for in the properties: the echo of a message that the list
already has, from a history, takes away another temporary message with the same text,
so a message under way is not shown until its own echo; and a post that fails after
the user went to another conversation leaves its temporary message in the first.

## Proofs

Each proof module proves its theorems from the module's named assumption on the
constants alone, for all values of them. Those constants include the bounds: the
theorems speak of any number of attempts, commands, faults, overlapping connects, posts
and frames.

`HubProofs`:

* `TypeCorrect`: `TypeOK` is not inductive, because `RedisPublish` increments
  `attempt`. `AttemptsLeft` adds that a caller about to publish, or to set presence,
  has an attempt left; this follows from `AfterFailure`. `LoopsHavePayload` adds
  that only a loop with a payload has clients left.
* `RegistryCorrect`: `RegistryExact` is inductive relative to `TypeOK`. The outer map
  needs the inner one: the last departure drops exactly its own room.
* `AudienceCorrect`: by the invariant `SoundInv`. What a socket has comes from a loop,
  so `LoopsSound` says what loops hold: an issued payload, addressed to everybody
  left, all of them registered on the loop's process. Loops of the relay start from the
  channel, so `ChanIssued`; that users take part comes from the check at the
  handshake, so `Vetted`; and loops end up at registered clients because of
  `RegistryExact`.
* `HubImplementsBroadcast`: `SoundInv` gives the guards of the abstract `Deliver`
  at each `Send`; the other steps map to `Issue`, `Attach`, `Detach` or a stutter.
  The mapping is at the end of `Hub`.
* `SendLoopsCorrect`: `LoopsComplete` says of a running loop that everyone it
  started with is still to be sent to, has the payload, or is no longer open.

`HubOrderProofs`, for `RelayOrdered`:

* `OrderInv` says of two payloads whose first command succeeded that one is nowhere
  ahead of the other, on no process, neither in its channel nor between its channel,
  its relay's loop and its sockets (`Behind`). The relay keeps it because it takes the
  head, and only when its loop is over; a send keeps it because only the relay sends
  such a payload.
* That is `CleanStep` and `RangeInv`: a payload gets there only by its first command, as a
  loop of its caller ends, after a command was sent, in an error (`ModeInv`, as the
  mode of a process does not change while it lives). `FreshInv` says that a payload not
  yet published is nowhere, so its first command puts it behind all others; `HomeInv` that
  loops stay on their process.

`HubCopiesProofs`, for `CopiesCorrect`: `CopyInv` bounds what a socket has of a payload,
together with what waits for it in its process's channel and what the loops of the relay
and of the caller still owe it. A loop owes a payload also to a connection that has not
joined yet, because one that joins may be added to a map being ranged over. Then
only a command, which `sends` counts, and the start of a caller's own loop
increase the sum; `FallInv` says that the latter, after a command, is a message's.
`BudgetInv` bounds the commands: at most `MaxSends` for each call that returned, and
those of the call under way.

`ConversationsProofs` has one inductive invariant, and the six properties follow:

* `ConversationsCorrect`, `AnnouncementsCorrect`: `CreateInv` says that an open
  transaction has inserted only participants of its own request, all of them when it is
  to commit, and that nothing is announced of a conversation that is not committed. So a
  commit, even one that reports an error, makes a whole conversation, a crash makes
  none, and the recipients are participants of what was committed.
* `TwinsCorrect`: `TwinInv` says that once a request found no conversation of its pair,
  one that exists now was committed after that, and so is in `rivals`. It relies on a
  commit taking effect before its handler goes on, or never.
* `PostsCorrect`: `PostInv` says that the author of a post that is to be saved takes part
  in its conversation, that it was not saved before, and that what is to be published was.
* `ConversationsImplementLedger`: each step is one of `Ledger` or a stutter, a lemma for
  each handler. `CreateInv` and `PostInv` say that nothing was done of a request while it
  may still be refused, and that a commit, which may report an error, is the first.
  Announcing to `uuid.Nil` is a stutter, to anybody else a `Tell` of a participant.

`SessionsProofs`, likewise:

* `RowsInv` says whose token a row may hold: the login's own, or one made by a refresh
  of the same browser after the login's reply. `FreshInv` says that a request has not
  used the token it will make next (the tokens of its tries count down), so a token is
  in one row and, once retired, in none. With it a SELECT cannot find a retired token:
  `RetiredDead`.
* `HeldInv` says that a browser, and the candidates and replies of its requests, hold
  tokens of that browser only; with `PicksInv`, which says the same of the rows they
  found, this is `SessionsHome`.
* `RaceInv` says that a refresh about to write to a revoked row is in `racing`:
  `RevivedByRace`.
* `LiveInv` says of a browser never disturbed that it has one request at a time, and
  that its session is alive in the jar or in the reply under way. That another browser
  cannot end it is `OtherBrowser`, from `RowsInv` and `HeldInv`: `SessionsLiveCorrect`.

`ChatLinkProofs`:

* `CheckInv`: unless connects overlap, one check is under way and `wsConn` is null while
  it is, so no living socket is replaced: `OrphansByOverlap`.
* `NeverSilent`: `RetryInv` says that a page with its messages loaded, no debounce
  pending and no error shown has a timer, a check, or a socket that will say when it
  ends, and that `manualClose` does not keep that end from setting the timer; `SockInv`
  that the check or socket is for the active conversation. `DebounceInv` and `FetchInv`
  say that the connect that is still to come is for that conversation too.

`ChatViewProofs` first proves what the operators on sequences do (`RemoveFacts`,
`InsertFacts`, `SubSeqFacts`, ...) and from these what a history and a frame do to a list
(`HistoryFacts`, `ListWithFacts`), then:

* `TypeCorrect`, `OnceCorrect`: `Base` says that the table of a conversation holds what
  was committed to it, once (`SavedInv`), that frames are of posts that were saved
  (`WireInv`), and that a list holds committed messages and the user's own temporary ones
  of its own conversation, each once (`ListInv`). `TypeOK` needs it: that frames are of
  `wsConn`'s conversation holds only as a post on the wire has its place for good.
* `MissingCorrect`: `MissingOnlyInGap` is inductive relative to `Base`. A history cannot
  drop what is in none of its rows, as published messages are in the table.
* `OrderCorrect`: `Ordered` says of two posts that did not overlap that the older was
  published before the newer was saved, that it is then listed first, or its frame is
  ahead of every frame of the other. That a publish keeps this needs
  `MissingOnlyInGap`: a published message not on the wire is listed.

`ChatCountProofs` counts, by `Keeps`, which names the ways in which a step may change two
sets and keep the first the smaller (`KeepsCount`):

* `TempsCorrect`: `TempsAccounted` is inductive relative to `Base`. A frame takes at most
  one post from those that account for temporary messages, and then a temporary message
  of its text goes too, or there is none.
* `ShownCorrect`: `SentStaysShown` is not inductive. `ShownInv` says that the posts owed a
  confirmed message, having no temporary one any more, are no more than the confirmed
  ones; so a frame may take the temporary message of another post of its text, because it
  is itself confirmed in exchange.

Each of these invariants was checked by TLC on the instances of the runs before it was
proved. The lists of `ChatView` are taken apart with operators that are not recursive
(`SubSeq`, `SelectInSeq`, `RemoveAt`), about which the provers can reason.

Only model-checked: all liveness, as fairness and ENABLED are out of the prover's reach,
and the three properties that runs show violated.

## Not modelled

* Effects that come late: a COMMIT, an INSERT or a PUBLISH that Postgres or Redis carries
  out after its caller was given an error and went on (a context that ends, a connection
  that breaks with the command in flight). A statement or command takes effect before its
  caller goes on, or never; a late COMMIT could make a second direct conversation though
  the user's retry began after the error, which `TwinsOnlyByRace` excludes, and a late
  PUBLISH one more copy out of order.

* Single reads that change nothing (lists of conversations and users, health); `ws_check`
  and the messages' SELECT are in `ChatLink` and `ChatView`.
* JWTs: signatures and claims, and tokens in a header or in the URL, which the client
  does not use. Passwords. Logging, titles and display names, payload contents.
* The presence key in Redis, which no code reads, and `Hub.Close`, which never runs
  because `main` leaves by `log.Fatal`.
* In the client: the list of conversations and its modal, the typing, presence and read
  status, rendering, a reload of the page, the back-off's delays, a WebSocket
  constructor that throws.
* Routing, environment, DSN parsing, seeds, static pages.

`PROJECT.json` says so per component, and per hazard why no property covers it.

## Plan

1. `Delivery`: the server half of `ChatView` replaced by `Conversations` and `Hub`
   themselves, on one message and one page, to check what `ChatView` takes from them.
2. Pure operators checked over bounded inputs: the back-off of `PublishMessage` and
   `scheduleReconnect`, the order in which `GetUserIDFromRequest` looks for a token, the
   peer's name in an announcement.
3. The client's list of conversations against the events about new ones.
