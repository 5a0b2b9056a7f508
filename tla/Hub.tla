-------------------------------- MODULE Hub --------------------------------
(***************************************************************************)
(* The realtime hub (backend/ws/hub.go) with the websocket endpoint that   *)
(* feeds it (backend/ws/ws.go), on several server processes that share one *)
(* Redis.  A goroutine that calls PublishMessage, PublishEvent,            *)
(* PublishUserEvent or UpdatePresence is a member of Callers: an HTTP      *)
(* handler's goroutine, or the reader goroutine of a websocket running     *)
(* HandleClientMessage.  The payload it publishes is named by the caller.  *)
(* Each process has one more goroutine, runPubSub, that relays what Redis  *)
(* sends; it is named by its server.                                       *)
(*                                                                         *)
(* Bounds: a client is one connection and sends at most one frame; a       *)
(* handler publishes once; MaxFaults bounds crashes and lost               *)
(* subscriptions.  A command that Redis executes, it executes before its   *)
(* call ends.  A conversation key is the registry's string: the raw query  *)
(* parameter of a websocket, the canonical form of a UUID everywhere else  *)
(* (Canon).                                                                *)
(*                                                                         *)
(* Definitions marked "Mutant" are no part of the model: each is a variant *)
(* of the definition after it, with a bug seeded for one property.         *)
(***************************************************************************)
EXTENDS Naturals, Sequences, FiniteSets, SequencesExt

CONSTANTS
    Servers,        \* server processes
    Clients,        \* websocket connections
    Handlers,       \* HTTP handler goroutines that publish one payload each
    Users, Keys,
    Canon,          \* uuid.Parse(k).String(): the canonical form of a key
    Members,        \* <<user, canonical key>>: rows of conversation_participants
    Host,           \* the server a caller runs on
    Owner,          \* the user of a connection (the token's "sub")
    Op,             \* the method a caller invokes
    Target,         \* its argument: a key, or the user for "user"; a client's room
    MaxAttempts,    \* maxAttempts of PublishMessage (5)
    MaxSends,       \* commands go-redis sends for one call: MaxRetries (3) and one
    ChanCap,        \* frames buffered between Redis and runPubSub (100)
    MaxFaults,      \* processes that die, subscriptions that break: bound of the model
    Senders,        \* connections whose peer may send a frame; bound of the model
    Stalled,        \* connections whose peer may stop reading: writes may block
    None            \* no payload

Callers == Handlers \cup Clients
Goroutines == Callers \cup Servers

ASSUME HubAssumption ==
    /\ Handlers \cap Clients = {} /\ Callers \cap Servers = {}
    /\ None \notin Callers
    /\ Canon \in [Keys -> Keys]
    /\ \A k \in Keys : Canon[Canon[k]] = Canon[k]
    /\ Members \subseteq Users \X Keys
    /\ Host \in [Callers -> Servers]
    /\ Owner \in [Clients -> Users]
    /\ Op \in [Callers -> {"message", "event", "user", "presence"}]
    /\ Target \in [Callers -> Keys \cup Users]
    /\ \A c \in Clients : Target[c] \in Keys /\ Op[c] \in {"event", "presence"}
    /\ \A h \in Handlers : IF Op[h] = "user" THEN Target[h] \in Users
                           ELSE Target[h] \in Keys /\ Canon[Target[h]] = Target[h]
    /\ MaxAttempts \in Nat \ {0} /\ MaxSends \in Nat \ {0} /\ ChanCap \in Nat \ {0} /\ MaxFaults \in Nat
    /\ Senders \subseteq Clients /\ Stalled \subseteq Clients

VARIABLES
    mode,       \* mode[s]: "down", "local" (h.redis = nil) or "redis"
    subscribed, \* subscribed[s]: Redis knows the pattern subscription of s
    chan,       \* chan[s]: payloads waiting in pubsub.Channel(), oldest first
    conn,       \* conn[c]: life of a connection
    registered, \* registered[s]: the *Clients in the inner maps of h.clients
    rooms,      \* rooms[s]: the keys of the outer map h.clients
    pc,         \* pc[x]: where the Publish method of caller x stands
    attempt,    \* attempt[x]: calls of redis.Publish that returned
    tries,      \* tries[x]: PUBLISH commands that failed within the call under way
    sends,      \* history: sends[x]: PUBLISH commands of x in all
    loop,       \* loop[g]: the send loop goroutine g is in
    got,        \* got[c]: frames written to c, oldest first
    faults

serverVars == <<mode, subscribed, faults>>
clientVars == <<conn, registered, rooms>>
redisVars  == <<attempt, tries, sends>>
callVars   == <<pc, redisVars>>
vars == <<serverVars, chan, clientVars, callVars, loop, got>>

ConnStates == {"idle", "upgraded", "open", "broken", "closed"}
Finished == {"nil", "err", "lost"}
PcStates == {"idle", "set", "publish", "lookup", "range"} \cup Finished

(* A send loop: the payload, the clients still to be sent to, the clients  *)
(* it started with (for the properties only), whether the inner map it     *)
(* ranges over is still the one in h.clients, and whether it holds RLock.  *)
LoopStates == [cur: Callers \cup {None}, todo: SUBSET Clients,
               started: SUBSET Clients, live: BOOLEAN, locked: BOOLEAN]
NoLoop == [cur |-> None, todo |-> {}, started |-> {}, live |-> FALSE, locked |-> FALSE]

TypeOK ==
    /\ mode \in [Servers -> {"down", "local", "redis"}]
    /\ subscribed \in [Servers -> BOOLEAN]
    /\ faults \in 0..MaxFaults
    /\ chan \in [Servers -> Seq(Callers)]
    /\ conn \in [Clients -> ConnStates]
    /\ registered \in [Servers -> SUBSET Clients]
    /\ rooms \in [Servers -> SUBSET Keys]
    /\ pc \in [Callers -> PcStates]
    /\ attempt \in [Callers -> 0..MaxAttempts]
    /\ tries \in [Callers -> 0..MaxSends - 1]
    /\ sends \in [Callers -> Nat]
    /\ loop \in [Goroutines -> LoopStates]
    /\ got \in [Clients -> Seq(Callers)]

At(g) == IF g \in Servers THEN g ELSE Host[g]

\* Whether client c is one that payload x is for.
Addressed(x, c) ==
    IF Op[x] = "user" THEN Owner[c] = Target[x] ELSE Target[c] = Target[x]

\* The membership check of ServeWS, which parses the key first.
IsParticipant(c) == <<Owner[c], Canon[Target[c]]>> \in Members

\* Mutants: the room is not looked up; user events go to every user; the relay's
\* scopes lack messages.
RecipientsAnyRoom(s, x) == registered[s]
RecipientsAnyUser(s, x) == {c \in registered[s] : Op[x] = "user" \/ Addressed(x, c)}
RecipientsNoMessages(s, x) == {c \in registered[s] : Op[x] # "message" /\ Addressed(x, c)}

\* The clients a lookup finds: those of the inner maps h.clients holds.
Recipients(s, x) == {c \in registered[s] : Target[c] \in rooms[s] /\ Addressed(x, c)}

Looping(g) == loop[g].cur # None

\* A range over h.clients in the user scope holds h.mu.RLock throughout.
ReadLocked(s) == \E g \in Goroutines : At(g) = s /\ loop[g].locked

\* Loops that range, without the lock, over the inner map of key k on s.
Ranging(s, k) ==
    {g \in Goroutines : /\ Looping(g) /\ At(g) = s
                        /\ ~loop[g].locked /\ loop[g].live
                        /\ Target[loop[g].cur] = k}

Init ==
    /\ mode = [s \in Servers |-> "down"]
    /\ subscribed = [s \in Servers |-> FALSE]
    /\ faults = 0
    /\ chan = [s \in Servers |-> <<>>]
    /\ conn = [c \in Clients |-> "idle"]
    /\ registered = [s \in Servers |-> {}]
    /\ rooms = [s \in Servers |-> {}]
    /\ pc = [x \in Callers |-> "idle"]
    /\ attempt = [x \in Callers |-> 0]
    /\ tries = [x \in Callers |-> 0]
    /\ sends = [x \in Callers |-> 0]
    /\ loop = [g \in Goroutines |-> NoLoop]
    /\ got = [c \in Clients |-> <<>>]

-----------------------------------------------------------------------------
(* Processes.                                                              *)

\* main pings Redis once and calls NewHub, with a nil client if the ping fails.
Start(s) ==
    /\ mode[s] = "down"
    /\ \E m \in {"local", "redis"} : mode' = [mode EXCEPT ![s] = m]
    /\ UNCHANGED <<subscribed, faults, chan, clientVars, callVars, loop, got>>

\* The process dies and every goroutine and socket with it.  This is also
\* what the Go runtime does ("concurrent map iteration and map write") when
\* AddClient or RemoveClient writes a map that a loop without the lock is
\* ranging over.
Crash(s) ==
    /\ mode[s] # "down"
    /\ faults < MaxFaults
    /\ faults' = faults + 1
    /\ mode' = [mode EXCEPT ![s] = "down"]
    /\ subscribed' = [subscribed EXCEPT ![s] = FALSE]
    /\ chan' = [chan EXCEPT ![s] = <<>>]
    /\ conn' = [c \in Clients |-> IF Host[c] = s /\ conn[c] # "idle"
                                  THEN "closed" ELSE conn[c]]
    /\ registered' = [registered EXCEPT ![s] = {}]
    /\ rooms' = [rooms EXCEPT ![s] = {}]
    /\ pc' = [x \in Callers |-> IF Host[x] = s /\ pc[x] \notin {"idle"} \cup Finished
                                THEN "lost" ELSE pc[x]]
    /\ loop' = [g \in Goroutines |-> IF At(g) = s THEN NoLoop ELSE loop[g]]
    /\ UNCHANGED <<redisVars, got>>

\* runPubSub subscribes; the Redis client subscribes again after it lost
\* its connection.
Subscribe(s) ==
    /\ mode[s] = "redis"
    /\ ~subscribed[s]
    /\ subscribed' = [subscribed EXCEPT ![s] = TRUE]
    /\ UNCHANGED <<mode, faults, chan, clientVars, callVars, loop, got>>

\* The subscription's connection breaks; what is already buffered stays.
LoseSubscription(s) ==
    /\ subscribed[s]
    /\ faults < MaxFaults
    /\ faults' = faults + 1
    /\ subscribed' = [subscribed EXCEPT ![s] = FALSE]
    /\ UNCHANGED <<mode, chan, clientVars, callVars, loop, got>>

-----------------------------------------------------------------------------
(* Connections: ServeWS, AddClient, RemoveClient.                          *)

\* ServeWS up to the upgrade: the token, the parameter, the membership check.
\* Anything that fails, the database and the upgrade included, ends it.
ServeWS(c) ==
    /\ conn[c] = "idle"
    /\ mode[Host[c]] # "down"
    /\ \/ IsParticipant(c) /\ conn' = [conn EXCEPT ![c] = "upgraded"]
       \/ conn' = [conn EXCEPT ![c] = "closed"]
    /\ UNCHANGED <<serverVars, chan, registered, rooms, callVars, loop, got>>

\* A loop that is ranging over the map c is added to may or may not reach it.
AddClient(c) ==
    LET s == Host[c] IN
    /\ conn[c] = "upgraded"
    /\ ~ReadLocked(s)
    /\ conn' = [conn EXCEPT ![c] = "open"]
    /\ registered' = [registered EXCEPT ![s] = @ \cup {c}]
    /\ rooms' = [rooms EXCEPT ![s] = @ \cup {Target[c]}]
    /\ \E seenBy \in SUBSET Ranging(s, Target[c]) :
         loop' = [g \in Goroutines |->
                    IF g \in seenBy THEN [loop[g] EXCEPT !.todo = @ \cup {c}] ELSE loop[g]]
    /\ UNCHANGED <<serverVars, chan, callVars, got>>

\* The peer closes or vanishes: from here on conn.ReadMessage fails, and so
\* do writes, whose error Client.send ignores.
PeerGone(c) ==
    /\ conn[c] = "open"
    /\ conn' = [conn EXCEPT ![c] = "broken"]
    /\ UNCHANGED <<serverVars, chan, registered, rooms, callVars, loop, got>>

\* Mutant: the inner map is dropped whoever is left in it.
LeavesRoomEmptyAlways(s, c) == TRUE

\* len(m) == 0 once c is deleted from its inner map.
LeavesRoomEmpty(s, c) == {d \in registered[s] : Target[d] = Target[c]} \subseteq {c}

\* The reader goroutine's deferred RemoveClient and Close, once the frame it
\* was handling is dealt with.  A loop never produces an entry deleted before
\* it was reached; deleting the last entry drops the inner map.
RemoveClient(c) ==
    LET s == Host[c]
        k == Target[c]
        last == LeavesRoomEmpty(s, c) IN
    /\ conn[c] = "broken"
    /\ pc[c] \in {"idle"} \cup Finished
    /\ ~ReadLocked(s)
    /\ conn' = [conn EXCEPT ![c] = "closed"]
    /\ registered' = [registered EXCEPT ![s] = @ \ {c}]
    /\ rooms' = [rooms EXCEPT ![s] = IF last THEN @ \ {k} ELSE @]
    /\ loop' = [g \in Goroutines |->
                  IF g \in Ranging(s, k)
                  THEN [loop[g] EXCEPT !.todo = @ \ {c}, !.live = ~last]
                  ELSE loop[g]]
    /\ UNCHANGED <<serverVars, chan, callVars, got>>

-----------------------------------------------------------------------------
(* The send loops: range over the clients, c.send(payload) for each.       *)

BeginLoop(g, x, R) ==
    loop' = [loop EXCEPT ![g] = [cur |-> x, todo |-> R, started |-> R,
                                 live |-> TRUE, locked |-> Op[x] = "user"]]

\* Mutant: the loop stops at the first failed write.
SendStopsOnError(g, c) ==
    /\ c \in loop[g].todo
    /\ loop' = [loop EXCEPT ![g].todo = IF conn[c] = "open" THEN @ \ {c} ELSE {}]
    /\ got' = IF conn[c] = "open" THEN [got EXCEPT ![c] = Append(@, loop[g].cur)] ELSE got
    /\ UNCHANGED <<serverVars, chan, clientVars, callVars>>

\* Client.send: a write to a socket that is gone fails and is ignored.
Send(g, c) ==
    /\ c \in loop[g].todo
    /\ loop' = [loop EXCEPT ![g].todo = @ \ {c}]
    /\ got' = IF conn[c] = "open" THEN [got EXCEPT ![c] = Append(@, loop[g].cur)] ELSE got
    /\ UNCHANGED <<serverVars, chan, clientVars, callVars>>

\* What a Publish method returns when it ends in a local broadcast: nil
\* without Redis, the last publish error when it is the fallback.
Outcome(x) == IF mode[Host[x]] = "redis" THEN "err" ELSE "nil"

\* Mutant: the scan returns without RUnlock.
EndLoopLocked(g) ==
    /\ Looping(g)
    /\ loop[g].todo = {}
    /\ loop' = [loop EXCEPT ![g] = [NoLoop EXCEPT !.locked = loop[g].locked]]
    /\ pc' = IF g \in Callers THEN [pc EXCEPT ![g] = Outcome(g)] ELSE pc
    /\ UNCHANGED <<serverVars, chan, clientVars, redisVars, got>>

EndLoop(g) ==
    /\ Looping(g)
    /\ loop[g].todo = {}
    /\ loop' = [loop EXCEPT ![g] = NoLoop]
    /\ pc' = IF g \in Callers THEN [pc EXCEPT ![g] = Outcome(g)] ELSE pc
    /\ UNCHANGED <<serverVars, chan, clientVars, redisVars, got>>

-----------------------------------------------------------------------------
(* PublishMessage, PublishEvent, PublishUserEvent, UpdatePresence.         *)

\* Mutant: the caller writes to the local sockets itself although there is Redis.
PublishLocalFirst(x) ==
    /\ pc[x] = "idle"
    /\ mode[Host[x]] # "down"
    /\ x \in Clients => x \in Senders /\ conn[x] = "open"
    /\ pc' = [pc EXCEPT ![x] = "lookup"]
    /\ UNCHANGED <<serverVars, chan, clientVars, redisVars, loop, got>>

\* The call, up to the test of h.redis.  A reader goroutine makes it from
\* HandleClientMessage, on a frame its peer sent.
Publish(x) ==
    /\ pc[x] = "idle"
    /\ mode[Host[x]] # "down"
    /\ x \in Clients => x \in Senders /\ conn[x] = "open"
    /\ IF mode[Host[x]] = "local"
       THEN pc' = [pc EXCEPT ![x] = "lookup"]
       ELSE pc' = [pc EXCEPT ![x] = IF Op[x] = "presence" THEN "set" ELSE "publish"]
    /\ UNCHANGED <<serverVars, chan, clientVars, redisVars, loop, got>>

\* UpdatePresence writes the key with its TTL; nothing in the program reads it.
SetPresence(x) ==
    /\ pc[x] = "set"
    /\ \E next \in {"publish", "err"} : pc' = [pc EXCEPT ![x] = next]
    /\ UNCHANGED <<serverVars, chan, clientVars, redisVars, loop, got>>

\* Redis hands a payload to every live subscription; a full buffer drops it.
Fanout(x) ==
    chan' = [s \in Servers |-> IF subscribed[s] /\ Len(chan[s]) < ChanCap
                               THEN Append(chan[s], x) ELSE chan[s]]

\* Mutants: one attempt too many; events fall back as well.
AfterFailureOneMore(x, n) ==
    IF Op[x] # "message" THEN "err" ELSE IF n <= MaxAttempts THEN "publish" ELSE "lookup"
AfterFailureAllFallBack(x, n) ==
    IF Op[x] = "message" /\ n < MaxAttempts THEN "publish" ELSE "lookup"

\* Where the n-th failed publish leaves its method: only PublishMessage
\* retries, and after its last attempt it falls back to the local clients.
AfterFailure(x, n) ==
    IF Op[x] # "message" THEN "err" ELSE IF n < MaxAttempts THEN "publish" ELSE "lookup"

SendCommand(x) == pc[x] = "publish" /\ sends' = [sends EXCEPT ![x] = @ + 1]

\* The last PUBLISH command of a call.  It succeeds, fails before it reached
\* Redis, or reaches it and fails for the caller.
RedisPublish(x) ==
    /\ SendCommand(x)
    /\ attempt' = [attempt EXCEPT ![x] = @ + 1]
    /\ tries' = [tries EXCEPT ![x] = 0]
    /\ \/ Fanout(x) /\ pc' = [pc EXCEPT ![x] = "nil"]
       \/ /\ Fanout(x) \/ UNCHANGED chan
          /\ pc' = [pc EXCEPT ![x] = AfterFailure(x, attempt'[x])]
    /\ UNCHANGED <<serverVars, clientVars, loop, got>>

\* A command that failed, executed or not, and that the Redis client sends
\* again without the hub's knowledge: MaxRetries is left at its default.
RedisRetry(x) ==
    /\ SendCommand(x)
    /\ tries[x] + 1 < MaxSends
    /\ tries' = [tries EXCEPT ![x] = @ + 1]
    /\ Fanout(x) \/ UNCHANGED chan
    /\ UNCHANGED <<serverVars, clientVars, pc, attempt, loop, got>>

\* broadcastLocal, and the local branch of PublishUserEvent.
BroadcastLocal(x) ==
    LET R == Recipients(Host[x], x) IN
    /\ pc[x] = "lookup"
    /\ IF R = {}
       THEN pc' = [pc EXCEPT ![x] = Outcome(x)] /\ UNCHANGED loop
       ELSE pc' = [pc EXCEPT ![x] = "range"] /\ BeginLoop(x, x, R)
    /\ UNCHANGED <<serverVars, chan, clientVars, redisVars, got>>

\* Mutant: the newest payload is taken, as one goroutine per payload may do.
RelayNewest(s) ==
    LET x == Last(chan[s])
        R == Recipients(s, x) IN
    /\ chan[s] # <<>>
    /\ ~Looping(s)
    /\ chan' = [chan EXCEPT ![s] = Front(@)]
    /\ IF R = {} THEN UNCHANGED loop ELSE BeginLoop(s, x, R)
    /\ UNCHANGED <<serverVars, clientVars, callVars, got>>

\* runPubSub takes the next payload and, if anyone here wants it, starts
\* sending it.
Relay(s) ==
    LET x == Head(chan[s])
        R == Recipients(s, x) IN
    /\ chan[s] # <<>>
    /\ ~Looping(s)
    /\ chan' = [chan EXCEPT ![s] = Tail(@)]
    /\ IF R = {} THEN UNCHANGED loop ELSE BeginLoop(s, x, R)
    /\ UNCHANGED <<serverVars, clientVars, callVars, got>>

-----------------------------------------------------------------------------
Next ==
    \/ \E s \in Servers :
         Start(s) \/ Crash(s) \/ Subscribe(s) \/ LoseSubscription(s) \/ Relay(s)
    \/ \E c \in Clients : ServeWS(c) \/ AddClient(c) \/ PeerGone(c) \/ RemoveClient(c)
    \/ \E x \in Callers :
         \/ Publish(x) \/ SetPresence(x) \/ RedisPublish(x) \/ RedisRetry(x)
         \/ BroadcastLocal(x)
    \/ \E g \in Goroutines : EndLoop(g) \/ \E c \in Clients : Send(g, c)

Spec == Init /\ [][Next]_vars

(* Fairness.  The Go scheduler runs every goroutine that can run.  Redis    *)
(* commands have timeouts, so each of them ends.  WriteMessage has no       *)
(* deadline: a loop that still has to write to a stalled peer may hang, so  *)
(* nothing is assumed of it.  A waiting writer of an RWMutex gets its turn  *)
(* although readers come and go, hence strong fairness for the two writers. *)
(* Nothing makes peers connect, send, leave, or processes start and stop.   *)
Progress(g) ==
    /\ \A c \in Stalled \cap loop[g].todo : conn[c] # "open"
    /\ EndLoop(g) \/ \E c \in Clients : Send(g, c)

Fairness ==
    /\ \A s \in Servers : WF_vars(Relay(s))
    /\ \A g \in Goroutines : WF_vars(Progress(g))
    /\ \A x \in Callers :
         /\ WF_vars(SetPresence(x)) /\ WF_vars(RedisPublish(x) \/ RedisRetry(x))
         /\ WF_vars(BroadcastLocal(x))
    /\ \A c \in Clients : SF_vars(AddClient(c)) /\ SF_vars(RemoveClient(c))

FairSpec == Spec /\ Fairness

-----------------------------------------------------------------------------
(* Safety.                                                                 *)

\* The registry of a process holds exactly the connections that joined it and
\* whose reader has not left, and the outer map exactly their rooms: no
\* connection outlives its reader in the map, none is lost when a neighbour
\* leaves or its room empties and fills again, no empty room stays
\* (AddClient, RemoveClient).
RegistryExact ==
    \A s \in Servers :
        /\ registered[s] = {c \in Clients : Host[c] = s /\ conn[c] \in {"open", "broken"}}
        /\ rooms[s] = {Target[c] : c \in registered[s]}

\* Whatever reaches a socket, by whichever of the relay, the local broadcast
\* and the fallback, across servers, retries and rooms that empty and fill
\* again, was published by a call that began, is addressed to that socket,
\* and the socket's user takes part in the conversation it names.
AudienceSound ==
    \A c \in Clients : \A x \in ToSet(got[c]) :
        pc[x] # "idle" /\ Addressed(x, c) /\ IsParticipant(c)

Copies(x, c) == Cardinality({i \in DOMAIN got[c] : got[c][i] = x})

\* What MaxAttempts calls of a message can send, or the one call of an event.
Budget(x) == IF Op[x] = "message" THEN MaxAttempts * MaxSends ELSE MaxSends

\* A socket sees a payload at most once for every PUBLISH command the Redis
\* client sent, and once more only if the call ended without success, by the
\* fallback, or had no Redis to try; and the commands keep to the budget of the
\* hub's retries and the client's (hub.go:83-103, 191, 218, 248; main.go:36-42).
CopiesBounded ==
    \A x \in Callers :
        /\ \A c \in Clients :
             Copies(x, c) <= sends[x] +
                 IF sends[x] = 0 \/ (Op[x] = "message" /\ pc[x] \in {"range", "err", "lost"})
                 THEN 1 ELSE 0
        /\ sends[x] <= Budget(x)

Before(x, y, c) ==
    \E i, j \in DOMAIN got[c] : i < j /\ got[c][i] = x /\ got[c][j] = y

\* Two payloads whose first PUBLISH command succeeded are never seen in opposite
\* orders, by two sockets of any servers or by one: Redis orders them, the
\* subscription's channel keeps that order, and one goroutine per process sends
\* one payload at a time (runPubSub).  A command that was repeated, by the hub
\* or by the Redis client, promises nothing: a copy may come after the other.
RelayOrder ==
    \A x, y \in {z \in Callers : pc[z] = "nil" /\ sends[z] = 1} : x # y =>
        ~\E c, d \in Clients : Before(x, y, c) /\ Before(y, x, d)

NobodyLeftOut ==
    \A g \in Goroutines :
        Looping(g) /\ ~Looping(g)' /\ mode'[At(g)] # "down" =>
            \A c \in loop[g].started : conn[c] = "open" => loop[g].cur \in ToSet(got[c])

\* A send loop ends, unless its process dies, only when every connection that
\* was there when it began and is still open has the payload, however many
\* joined and left the map it ranges over meanwhile (hub.go:121, 157, 165).
SendLoopsComplete == [][NobodyLeftOut]_vars

-----------------------------------------------------------------------------
(* The abstract specification.                                             *)

Abstract == INSTANCE Broadcast WITH
    Payloads <- Callers,
    Audience <- [x \in Callers |-> {c \in Clients : Addressed(x, c)}],
    Admissible <- {c \in Clients : IsParticipant(c)},
    issued <- {x \in Callers : pc[x] # "idle"},
    attached <- {c \in Clients : conn[c] = "open"},
    inbox <- got

\* The hub with its locks, channel and retries does nothing the broadcast
\* does not: it delivers only what a caller has issued, only to the audience,
\* only over a socket that is admitted and still open at that moment.
ImplementsBroadcast == Abstract!Spec

-----------------------------------------------------------------------------
(* Liveness, under FairSpec.                                               *)

Stallable(s) == \E c \in Stalled : Host[c] = s
Running(x) == pc[x] \notin {"idle"} \cup Finished

\* Every call returns, unless its own process has a peer that stopped reading
\* and the call has to write to sockets itself: a caller that only talks to
\* Redis never waits for a socket, wherever a peer is stuck (hub.go:86-101,
\* 191, 218, 248).
CallsReturn ==
    \A x \in Callers :
        Running(x) /\ (~Stallable(Host[x]) \/ (mode[Host[x]] = "redis" /\ Op[x] # "message"))
            ~> ~Running(x)

\* What is buffered for a process reaches every open connection it is for,
\* or the connection ends; a peer stuck on another process does not matter
\* (hub.go:136-174).
RelayDelivers ==
    \A s \in Servers : ~Stallable(s) =>
        \A x \in Callers : \A c \in {d \in Clients : Host[d] = s /\ Addressed(x, d)} :
            x \in ToSet(chan[s]) /\ conn[c] = "open"
                ~> x \in ToSet(got[c]) \/ conn[c] # "open"

\* A handshake that got its membership check joins, and a connection whose
\* peer is gone leaves the registry, on every process without a stuck peer:
\* neither a scan holding the read lock nor the reader's own broadcast keeps
\* them out forever (hub.go:50, 59, 164, 202; ws.go:85-98).
ConnectionsSettle ==
    \A c \in Clients : ~Stallable(Host[c]) =>
        /\ conn[c] = "upgraded" ~> conn[c] # "upgraded"
        /\ conn[c] = "broken" ~> conn[c] = "closed"
=============================================================================
