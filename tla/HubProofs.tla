----------------------------- MODULE HubProofs -----------------------------
(***************************************************************************)
(* Theorems about Hub, for every number of servers, connections, callers,  *)
(* users and keys, and every value of the bounds.                          *)
(***************************************************************************)
EXTENDS Hub, TLAPS

-----------------------------------------------------------------------------
(* What each action does to the send loops.                                *)

LEMMA AtType == \A g \in Goroutines : At(g) \in Servers
  BY HubAssumption DEF At, Goroutines, Callers

LEMMA HostType == \A x \in Callers : Host[x] \in Servers
  BY HubAssumption DEF Callers

LEMMA NoLoopType == NoLoop \in LoopStates /\ NoLoop.cur = None /\ NoLoop.todo = {}
  BY DEF NoLoop, LoopStates

\* A record of LoopStates with other members left to send to.
LEMMA WithTodo ==
  ASSUME NEW r \in LoopStates, NEW T \in SUBSET Clients
  PROVE  LET q == [r EXCEPT !.todo = T] IN
         /\ q \in LoopStates
         /\ q.cur = r.cur /\ q.todo = T /\ q.started = r.started
         /\ q.live = r.live /\ q.locked = r.locked
  BY DEF LoopStates

LEMMA BeginEffect ==
  ASSUME TypeOK, NEW g \in Goroutines, NEW x \in Callers, NEW R \in SUBSET Clients,
         BeginLoop(g, x, R)
  PROVE  /\ loop' \in [Goroutines -> LoopStates]
         /\ loop'[g].cur = x /\ loop'[g].todo = R /\ loop'[g].started = R
         /\ loop'[g].locked = (Op[x] = "user")
         /\ \A h \in Goroutines : h # g => loop'[h] = loop[h]
<1> DEFINE q == [cur |-> x, todo |-> R, started |-> R, live |-> TRUE, locked |-> Op[x] = "user"]
<1>1. q \in LoopStates
  BY DEF LoopStates
<1>2. loop' = [loop EXCEPT ![g] = q] /\ loop \in [Goroutines -> LoopStates]
  BY DEF BeginLoop, TypeOK
<1>3. q.cur = x /\ q.todo = R /\ q.started = R /\ q.locked = (Op[x] = "user")
  OBVIOUS
<1> HIDE DEF q
<1> QED BY <1>1, <1>2, <1>3

LEMMA SendEffect ==
  ASSUME TypeOK, NEW g \in Goroutines, NEW c \in Clients, Send(g, c)
  PROVE  /\ loop' \in [Goroutines -> LoopStates]
         /\ c \in loop[g].todo
         /\ loop'[g].todo = loop[g].todo \ {c}
         /\ \A h \in Goroutines : /\ loop'[h].cur = loop[h].cur
                                  /\ loop'[h].started = loop[h].started
                                  /\ loop'[h].locked = loop[h].locked
                                  /\ h # g => loop'[h] = loop[h]
<1> DEFINE q == [loop[g] EXCEPT !.todo = loop[g].todo \ {c}]
<1>1. loop \in [Goroutines -> LoopStates]
  BY DEF TypeOK
<1>2. loop[g] \in LoopStates /\ loop[g].todo \ {c} \in SUBSET Clients
  BY <1>1 DEF LoopStates
<1>3. loop' = [loop EXCEPT ![g] = q] /\ c \in loop[g].todo
  BY DEF Send
<1>4. /\ q \in LoopStates /\ q.cur = loop[g].cur /\ q.todo = loop[g].todo \ {c}
      /\ q.started = loop[g].started /\ q.locked = loop[g].locked
  BY <1>2, WithTodo
<1> HIDE DEF q
<1> QED BY <1>1, <1>3, <1>4

LEMMA EndEffect ==
  ASSUME TypeOK, NEW g \in Goroutines, EndLoop(g)
  PROVE  /\ loop' \in [Goroutines -> LoopStates]
         /\ loop[g].cur # None /\ loop[g].todo = {} /\ loop'[g] = NoLoop
         /\ \A h \in Goroutines : h # g => loop'[h] = loop[h]
  BY NoLoopType DEF EndLoop, Looping, TypeOK

LEMMA CrashEffect ==
  ASSUME TypeOK, NEW s \in Servers, Crash(s)
  PROVE  /\ loop' \in [Goroutines -> LoopStates]
         /\ \A h \in Goroutines : loop'[h] = IF At(h) = s THEN NoLoop ELSE loop[h]
  BY NoLoopType DEF Crash, TypeOK

\* A connection that joins is added, if at all, to loops without the lock
\* over the room it joins.
LEMMA AddEffect ==
  ASSUME TypeOK, NEW c \in Clients, AddClient(c)
  PROVE  /\ loop' \in [Goroutines -> LoopStates]
         /\ \A h \in Goroutines :
              /\ loop'[h].cur = loop[h].cur
              /\ loop'[h].started = loop[h].started
              /\ loop'[h].locked = loop[h].locked
              /\ \/ loop'[h].todo = loop[h].todo
                 \/ /\ loop'[h].todo = loop[h].todo \cup {c}
                    /\ h \in Ranging(Host[c], Target[c])
<1>1. loop \in [Goroutines -> LoopStates]
  BY DEF TypeOK
<1>2. PICK seenBy \in SUBSET Ranging(Host[c], Target[c]) :
        loop' = [h \in Goroutines |->
                   IF h \in seenBy THEN [loop[h] EXCEPT !.todo = loop[h].todo \cup {c}]
                   ELSE loop[h]]
  BY DEF AddClient
<1>3. ASSUME NEW h \in Goroutines
      PROVE  /\ loop'[h] \in LoopStates
             /\ loop'[h].cur = loop[h].cur
             /\ loop'[h].started = loop[h].started
             /\ loop'[h].locked = loop[h].locked
             /\ \/ loop'[h].todo = loop[h].todo
                \/ /\ loop'[h].todo = loop[h].todo \cup {c}
                   /\ h \in Ranging(Host[c], Target[c])
  <2>1. loop[h] \in LoopStates /\ loop[h].todo \cup {c} \in SUBSET Clients
    BY <1>1 DEF LoopStates
  <2>2. CASE h \in seenBy
    <3> DEFINE q == [loop[h] EXCEPT !.todo = loop[h].todo \cup {c}]
    <3>1. loop'[h] = q
      BY <1>2, <2>2
    <3>2. /\ q \in LoopStates /\ q.cur = loop[h].cur /\ q.todo = loop[h].todo \cup {c}
          /\ q.started = loop[h].started /\ q.locked = loop[h].locked
      BY <2>1, WithTodo
    <3> HIDE DEF q
    <3> QED BY <1>2, <2>2, <3>1, <3>2
  <2>3. CASE h \notin seenBy
    BY <1>2, <2>1, <2>3
  <2> QED BY <2>2, <2>3
<1>4. loop' \in [Goroutines -> LoopStates]
  BY <1>2, <1>3
<1> QED BY <1>3, <1>4

\* A connection that leaves is taken out of the loops over its room.
LEMMA RemoveEffect ==
  ASSUME TypeOK, NEW c \in Clients, RemoveClient(c)
  PROVE  /\ loop' \in [Goroutines -> LoopStates]
         /\ \A h \in Goroutines :
              /\ loop'[h].cur = loop[h].cur
              /\ loop'[h].started = loop[h].started
              /\ loop'[h].locked = loop[h].locked
              /\ loop'[h].todo = loop[h].todo \/ loop'[h].todo = loop[h].todo \ {c}
<1> DEFINE R == Ranging(Host[c], Target[c])
           b == ~LeavesRoomEmpty(Host[c], c)
<1>1. loop \in [Goroutines -> LoopStates]
  BY DEF TypeOK
<1>2. loop' = [h \in Goroutines |->
                 IF h \in R THEN [loop[h] EXCEPT !.todo = loop[h].todo \ {c}, !.live = b]
                 ELSE loop[h]]
  BY DEF RemoveClient
<1>3. b \in BOOLEAN
  BY DEF LeavesRoomEmpty
<1> HIDE DEF R, b
<1>4. ASSUME NEW h \in Goroutines
      PROVE  /\ loop'[h] \in LoopStates
             /\ loop'[h].cur = loop[h].cur
             /\ loop'[h].started = loop[h].started
             /\ loop'[h].locked = loop[h].locked
             /\ loop'[h].todo = loop[h].todo \/ loop'[h].todo = loop[h].todo \ {c}
  <2>1. loop[h] \in LoopStates /\ loop[h].todo \ {c} \in SUBSET Clients
    BY <1>1 DEF LoopStates
  <2>2. CASE h \in R
    <3> DEFINE q == [loop[h] EXCEPT !.todo = loop[h].todo \ {c}, !.live = b]
    <3>1. loop'[h] = q
      BY <1>2, <2>2
    <3>2. /\ q \in LoopStates /\ q.cur = loop[h].cur /\ q.todo = loop[h].todo \ {c}
          /\ q.started = loop[h].started /\ q.locked = loop[h].locked
      BY <1>3, <2>1 DEF LoopStates
    <3> HIDE DEF q
    <3> QED BY <3>1, <3>2
  <2>3. CASE h \notin R
    BY <1>2, <2>1, <2>3
  <2> QED BY <2>2, <2>3
<1>5. loop' \in [Goroutines -> LoopStates]
  BY <1>2, <1>4
<1> QED BY <1>4, <1>5

-----------------------------------------------------------------------------
(* Types.                                                                  *)

\* Whoever may still publish has an attempt left.
AttemptsLeft ==
    \A x \in Callers : /\ pc[x] \in {"idle", "set"} =>
                            attempt[x] = 0 /\ tries[x] = 0 /\ sends[x] = 0
                       /\ pc[x] = "publish" => attempt[x] < MaxAttempts

\* A goroutine with someone left to send to is in a loop.
LoopsHavePayload == \A g \in Goroutines : loop[g].todo # {} => loop[g].cur # None

TypeInv == TypeOK /\ AttemptsLeft /\ LoopsHavePayload

LEMMA TypeInit == Init => TypeInv
  BY HubAssumption, NoLoopType
  DEF Init, TypeInv, TypeOK, AttemptsLeft, LoopsHavePayload, ConnStates, PcStates, Finished

LEMMA TypeStep == TypeInv /\ [Next]_vars => TypeInv'
<1> SUFFICES ASSUME TypeInv, [Next]_vars PROVE TypeInv'
  OBVIOUS
<1> USE HubAssumption, AtType, HostType
<1>0. TypeOK
  BY DEF TypeInv
<1>00. loop \in [Goroutines -> LoopStates] /\ Servers \subseteq Goroutines /\ Callers \subseteq Goroutines
  BY <1>0 DEF TypeOK, Goroutines
<1> USE DEF TypeInv, AttemptsLeft, LoopsHavePayload, serverVars, clientVars, callVars, redisVars
<1>1. ASSUME NEW s \in Servers, Start(s) PROVE TypeInv'
  BY <1>1 DEF Start, TypeOK
<1>2. ASSUME NEW s \in Servers, Crash(s) PROVE TypeInv'
  <2>1. loop' \in [Goroutines -> LoopStates] /\ LoopsHavePayload'
    BY <1>0, <1>2, CrashEffect, NoLoopType
  <2>2. pc' \in [Callers -> PcStates] /\ AttemptsLeft'
    BY <1>2 DEF Crash, TypeOK, PcStates, Finished
  <2>3. /\ mode' \in [Servers -> {"down", "local", "redis"}] /\ faults' \in 0..MaxFaults
        /\ subscribed' \in [Servers -> BOOLEAN] /\ chan' \in [Servers -> Seq(Callers)]
    BY <1>2 DEF Crash, TypeOK
  <2>4. /\ conn' \in [Clients -> ConnStates] /\ registered' \in [Servers -> SUBSET Clients]
        /\ rooms' \in [Servers -> SUBSET Keys]
    BY <1>2 DEF Crash, TypeOK, ConnStates
  <2> QED BY <1>2, <2>1, <2>2, <2>3, <2>4 DEF Crash, TypeOK
<1>3. ASSUME NEW s \in Servers, Subscribe(s) PROVE TypeInv'
  BY <1>3 DEF Subscribe, TypeOK
<1>4. ASSUME NEW s \in Servers, LoseSubscription(s) PROVE TypeInv'
  BY <1>4 DEF LoseSubscription, TypeOK
<1>5. ASSUME NEW s \in Servers, Relay(s) PROVE TypeInv'
  <2> DEFINE x == Head(chan[s])
             R == Recipients(s, x)
  <2>1. x \in Callers /\ Tail(chan[s]) \in Seq(Callers)
    BY <1>5 DEF Relay, TypeOK
  <2>2. chan' \in [Servers -> Seq(Callers)]
    BY <1>5, <2>1 DEF Relay, TypeOK
  <2>3. R \in SUBSET Clients
    BY DEF Recipients, TypeOK
  <2>4. loop' \in [Goroutines -> LoopStates] /\ LoopsHavePayload'
    <3>1. CASE UNCHANGED loop
      BY <1>00, <3>1
    <3>2. CASE BeginLoop(s, x, R)
      <4>1. /\ loop' \in [Goroutines -> LoopStates] /\ loop'[s].cur = x
            /\ \A h \in Goroutines : h # s => loop'[h] = loop[h]
        BY <1>0, <1>00, <2>1, <2>3, <3>2, BeginEffect
      <4> HIDE DEF x
      <4>2. LoopsHavePayload'
        BY <2>1, <4>1
      <4> QED BY <4>1, <4>2
    <3> QED BY <1>5, <3>1, <3>2 DEF Relay
  <2> QED BY <1>5, <2>2, <2>4 DEF Relay, TypeOK
<1>6. ASSUME NEW c \in Clients, ServeWS(c) PROVE TypeInv'
  <2>1. conn' \in [Clients -> ConnStates]
    BY <1>6 DEF ServeWS, ConnStates, TypeOK
  <2> QED BY <1>6, <2>1 DEF ServeWS, TypeOK
<1>7. ASSUME NEW c \in Clients, AddClient(c) PROVE TypeInv'
  <2>1. loop' \in [Goroutines -> LoopStates] /\ LoopsHavePayload'
    BY <1>0, <1>7, AddEffect DEF Ranging, Looping
  <2>2. /\ conn' = [conn EXCEPT ![c] = "open"]
        /\ registered' = [registered EXCEPT ![Host[c]] = registered[Host[c]] \cup {c}]
        /\ rooms' = [rooms EXCEPT ![Host[c]] = rooms[Host[c]] \cup {Target[c]}]
        /\ UNCHANGED <<serverVars, chan, callVars, got>>
    BY <1>7 DEF AddClient
  <2>3. /\ conn \in [Clients -> ConnStates] /\ registered \in [Servers -> SUBSET Clients]
        /\ rooms \in [Servers -> SUBSET Keys] /\ Target[c] \in Keys /\ "open" \in ConnStates
    BY DEF TypeOK, ConnStates
  <2>4. conn' \in [Clients -> ConnStates]
    BY <2>2, <2>3
  <2>5. registered' \in [Servers -> SUBSET Clients]
    <3>1. Host[c] \in Servers /\ registered[Host[c]] \cup {c} \in SUBSET Clients
      BY <2>3 DEF Callers
    <3> QED BY <2>2, <2>3, <3>1
  <2>6. rooms' \in [Servers -> SUBSET Keys]
    <3>1. Host[c] \in Servers /\ rooms[Host[c]] \cup {Target[c]} \in SUBSET Keys
      BY <2>3 DEF Callers
    <3> QED BY <2>2, <2>3, <3>1
  <2> QED BY <2>1, <2>2, <2>4, <2>5, <2>6 DEF TypeOK
<1>8. ASSUME NEW c \in Clients, PeerGone(c) PROVE TypeInv'
  BY <1>8 DEF PeerGone, ConnStates, TypeOK
<1>9. ASSUME NEW c \in Clients, RemoveClient(c) PROVE TypeInv'
  <2>1. loop' \in [Goroutines -> LoopStates] /\ LoopsHavePayload'
    BY <1>0, <1>9, RemoveEffect
  <2> QED BY <1>9, <2>1 DEF RemoveClient, ConnStates, TypeOK
<1>10. ASSUME NEW x \in Callers, Publish(x) PROVE TypeInv'
  <2>1. PICK v \in {"lookup", "set", "publish"} : pc' = [pc EXCEPT ![x] = v]
    BY <1>10 DEF Publish
  <2>2. pc' \in [Callers -> PcStates] /\ AttemptsLeft'
    BY <1>10, <2>1 DEF Publish, PcStates, TypeOK
  <2> QED BY <1>10, <2>2 DEF Publish, TypeOK
<1>11. ASSUME NEW x \in Callers, SetPresence(x) PROVE TypeInv'
  BY <1>11 DEF SetPresence, PcStates, Finished, TypeOK
<1>12. ASSUME NEW x \in Callers, Fanout(x) \/ UNCHANGED chan
       PROVE  chan' \in [Servers -> Seq(Callers)]
  <2>1. CASE UNCHANGED chan
    BY <2>1 DEF TypeOK
  <2>2. CASE Fanout(x)
    <3>1. \A s \in Servers : chan[s] \in Seq(Callers) /\ Append(chan[s], x) \in Seq(Callers)
      BY DEF TypeOK
    <3> QED BY <2>2, <3>1 DEF Fanout
  <2> QED BY <1>12, <2>1, <2>2
<1>16. ASSUME NEW x \in Callers, RedisPublish(x) PROVE TypeInv'
  <2>1. chan' \in [Servers -> Seq(Callers)]
    BY <1>12, <1>16 DEF RedisPublish
  <2>2. /\ attempt' \in [Callers -> 0..MaxAttempts] /\ tries' \in [Callers -> 0..MaxSends - 1]
        /\ sends' \in [Callers -> Nat]
    BY <1>16 DEF RedisPublish, SendCommand, TypeOK
  <2>3. pc' \in [Callers -> PcStates]
    BY <1>16 DEF RedisPublish, AfterFailure, PcStates, Finished, TypeOK
  <2>4. AttemptsLeft'
    BY <1>16 DEF RedisPublish, SendCommand, AfterFailure, TypeOK
  <2> QED BY <1>16, <2>1, <2>2, <2>3, <2>4 DEF RedisPublish, TypeOK
<1>17. ASSUME NEW x \in Callers, RedisRetry(x) PROVE TypeInv'
  <2>1. chan' \in [Servers -> Seq(Callers)]
    BY <1>12, <1>17 DEF RedisRetry
  <2>2. /\ tries' \in [Callers -> 0..MaxSends - 1] /\ sends' \in [Callers -> Nat]
        /\ AttemptsLeft'
    BY <1>17 DEF RedisRetry, SendCommand, TypeOK
  <2> QED BY <1>17, <2>1, <2>2 DEF RedisRetry, TypeOK
<1>13. ASSUME NEW x \in Callers, BroadcastLocal(x) PROVE TypeInv'
  <2> DEFINE R == Recipients(Host[x], x)
  <2>1. R \in SUBSET Clients
    BY DEF Recipients, TypeOK
  <2>2. loop' \in [Goroutines -> LoopStates] /\ LoopsHavePayload'
    <3>1. CASE UNCHANGED loop
      BY <1>00, <3>1
    <3>2. CASE BeginLoop(x, x, R)
      <4>1. /\ loop' \in [Goroutines -> LoopStates] /\ loop'[x].cur = x
            /\ \A h \in Goroutines : h # x => loop'[h] = loop[h]
        BY <1>0, <1>00, <2>1, <3>2, BeginEffect
      <4>2. LoopsHavePayload'
        BY <4>1
      <4> QED BY <4>1, <4>2
    <3> QED BY <1>13, <3>1, <3>2 DEF BroadcastLocal
  <2>3. pc' \in [Callers -> PcStates] /\ AttemptsLeft'
    <3>1. PICK v \in {"range", "nil", "err"} : pc' = [pc EXCEPT ![x] = v]
      BY <1>13 DEF BroadcastLocal, Outcome
    <3> QED BY <1>13, <3>1 DEF BroadcastLocal, PcStates, Finished, TypeOK
  <2> QED BY <1>13, <2>2, <2>3 DEF BroadcastLocal, TypeOK
<1>14. ASSUME NEW g \in Goroutines, EndLoop(g) PROVE TypeInv'
  <2>1. loop' \in [Goroutines -> LoopStates] /\ LoopsHavePayload'
    BY <1>0, <1>14, EndEffect, NoLoopType
  <2> QED BY <1>14, <2>1 DEF EndLoop, Outcome, PcStates, Finished, TypeOK
<1>15. ASSUME NEW g \in Goroutines, NEW c \in Clients, Send(g, c) PROVE TypeInv'
  <2>1. loop' \in [Goroutines -> LoopStates] /\ LoopsHavePayload'
    BY <1>0, <1>15, SendEffect
  <2>2. loop[g].cur \in Callers
    BY <1>00, <1>15 DEF Send, LoopStates
  <2> QED BY <1>15, <2>1, <2>2 DEF Send, TypeOK
<1>18. CASE UNCHANGED vars
  BY <1>18 DEF vars, TypeOK
<1> QED BY <1>1, <1>2, <1>3, <1>4, <1>5, <1>6, <1>7, <1>8, <1>9, <1>10, <1>11, <1>13,
           <1>14, <1>15, <1>16, <1>17, <1>18 DEF Next

\* The hub's variables keep their types: no publish is tried after the last
\* attempt, and what a loop or a channel holds is a payload (hub.go:83-103).
THEOREM TypeCorrect == Spec => []TypeOK
<1>1. Spec => []TypeInv
  BY TypeInit, TypeStep, PTL DEF Spec
<1>2. TypeInv => TypeOK
  BY DEF TypeInv
<1> QED BY <1>1, <1>2, PTL

-----------------------------------------------------------------------------
(* The registry.                                                           *)

LEMMA RegistryStep == TypeOK /\ RegistryExact /\ [Next]_vars => RegistryExact'
<1> SUFFICES ASSUME TypeOK, RegistryExact, [Next]_vars PROVE RegistryExact'
  OBVIOUS
<1> USE HubAssumption, HostType DEF RegistryExact, clientVars
<1>1. ASSUME NEW s \in Servers, Crash(s) PROVE RegistryExact'
  BY <1>1 DEF Crash, TypeOK, Callers
<1>2. ASSUME NEW c \in Clients, ServeWS(c) PROVE RegistryExact'
  BY <1>2 DEF ServeWS, TypeOK
<1>3. ASSUME NEW c \in Clients, AddClient(c) PROVE RegistryExact'
  <2>1. /\ conn' = [conn EXCEPT ![c] = "open"]
        /\ registered' = [registered EXCEPT ![Host[c]] = registered[Host[c]] \cup {c}]
        /\ rooms' = [rooms EXCEPT ![Host[c]] = rooms[Host[c]] \cup {Target[c]}]
    BY <1>3 DEF AddClient
  <2>2. Host[c] \in Servers
    BY DEF Callers
  <2>3. \A t \in Servers :
          registered'[t] = {d \in Clients : Host[d] = t /\ conn'[d] \in {"open", "broken"}}
    BY <2>1, <2>2 DEF TypeOK
  <2>4. /\ registered'[Host[c]] = registered[Host[c]] \cup {c}
        /\ rooms'[Host[c]] = rooms[Host[c]] \cup {Target[c]}
        /\ \A t \in Servers : t # Host[c] => registered'[t] = registered[t] /\ rooms'[t] = rooms[t]
    BY <2>1, <2>2 DEF TypeOK
  <2>5. rooms'[Host[c]] = {Target[d] : d \in registered'[Host[c]]}
    <3>1. rooms[Host[c]] = {Target[d] : d \in registered[Host[c]]}
      BY <2>2
    <3> QED BY <2>4, <3>1
  <2>6. \A t \in Servers : t # Host[c] => rooms'[t] = {Target[d] : d \in registered'[t]}
    BY <2>4
  <2> QED BY <2>3, <2>5, <2>6
<1>4. ASSUME NEW c \in Clients, PeerGone(c) PROVE RegistryExact'
  BY <1>4 DEF PeerGone, TypeOK
<1>5. ASSUME NEW c \in Clients, RemoveClient(c) PROVE RegistryExact'
  <2> DEFINE s == Host[c]
  <2>1. /\ conn[c] = "broken" /\ conn' = [conn EXCEPT ![c] = "closed"]
        /\ registered' = [registered EXCEPT ![s] = registered[s] \ {c}]
        /\ rooms' = [rooms EXCEPT ![s] = IF LeavesRoomEmpty(s, c) THEN rooms[s] \ {Target[c]}
                                         ELSE rooms[s]]
    BY <1>5 DEF RemoveClient
  <2>2. s \in Servers
    BY DEF Callers
  <2>3. \A t \in Servers :
          registered'[t] = {d \in Clients : Host[d] = t /\ conn'[d] \in {"open", "broken"}}
    BY <2>1, <2>2 DEF TypeOK
  <2>4. rooms'[s] = {Target[d] : d \in registered'[s]}
    <3>1. CASE LeavesRoomEmpty(s, c)
      BY <2>1, <2>2, <3>1 DEF LeavesRoomEmpty, TypeOK
    <3>2. CASE ~LeavesRoomEmpty(s, c)
      <4>1. PICK d \in registered[s] : Target[d] = Target[c] /\ d # c
        BY <3>2 DEF LeavesRoomEmpty
      <4> QED BY <2>1, <2>2, <3>2, <4>1 DEF TypeOK
    <3> QED BY <3>1, <3>2
  <2>5. \A t \in Servers : t # s => rooms'[t] = {Target[d] : d \in registered'[t]}
    BY <2>1, <2>2 DEF TypeOK
  <2> QED BY <2>3, <2>4, <2>5
<1>6. ASSUME UNCHANGED clientVars PROVE RegistryExact'
  BY <1>6
<1> QED
  BY <1>1, <1>2, <1>3, <1>4, <1>5, <1>6
  DEF Next, vars, Start, Subscribe, LoseSubscription, Relay, Publish, SetPresence,
      RedisPublish, RedisRetry, BroadcastLocal, EndLoop, Send

\* However connections join, break and leave, and processes die and start,
\* the registry holds exactly the live ones and their rooms (hub.go:49-67).
THEOREM RegistryCorrect == Spec => []RegistryExact
<1>1. Init => RegistryExact
  BY DEF Init, RegistryExact
<1>2. Spec => []TypeOK
  BY TypeCorrect
<1> QED BY <1>1, <1>2, RegistryStep, PTL DEF Spec

-----------------------------------------------------------------------------
(* What reaches a socket.                                                  *)

\* A connection past the membership check belongs to a participant.
Vetted == \A c \in Clients : conn[c] \in {"upgraded", "open", "broken"} => IsParticipant(c)

\* A loop sends a payload some caller issued, to its audience.
LoopsSound ==
    \A g \in Goroutines : loop[g].cur # None =>
        /\ pc[loop[g].cur] # "idle"
        /\ loop[g].locked = (Op[loop[g].cur] = "user")
        /\ \A c \in loop[g].todo : Addressed(loop[g].cur, c) /\ IsParticipant(c)
        /\ g \in Callers => loop[g].cur = g

ChanIssued == \A s \in Servers : \A i \in 1..Len(chan[s]) : pc[chan[s][i]] # "idle"

GotSound ==
    \A c \in Clients : \A i \in 1..Len(got[c]) :
        pc[got[c][i]] # "idle" /\ Addressed(got[c][i], c) /\ IsParticipant(c)

SoundInv == TypeInv /\ RegistryExact /\ Vetted /\ LoopsSound /\ ChanIssued /\ GotSound

\* A call that began is never taken back.
LEMMA IssuedStep ==
  ASSUME TypeOK, [Next]_vars
  PROVE  \A x \in Callers : pc[x] # "idle" => pc'[x] # "idle"
<1> SUFFICES ASSUME NEW y \in Callers, pc[y] # "idle" PROVE pc'[y] # "idle"
  OBVIOUS
<1> USE DEF TypeOK, callVars, redisVars
<1>1. ASSUME NEW s \in Servers, Crash(s) PROVE pc'[y] # "idle"
  BY <1>1 DEF Crash
<1>2. ASSUME NEW x \in Callers, Publish(x) PROVE pc'[y] # "idle"
  BY <1>2 DEF Publish
<1>3. ASSUME NEW x \in Callers, SetPresence(x) PROVE pc'[y] # "idle"
  BY <1>3 DEF SetPresence
<1>4. ASSUME NEW x \in Callers, RedisPublish(x) PROVE pc'[y] # "idle"
  BY <1>4 DEF RedisPublish, SendCommand, AfterFailure
<1>5. ASSUME NEW x \in Callers, BroadcastLocal(x) PROVE pc'[y] # "idle"
  BY <1>5 DEF BroadcastLocal, Outcome
<1>6. ASSUME NEW g \in Goroutines, EndLoop(g) PROVE pc'[y] # "idle"
  BY <1>6 DEF EndLoop, Outcome
<1>7. ASSUME UNCHANGED pc PROVE pc'[y] # "idle"
  BY <1>7
<1> QED
  BY <1>1, <1>2, <1>3, <1>4, <1>5, <1>6, <1>7
  DEF Next, vars, Start, Subscribe, LoseSubscription, Relay, ServeWS, AddClient, PeerGone,
      RemoveClient, RedisRetry, Send

LEMMA VettedStep == TypeOK /\ Vetted /\ [Next]_vars => Vetted'
<1> SUFFICES ASSUME TypeOK, Vetted, [Next]_vars PROVE Vetted'
  OBVIOUS
<1> USE DEF Vetted, clientVars
<1>1. ASSUME NEW s \in Servers, Crash(s) PROVE Vetted'
  BY <1>1 DEF Crash, TypeOK
<1>2. ASSUME NEW c \in Clients, ServeWS(c) PROVE Vetted'
  BY <1>2 DEF ServeWS, TypeOK
<1>3. ASSUME NEW c \in Clients, AddClient(c) PROVE Vetted'
  BY <1>3 DEF AddClient, TypeOK
<1>4. ASSUME NEW c \in Clients, PeerGone(c) PROVE Vetted'
  BY <1>4 DEF PeerGone, TypeOK
<1>5. ASSUME NEW c \in Clients, RemoveClient(c) PROVE Vetted'
  BY <1>5 DEF RemoveClient, TypeOK
<1>6. ASSUME UNCHANGED conn PROVE Vetted'
  BY <1>6
<1> QED
  BY <1>1, <1>2, <1>3, <1>4, <1>5, <1>6
  DEF Next, vars, Start, Subscribe, LoseSubscription, Relay, Publish, SetPresence,
      RedisPublish, RedisRetry, BroadcastLocal, EndLoop, Send

\* A registered connection is one the membership check let through.
LEMMA RecipientsSound ==
  ASSUME TypeOK, RegistryExact, Vetted, NEW s \in Servers, NEW x \in Callers
  PROVE  \A c \in Recipients(s, x) : c \in Clients /\ Addressed(x, c) /\ IsParticipant(c)
  BY DEF Recipients, RegistryExact, Vetted, TypeOK

LEMMA LoopsStep == SoundInv /\ [Next]_vars => LoopsSound'
<1> SUFFICES ASSUME SoundInv, [Next]_vars PROVE LoopsSound'
  OBVIOUS
<1>1. /\ TypeOK /\ LoopsHavePayload /\ RegistryExact /\ Vetted /\ LoopsSound /\ ChanIssued
      /\ loop \in [Goroutines -> LoopStates]
      /\ Servers \subseteq Goroutines /\ Callers \subseteq Goroutines
  BY DEF SoundInv, TypeInv, TypeOK, Goroutines
<1>2. \A x \in Callers : pc[x] # "idle" => pc'[x] # "idle"
  BY <1>1, IssuedStep
<1>3. \A g \in Goroutines : loop[g].cur \in Callers \cup {None}
  BY <1>1 DEF LoopStates
<1>4. \A g \in Goroutines : loop[g].cur # None => pc'[loop[g].cur] # "idle"
  BY <1>1, <1>2, <1>3 DEF LoopsSound
<1> USE DEF LoopsSound
<1>5. ASSUME NEW s \in Servers, Crash(s) PROVE LoopsSound'
  BY <1>1, <1>4, <1>5, CrashEffect, NoLoopType
<1>6. ASSUME NEW g \in Goroutines, NEW x \in Callers, NEW s \in Servers, pc'[x] # "idle",
             g \in Callers => x = g, BeginLoop(g, x, Recipients(s, x))
      PROVE  LoopsSound'
  <2> DEFINE R == Recipients(s, x)
  <2>1. /\ R \in SUBSET Clients
        /\ \A c \in R : Addressed(x, c) /\ IsParticipant(c)
    BY <1>1, RecipientsSound
  <2>2. /\ loop'[g].cur = x /\ loop'[g].todo = R /\ loop'[g].locked = (Op[x] = "user")
        /\ \A h \in Goroutines : h # g => loop'[h] = loop[h]
    BY <1>1, <1>6, <2>1, BeginEffect
  <2> HIDE DEF R
  <2> QED BY <1>1, <1>4, <1>6, <2>1, <2>2
<1>7. ASSUME NEW s \in Servers, Relay(s) PROVE LoopsSound'
  <2> DEFINE x == Head(chan[s])
  <2>1. x \in Callers /\ pc[x] # "idle"
    BY <1>1, <1>7 DEF Relay, TypeOK, ChanIssued
  <2>0. s \notin Callers
    BY HubAssumption
  <2>2. CASE UNCHANGED loop
    BY <1>1, <1>4, <2>2
  <2>3. CASE BeginLoop(s, x, Recipients(s, x))
    BY <1>1, <1>2, <1>6, <2>0, <2>1, <2>3
  <2> QED BY <1>7, <2>2, <2>3 DEF Relay
<1>8. ASSUME NEW x \in Callers, BroadcastLocal(x) PROVE LoopsSound'
  <2>1. pc[x] = "lookup" /\ Host[x] \in Servers
    BY <1>8, HostType DEF BroadcastLocal
  <2>2. CASE UNCHANGED loop
    BY <1>1, <1>4, <2>2
  <2>3. CASE BeginLoop(x, x, Recipients(Host[x], x))
    BY <1>1, <1>2, <1>6, <2>1, <2>3
  <2> QED BY <1>8, <2>2, <2>3 DEF BroadcastLocal
<1>9. ASSUME NEW c \in Clients, AddClient(c) PROVE LoopsSound'
  <2>1. IsParticipant(c)
    BY <1>1, <1>9 DEF AddClient, Vetted
  <2>2. ASSUME NEW h \in Ranging(Host[c], Target[c]) PROVE Addressed(loop[h].cur, c)
    BY <1>1, <2>2 DEF Ranging, Looping, Addressed
  <2>3. \A h \in Goroutines :
          /\ loop'[h].cur = loop[h].cur /\ loop'[h].locked = loop[h].locked
          /\ \/ loop'[h].todo = loop[h].todo
             \/ loop'[h].todo = loop[h].todo \cup {c} /\ h \in Ranging(Host[c], Target[c])
    BY <1>1, <1>9, AddEffect
  <2> QED BY <1>1, <1>4, <2>1, <2>2, <2>3
<1>10. ASSUME NEW c \in Clients, RemoveClient(c) PROVE LoopsSound'
  <2>1. \A h \in Goroutines :
          /\ loop'[h].cur = loop[h].cur /\ loop'[h].locked = loop[h].locked
          /\ loop'[h].todo \subseteq loop[h].todo
    BY <1>1, <1>10, RemoveEffect
  <2> QED BY <1>1, <1>4, <2>1
<1>11. ASSUME NEW g \in Goroutines, EndLoop(g) PROVE LoopsSound'
  BY <1>1, <1>4, <1>11, EndEffect, NoLoopType
<1>12. ASSUME NEW g \in Goroutines, NEW c \in Clients, Send(g, c) PROVE LoopsSound'
  <2>1. \A h \in Goroutines :
          /\ loop'[h].cur = loop[h].cur /\ loop'[h].locked = loop[h].locked
          /\ loop'[h].todo \subseteq loop[h].todo
    BY <1>1, <1>12, SendEffect
  <2> QED BY <1>1, <1>4, <2>1
<1>13. ASSUME UNCHANGED loop PROVE LoopsSound'
  BY <1>1, <1>4, <1>13
<1> QED
  BY <1>5, <1>7, <1>8, <1>9, <1>10, <1>11, <1>12, <1>13
  DEF Next, vars, Start, Subscribe, LoseSubscription, ServeWS, PeerGone, Publish,
      SetPresence, RedisPublish, RedisRetry

LEMMA ChanStep == SoundInv /\ [Next]_vars => ChanIssued'
<1> SUFFICES ASSUME SoundInv, [Next]_vars PROVE ChanIssued'
  OBVIOUS
<1>1. TypeOK /\ ChanIssued /\ chan \in [Servers -> Seq(Callers)]
  BY DEF SoundInv, TypeInv, TypeOK
<1>2. \A x \in Callers : pc[x] # "idle" => pc'[x] # "idle"
  BY <1>1, IssuedStep
<1>3. \A s \in Servers : \A i \in 1..Len(chan[s]) : pc'[chan[s][i]] # "idle"
  BY <1>1, <1>2 DEF ChanIssued
<1> USE DEF ChanIssued
<1>4. ASSUME NEW s \in Servers, Crash(s) PROVE ChanIssued'
  BY <1>1, <1>3, <1>4 DEF Crash
<1>5. ASSUME NEW s \in Servers, Relay(s) PROVE ChanIssued'
  <2>1. chan' = [chan EXCEPT ![s] = Tail(chan[s])] /\ chan[s] # <<>> /\ chan[s] \in Seq(Callers)
    BY <1>1, <1>5 DEF Relay
  <2>2. /\ Len(Tail(chan[s])) = Len(chan[s]) - 1
        /\ \A i \in 1..Len(Tail(chan[s])) : Tail(chan[s])[i] = chan[s][i + 1]
    BY <2>1
  <2>3. \A i \in 1..Len(Tail(chan[s])) : pc'[Tail(chan[s])[i]] # "idle"
    BY <1>3, <2>1, <2>2
  <2> QED BY <1>1, <1>3, <2>1, <2>3
<1>6. ASSUME NEW x \in Callers, RedisPublish(x) \/ RedisRetry(x) PROVE ChanIssued'
  <2>1. pc'[x] # "idle"
    BY <1>2, <1>6 DEF RedisPublish, RedisRetry, SendCommand
  <2>2. ASSUME NEW s \in Servers
        PROVE  \A i \in 1..Len(Append(chan[s], x)) : pc'[Append(chan[s], x)[i]] # "idle"
    BY <1>1, <1>3, <2>1
  <2>3. CASE Fanout(x)
    BY <1>3, <2>2, <2>3 DEF Fanout
  <2>4. CASE UNCHANGED chan
    BY <1>3, <2>4
  <2> QED BY <1>6, <2>3, <2>4 DEF RedisPublish, RedisRetry
<1>7. ASSUME UNCHANGED chan PROVE ChanIssued'
  BY <1>3, <1>7
<1> QED
  BY <1>4, <1>5, <1>6, <1>7
  DEF Next, vars, Start, Subscribe, LoseSubscription, ServeWS, AddClient, PeerGone,
      RemoveClient, Publish, SetPresence, BroadcastLocal, EndLoop, Send

LEMMA GotStep == SoundInv /\ [Next]_vars => GotSound'
<1> SUFFICES ASSUME SoundInv, [Next]_vars PROVE GotSound'
  OBVIOUS
<1>1. /\ TypeOK /\ LoopsHavePayload /\ LoopsSound /\ GotSound
      /\ got \in [Clients -> Seq(Callers)]
  BY DEF SoundInv, TypeInv, TypeOK
<1>2. \A x \in Callers : pc[x] # "idle" => pc'[x] # "idle"
  BY <1>1, IssuedStep
<1>3. \A c \in Clients : \A i \in 1..Len(got[c]) :
        pc'[got[c][i]] # "idle" /\ Addressed(got[c][i], c) /\ IsParticipant(c)
  BY <1>1, <1>2 DEF GotSound
<1> USE DEF GotSound
<1>4. ASSUME NEW g \in Goroutines, NEW c \in Clients, Send(g, c) PROVE GotSound'
  <2> DEFINE x == loop[g].cur
  <2>1. c \in loop[g].todo /\ loop[g] \in LoopStates
    BY <1>1, <1>4 DEF Send, TypeOK
  <2>2. x \in Callers
    BY <1>1, <2>1 DEF LoopsHavePayload, LoopStates
  <2>3. pc'[x] # "idle" /\ Addressed(x, c) /\ IsParticipant(c)
    BY <1>1, <1>2, <2>1, <2>2 DEF LoopsSound, LoopsHavePayload
  <2> HIDE DEF x
  <2>4. CASE UNCHANGED got
    BY <1>3, <2>4
  <2>5. CASE got' = [got EXCEPT ![c] = Append(got[c], x)]
    <3>1. \A i \in 1..Len(Append(got[c], x)) :
            LET y == Append(got[c], x)[i] IN
            pc'[y] # "idle" /\ Addressed(y, c) /\ IsParticipant(c)
      BY <1>1, <1>3, <2>2, <2>3
    <3> QED BY <1>1, <1>3, <2>5, <3>1
  <2> QED BY <1>4, <2>4, <2>5 DEF Send, x
<1>5. ASSUME UNCHANGED got PROVE GotSound'
  BY <1>3, <1>5
<1> QED
  BY <1>4, <1>5
  DEF Next, vars, Start, Crash, Subscribe, LoseSubscription, Relay, ServeWS, AddClient,
      PeerGone, RemoveClient, Publish, SetPresence, RedisPublish, RedisRetry, BroadcastLocal, EndLoop

LEMMA SoundInit == Init => SoundInv
  BY TypeInit, NoLoopType
  DEF Init, SoundInv, RegistryExact, Vetted, LoopsSound, ChanIssued, GotSound

LEMMA SoundStep == SoundInv /\ [Next]_vars => SoundInv'
  BY TypeStep, RegistryStep, VettedStep, LoopsStep, ChanStep, GotStep DEF SoundInv, TypeInv

LEMMA SoundAlways == Spec => []SoundInv
  BY SoundInit, SoundStep, PTL DEF Spec

\* Whatever a socket receives, a caller published, for that socket, and its
\* user takes part in the conversation it opened (ws.go:60-71, hub.go:69-248).
THEOREM AudienceCorrect == Spec => []AudienceSound
<1>1. SoundInv => AudienceSound
  <2> SUFFICES ASSUME GotSound, TypeOK, NEW c \in Clients, NEW x \in ToSet(got[c])
               PROVE  pc[x] # "idle" /\ Addressed(x, c) /\ IsParticipant(c)
    BY DEF SoundInv, TypeInv, AudienceSound
  <2>1. PICK i \in 1..Len(got[c]) : x = got[c][i]
    BY DEF ToSet, TypeOK
  <2> QED BY <2>1 DEF GotSound
<1> QED BY <1>1, SoundAlways, PTL

-----------------------------------------------------------------------------
(* The hub implements the broadcast.                                       *)

LEMMA RefinementInit == Init => Abstract!Init
  BY DEF Init, Abstract!Init

\* Every step of the hub is a step of the broadcast, or changes nothing it
\* can see: a call begins, a socket joins, sockets leave, a frame is written.
LEMMA RefinementStep == SoundInv /\ [Next]_vars => [Abstract!Next]_Abstract!vars
<1> SUFFICES ASSUME SoundInv, [Next]_vars PROVE [Abstract!Next]_Abstract!vars
  OBVIOUS
<1>1. /\ TypeOK /\ LoopsHavePayload /\ Vetted /\ LoopsSound
      /\ pc \in [Callers -> PcStates] /\ conn \in [Clients -> ConnStates]
  BY DEF SoundInv, TypeInv, TypeOK
<1> DEFINE Issued == {x \in Callers : pc[x] # "idle"}
           Attached == {c \in Clients : conn[c] = "open"}
<1> USE DEF clientVars, callVars, redisVars, Abstract!vars
<1>2. ASSUME Issued' = Issued, Attached' = Attached, got' = got
      PROVE  [Abstract!Next]_Abstract!vars
  BY <1>2
<1>3. ASSUME NEW s \in Servers, Crash(s) PROVE [Abstract!Next]_Abstract!vars
  <2> DEFINE C == {c \in Clients : Host[c] = s}
  <2>1. Issued' = Issued
    BY <1>1, <1>3 DEF Crash, Finished
  <2>2. Attached' = Attached \ C /\ got' = got
    BY <1>1, <1>3 DEF Crash
  <2>3. Abstract!Detach(C)
    BY <2>1, <2>2 DEF Abstract!Detach
  <2> QED BY <2>3 DEF Abstract!Next
<1>4. ASSUME NEW c \in Clients, ServeWS(c) PROVE [Abstract!Next]_Abstract!vars
  <2>1. Attached' = Attached
    BY <1>1, <1>4 DEF ServeWS
  <2> QED BY <1>2, <1>4, <2>1 DEF ServeWS
<1>5. ASSUME NEW c \in Clients, AddClient(c) PROVE [Abstract!Next]_Abstract!vars
  <2>1. Attached' = Attached \cup {c} /\ IsParticipant(c)
    BY <1>1, <1>5 DEF AddClient, Vetted
  <2>2. Abstract!Attach(c)
    BY <1>5, <2>1 DEF AddClient, Abstract!Attach
  <2> QED BY <2>2 DEF Abstract!Next
<1>6. ASSUME NEW c \in Clients, PeerGone(c) PROVE [Abstract!Next]_Abstract!vars
  <2>1. Attached' = Attached \ {c}
    BY <1>1, <1>6 DEF PeerGone
  <2>2. Abstract!Detach({c})
    BY <1>6, <2>1 DEF PeerGone, Abstract!Detach
  <2> QED BY <2>2 DEF Abstract!Next
<1>7. ASSUME NEW c \in Clients, RemoveClient(c) PROVE [Abstract!Next]_Abstract!vars
  <2>1. Attached' = Attached
    BY <1>1, <1>7 DEF RemoveClient
  <2> QED BY <1>2, <1>7, <2>1 DEF RemoveClient
<1>8. ASSUME NEW x \in Callers, Publish(x) PROVE [Abstract!Next]_Abstract!vars
  <2>1. PICK v \in {"lookup", "set", "publish"} : pc' = [pc EXCEPT ![x] = v]
    BY <1>8 DEF Publish
  <2>2. Issued' = Issued \cup {x}
    BY <1>1, <2>1
  <2>3. Abstract!Issue(x)
    BY <1>8, <2>2 DEF Publish, Abstract!Issue
  <2> QED BY <2>3 DEF Abstract!Next
<1>9. ASSUME NEW x \in Callers, pc[x] # "idle", NEW v \in PcStates \ {"idle"},
             pc' = [pc EXCEPT ![x] = v], UNCHANGED <<conn, got>>
      PROVE  [Abstract!Next]_Abstract!vars
  <2>1. Issued' = Issued
    BY <1>1, <1>9
  <2> QED BY <1>2, <1>9, <2>1
<1>10. ASSUME NEW x \in Callers, SetPresence(x) PROVE [Abstract!Next]_Abstract!vars
  <2>1. PICK v \in {"publish", "err"} : pc' = [pc EXCEPT ![x] = v]
    BY <1>10 DEF SetPresence
  <2> QED BY <1>9, <1>10, <2>1 DEF SetPresence, PcStates, Finished
<1>11. ASSUME NEW x \in Callers, RedisPublish(x) PROVE [Abstract!Next]_Abstract!vars
  <2>1. PICK v \in {"nil", "err", "publish", "lookup"} : pc' = [pc EXCEPT ![x] = v]
    BY <1>11 DEF RedisPublish, AfterFailure
  <2> QED BY <1>9, <1>11, <2>1 DEF RedisPublish, SendCommand, PcStates, Finished
<1>12. ASSUME NEW x \in Callers, BroadcastLocal(x) PROVE [Abstract!Next]_Abstract!vars
  <2>1. PICK v \in {"range", "nil", "err"} : pc' = [pc EXCEPT ![x] = v]
    BY <1>12 DEF BroadcastLocal, Outcome
  <2> QED BY <1>9, <1>12, <2>1 DEF BroadcastLocal, PcStates, Finished
<1>13. ASSUME NEW g \in Goroutines, EndLoop(g) PROVE [Abstract!Next]_Abstract!vars
  <2>1. UNCHANGED <<conn, got>>
    BY <1>13 DEF EndLoop
  <2>2. Issued' = Issued
    <3>1. CASE g \in Callers
      <4>1. PICK v \in {"nil", "err"} : pc' = [pc EXCEPT ![g] = v]
        BY <1>13, <3>1 DEF EndLoop, Outcome
      <4>2. pc[g] # "idle"
        BY <1>1, <1>13, <3>1 DEF EndLoop, Looping, LoopsSound
      <4> QED BY <1>1, <3>1, <4>1, <4>2
    <3>2. CASE g \notin Callers
      BY <1>13, <3>2 DEF EndLoop
    <3> QED BY <3>1, <3>2
  <2> QED BY <1>2, <2>1, <2>2
<1>14. ASSUME NEW g \in Goroutines, NEW c \in Clients, Send(g, c)
       PROVE  [Abstract!Next]_Abstract!vars
  <2> DEFINE x == loop[g].cur
  <2>1. c \in loop[g].todo /\ loop[g] \in LoopStates /\ UNCHANGED <<pc, conn>>
    BY <1>1, <1>14 DEF Send, TypeOK
  <2>2. x \in Callers /\ pc[x] # "idle" /\ Addressed(x, c)
    BY <1>1, <2>1 DEF LoopsHavePayload, LoopsSound, LoopStates
  <2> HIDE DEF x
  <2>3. CASE conn[c] = "open"
    <3>1. got' = [got EXCEPT ![c] = Append(got[c], x)]
      BY <1>14, <2>3 DEF Send, x
    <3>2. Abstract!Deliver(x, c)
      BY <2>1, <2>2, <2>3, <3>1 DEF Abstract!Deliver
    <3> QED BY <2>2, <3>2 DEF Abstract!Next
  <2>4. CASE conn[c] # "open"
    BY <1>2, <1>14, <2>1, <2>4 DEF Send
  <2> QED BY <2>3, <2>4
<1>15. ASSUME NEW x \in Callers, RedisRetry(x) PROVE [Abstract!Next]_Abstract!vars
  BY <1>2, <1>15 DEF RedisRetry
<1>16. ASSUME UNCHANGED <<pc, conn, got>> PROVE [Abstract!Next]_Abstract!vars
  BY <1>2, <1>16
<1> QED
  BY <1>3, <1>4, <1>5, <1>6, <1>7, <1>8, <1>10, <1>11, <1>12, <1>13, <1>14, <1>15, <1>16
  DEF Next, vars, Start, Subscribe, LoseSubscription, Relay

\* The hub, with its retries, locks, channels, crashes and fallbacks, is a
\* Broadcast: it hands over only what was published, to its audience, over a
\* socket that was admitted and has not left.
THEOREM HubImplementsBroadcast == Spec => ImplementsBroadcast
<1>1. Spec => Abstract!Spec
  BY RefinementInit, RefinementStep, SoundAlways, PTL DEF Spec, Abstract!Spec
<1> QED BY <1>1 DEF ImplementsBroadcast

-----------------------------------------------------------------------------
(* Send loops leave nobody out.                                            *)

\* Of the connections a loop started with, those still open have the payload
\* or are still to get it; none of them has yet to join.
LoopsComplete ==
    \A g \in Goroutines : loop[g].cur # None =>
        \A c \in loop[g].started :
            /\ conn[c] \notin {"idle", "upgraded"}
            /\ conn[c] = "open" /\ c \notin loop[g].todo => loop[g].cur \in ToSet(got[c])

LEMMA GotGrows ==
  ASSUME TypeInv, [Next]_vars, NEW c \in Clients
  PROVE  ToSet(got[c]) \subseteq ToSet(got'[c])
<1>1. TypeOK /\ got \in [Clients -> Seq(Callers)]
  BY DEF TypeInv, TypeOK
<1>2. ASSUME NEW g \in Goroutines, NEW d \in Clients, Send(g, d)
      PROVE  ToSet(got[c]) \subseteq ToSet(got'[c])
  <2>1. loop[g].cur \in Callers
    BY <1>1, <1>2 DEF TypeInv, LoopsHavePayload, TypeOK, LoopStates, Send
  <2> DEFINE x == loop[g].cur
  <2> HIDE DEF x
  <2>2. CASE got' = [got EXCEPT ![d] = Append(got[d], x)]
    <3>1. ASSUME NEW i \in 1..Len(got[d])
          PROVE  i \in 1..Len(Append(got[d], x)) /\ Append(got[d], x)[i] = got[d][i]
      BY <1>1, <2>1 DEF x
    <3>2. CASE c = d
      BY <1>1, <2>1, <2>2, <3>1, <3>2 DEF ToSet, x
    <3>3. CASE c # d
      BY <1>1, <2>2, <3>3 DEF ToSet
    <3> QED BY <3>2, <3>3
  <2>3. CASE UNCHANGED got
    BY <2>3 DEF ToSet
  <2> QED BY <1>2, <2>2, <2>3 DEF Send, x
<1>3. ASSUME UNCHANGED got PROVE ToSet(got[c]) \subseteq ToSet(got'[c])
  BY <1>3 DEF ToSet
<1> QED
  BY <1>2, <1>3
  DEF Next, vars, Start, Crash, Subscribe, LoseSubscription, Relay, ServeWS, AddClient,
      PeerGone, RemoveClient, Publish, SetPresence, RedisPublish, RedisRetry, BroadcastLocal, EndLoop

LEMMA CompleteStep == SoundInv /\ LoopsComplete /\ [Next]_vars => LoopsComplete'
<1> SUFFICES ASSUME SoundInv, LoopsComplete, [Next]_vars PROVE LoopsComplete'
  OBVIOUS
<1>1. /\ TypeInv /\ TypeOK /\ RegistryExact
      /\ loop \in [Goroutines -> LoopStates] /\ conn \in [Clients -> ConnStates]
      /\ Servers \subseteq Goroutines /\ Callers \subseteq Goroutines
  BY DEF SoundInv, TypeInv, TypeOK, Goroutines
<1>2. \A c \in Clients : ToSet(got[c]) \subseteq ToSet(got'[c])
  BY <1>1, GotGrows
<1>3. \A g \in Goroutines : loop[g].started \subseteq Clients
  BY <1>1 DEF LoopStates
<1> USE DEF LoopsComplete
<1>4. ASSUME NEW s \in Servers, Crash(s) PROVE LoopsComplete'
  <2>1. \A c \in Clients : conn'[c] = conn[c] \/ conn'[c] = "closed"
    BY <1>1, <1>4 DEF Crash
  <2> QED BY <1>1, <1>2, <1>3, <1>4, <2>1, CrashEffect, NoLoopType
<1>5. ASSUME NEW c \in Clients, ServeWS(c) PROVE LoopsComplete'
  BY <1>1, <1>2, <1>3, <1>5 DEF ServeWS
<1>6. ASSUME NEW c \in Clients, AddClient(c) PROVE LoopsComplete'
  <2>1. conn[c] = "upgraded" /\ conn' = [conn EXCEPT ![c] = "open"]
    BY <1>6 DEF AddClient
  <2>2. \A h \in Goroutines : /\ loop'[h].cur = loop[h].cur
                              /\ loop'[h].started = loop[h].started
                              /\ loop[h].todo \subseteq loop'[h].todo
    BY <1>1, <1>6, AddEffect
  <2> QED BY <1>1, <1>2, <1>3, <2>1, <2>2
<1>7. ASSUME NEW c \in Clients, PeerGone(c) PROVE LoopsComplete'
  BY <1>1, <1>2, <1>3, <1>7 DEF PeerGone
<1>8. ASSUME NEW c \in Clients, RemoveClient(c) PROVE LoopsComplete'
  <2>1. conn' = [conn EXCEPT ![c] = "closed"]
    BY <1>8 DEF RemoveClient
  <2>2. \A h \in Goroutines : /\ loop'[h].cur = loop[h].cur
                              /\ loop'[h].started = loop[h].started
                              /\ loop[h].todo \subseteq loop'[h].todo \cup {c}
    BY <1>1, <1>8, RemoveEffect
  <2> QED BY <1>1, <1>2, <1>3, <2>1, <2>2
<1>9. ASSUME NEW g \in Goroutines, NEW x \in Callers, NEW s \in Servers, UNCHANGED conn,
             BeginLoop(g, x, Recipients(s, x))
      PROVE  LoopsComplete'
  <2> DEFINE R == Recipients(s, x)
  <2>1. R \in SUBSET Clients /\ \A c \in R : conn[c] \in {"open", "broken"}
    BY <1>1 DEF Recipients, RegistryExact
  <2>2. /\ loop'[g].cur = x /\ loop'[g].todo = R /\ loop'[g].started = R
        /\ \A h \in Goroutines : h # g => loop'[h] = loop[h]
    BY <1>1, <1>9, <2>1, BeginEffect
  <2> HIDE DEF R
  <2> QED BY <1>1, <1>2, <1>3, <1>9, <2>1, <2>2
<1>10. ASSUME NEW s \in Servers, Relay(s) PROVE LoopsComplete'
  <2>1. Head(chan[s]) \in Callers /\ UNCHANGED conn
    BY <1>1, <1>10 DEF Relay, TypeOK, clientVars
  <2>2. CASE UNCHANGED loop
    BY <1>2, <1>3, <2>1, <2>2
  <2> QED BY <1>1, <1>9, <1>10, <2>1, <2>2 DEF Relay
<1>11. ASSUME NEW x \in Callers, BroadcastLocal(x) PROVE LoopsComplete'
  <2>1. Host[x] \in Servers /\ UNCHANGED conn
    BY <1>11, HostType DEF BroadcastLocal, clientVars
  <2>2. CASE UNCHANGED loop
    BY <1>2, <1>3, <2>1, <2>2
  <2> QED BY <1>1, <1>9, <1>11, <2>1, <2>2 DEF BroadcastLocal
<1>12. ASSUME NEW g \in Goroutines, EndLoop(g) PROVE LoopsComplete'
  <2>1. UNCHANGED conn
    BY <1>12 DEF EndLoop, clientVars
  <2> QED BY <1>1, <1>2, <1>3, <1>12, <2>1, EndEffect, NoLoopType
<1>13. ASSUME NEW g \in Goroutines, NEW c \in Clients, Send(g, c) PROVE LoopsComplete'
  <2> DEFINE x == loop[g].cur
  <2>1. x \in Callers /\ UNCHANGED conn
    BY <1>1, <1>13 DEF TypeInv, LoopsHavePayload, LoopStates, Send, clientVars
  <2>2. /\ loop'[g].todo = loop[g].todo \ {c}
        /\ \A h \in Goroutines : /\ loop'[h].cur = loop[h].cur
                                 /\ loop'[h].started = loop[h].started
                                 /\ h # g => loop'[h] = loop[h]
    BY <1>1, <1>13, SendEffect
  <2> HIDE DEF x
  <2>3. conn[c] = "open" => x \in ToSet(got'[c])
    <3>1. SUFFICES ASSUME conn[c] = "open" PROVE x \in ToSet(got'[c])
      OBVIOUS
    <3>2. got'[c] = Append(got[c], x) /\ got[c] \in Seq(Callers)
      BY <1>1, <1>13, <3>1 DEF Send, TypeOK, x
    <3>3. /\ Len(got[c]) + 1 \in 1..Len(Append(got[c], x))
          /\ Append(got[c], x)[Len(got[c]) + 1] = x
          /\ DOMAIN Append(got[c], x) = 1..Len(Append(got[c], x))
      BY <2>1, <3>2
    <3> QED BY <3>2, <3>3 DEF ToSet
  <2> QED BY <1>1, <1>2, <1>3, <2>1, <2>2, <2>3 DEF x
<1>14. ASSUME UNCHANGED <<loop, conn>> PROVE LoopsComplete'
  BY <1>2, <1>3, <1>14
<1> QED
  BY <1>4, <1>5, <1>6, <1>7, <1>8, <1>10, <1>11, <1>12, <1>13, <1>14
  DEF Next, vars, clientVars, Start, Subscribe, LoseSubscription, Publish, SetPresence,
      RedisPublish, RedisRetry

\* No send loop ends, short of its process dying, while a connection that was
\* there at its start and is still open lacks the payload, although others
\* join and leave the map it ranges over (hub.go:121, 157, 165, 204).
THEOREM SendLoopsCorrect == Spec => SendLoopsComplete
<1>1. Init => LoopsComplete
  BY NoLoopType DEF Init, LoopsComplete
<1>2. SoundInv /\ LoopsComplete /\ [Next]_vars => [NobodyLeftOut]_vars
  <2> SUFFICES ASSUME SoundInv, LoopsComplete, Next, NEW g \in Goroutines,
                      Looping(g), ~Looping(g)', mode'[At(g)] # "down"
               PROVE  \A c \in loop[g].started :
                        conn[c] = "open" => loop[g].cur \in ToSet(got[c])
    BY DEF NobodyLeftOut
  <2>1. TypeOK
    BY DEF SoundInv, TypeInv
  <2>2. loop[g].cur # None /\ loop'[g].cur = None /\ mode'[At(g)] # "down"
    BY DEF Looping
  <2>3. CASE EndLoop(g)
    BY <2>1, <2>2, <2>3, EndEffect DEF LoopsComplete
  <2>4. ASSUME NEW s \in Servers, Crash(s) PROVE FALSE
    <3>1. At(g) = s
      BY <2>1, <2>2, <2>4, CrashEffect
    <3> QED BY <2>1, <2>2, <2>4, <3>1 DEF Crash, TypeOK
  <2>5. ASSUME NEW h \in Goroutines, NEW x \in Callers, NEW s \in Servers,
               BeginLoop(h, x, Recipients(s, x))
        PROVE  FALSE
    <3>1. Recipients(s, x) \in SUBSET Clients /\ x # None
      BY <2>1, HubAssumption DEF Recipients, TypeOK
    <3> QED BY <2>1, <2>2, <2>5, <3>1, BeginEffect
  <2>6. ASSUME NEW s \in Servers, Relay(s) PROVE FALSE
    <3>1. Head(chan[s]) \in Callers /\ s \in Goroutines
      BY <2>1, <2>6 DEF Relay, TypeOK, Goroutines
    <3> QED BY <2>2, <2>5, <2>6, <3>1 DEF Relay
  <2>7. ASSUME NEW x \in Callers, BroadcastLocal(x) PROVE FALSE
    <3>1. Host[x] \in Servers /\ x \in Goroutines
      BY HostType DEF Goroutines
    <3> QED BY <2>2, <2>5, <2>7, <3>1 DEF BroadcastLocal
  <2>8. ASSUME NEW c \in Clients, AddClient(c) PROVE FALSE
    BY <2>1, <2>2, <2>8, AddEffect
  <2>9. ASSUME NEW c \in Clients, RemoveClient(c) PROVE FALSE
    BY <2>1, <2>2, <2>9, RemoveEffect
  <2>10. ASSUME NEW h \in Goroutines, NEW c \in Clients, Send(h, c) PROVE FALSE
    BY <2>1, <2>2, <2>10, SendEffect
  <2>11. ASSUME NEW h \in Goroutines, h # g, EndLoop(h) PROVE FALSE
    BY <2>1, <2>2, <2>11, EndEffect
  <2>12. ASSUME UNCHANGED loop PROVE FALSE
    BY <2>2, <2>12
  <2> QED
    BY <2>3, <2>4, <2>6, <2>7, <2>8, <2>9, <2>10, <2>11, <2>12
    DEF Next, Start, Subscribe, LoseSubscription, ServeWS, PeerGone, Publish, SetPresence,
        RedisPublish, RedisRetry
<1> QED BY <1>1, <1>2, CompleteStep, SoundAlways, PTL DEF Spec, SendLoopsComplete
=============================================================================
