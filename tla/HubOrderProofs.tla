-------------------------- MODULE HubOrderProofs --------------------------
(***************************************************************************)
(* RelayOrder of Hub: payloads whose first PUBLISH command succeeded are  *)
(* seen in one order by all sockets, for every instance.                   *)
(***************************************************************************)
EXTENDS HubProofs

-----------------------------------------------------------------------------
(* Order in sequences.                                                     *)

\* x occurs before y in s.
Precedes(s, x, y) == \E i, j \in DOMAIN s : i < j /\ s[i] = x /\ s[j] = y

-----------------------------------------------------------------------------
(* The inductive invariant.                                                *)

\* A PUBLISH command of x, whether the Redis client repeats it or not.
Command(x) == RedisPublish(x) \/ RedisRetry(x)

\* Before its first command a payload is nowhere.
Unpublished(x) == pc[x] \in {"idle", "set", "publish"} /\ sends[x] = 0

Nowhere(x) ==
    /\ \A c \in Clients : x \notin ToSet(got[c])
    /\ \A g \in Goroutines : loop[g].cur # x
    /\ \A s \in Servers : x \notin ToSet(chan[s])

FreshInv == \A x \in Callers : Unpublished(x) => Nowhere(x)

\* A caller that tries Redis, or tried it and falls back, is in redis mode.
ModeInv ==
    \A x \in Callers :
        \/ pc[x] \in {"set", "publish"}
        \/ pc[x] \in {"lookup", "range"} /\ sends[x] # 0
        => mode[Host[x]] = "redis"

\* Loops of callers belong to calls under way, and stay on their process.
RangeInv == \A x \in Callers : loop[x].cur # None => pc[x] = "range"
HomeInv == \A g \in Goroutines : \A c \in loop[g].todo : Host[c] = At(g)

Clean == {z \in Callers : pc[z] = "nil" /\ sends[z] = 1}

\* On its way through every process, from channel to loop to sockets, x does not
\* come before y.
Behind(x, y) ==
    /\ \A c \in Clients :
         /\ ~Precedes(got[c], x, y)
         /\ x \in ToSet(got[c]) => /\ loop[Host[c]].cur # y
                                   /\ y \notin ToSet(chan[Host[c]])
    /\ \A s \in Servers : /\ loop[s].cur = x => y \notin ToSet(chan[s])
                          /\ ~Precedes(chan[s], x, y)

OrderInv == \A x, y \in Clean : x # y => Behind(x, y) \/ Behind(y, x)

Flow == FreshInv /\ ModeInv /\ RangeInv /\ HomeInv /\ OrderInv

-----------------------------------------------------------------------------
(* Facts.                                                                  *)

LEMMA AppendFacts ==
  ASSUME NEW s \in Seq(Callers), NEW e \in Callers
  PROVE  /\ ToSet(Append(s, e)) = ToSet(s) \cup {e}
         /\ \A x, y : Precedes(Append(s, e), x, y) => Precedes(s, x, y) \/ (e = y /\ x \in ToSet(s))
<1>1. /\ DOMAIN Append(s, e) = 1..Len(s) + 1 /\ DOMAIN s = 1..Len(s) /\ Len(s) \in Nat
      /\ Append(s, e)[Len(s) + 1] = e
      /\ \A i \in 1..Len(s) : Append(s, e)[i] = s[i]
  OBVIOUS
<1>2. ToSet(Append(s, e)) = ToSet(s) \cup {e}
  BY <1>1 DEF ToSet
<1>3. ASSUME NEW x, NEW y, Precedes(Append(s, e), x, y)
      PROVE  Precedes(s, x, y) \/ (e = y /\ x \in ToSet(s))
  <2>1. PICK i, j \in 1..Len(s) + 1 : i < j /\ Append(s, e)[i] = x /\ Append(s, e)[j] = y
    BY <1>1, <1>3 DEF Precedes
  <2>2. i \in 1..Len(s) /\ s[i] = x
    BY <1>1, <2>1
  <2>3. CASE j = Len(s) + 1
    BY <1>1, <2>1, <2>2, <2>3 DEF ToSet
  <2>4. CASE j \in 1..Len(s)
    BY <1>1, <2>1, <2>2, <2>4 DEF Precedes
  <2> QED BY <1>1, <2>1, <2>3, <2>4
<1> QED BY <1>2, <1>3

LEMMA TailFacts ==
  ASSUME NEW s \in Seq(Callers), s # <<>>
  PROVE  /\ Head(s) \in Callers /\ Tail(s) \in Seq(Callers)
         /\ Head(s) \in ToSet(s) /\ ToSet(Tail(s)) \subseteq ToSet(s)
         /\ \A x, y : Precedes(Tail(s), x, y) => Precedes(s, x, y)
         /\ \A y \in ToSet(Tail(s)) : Precedes(s, Head(s), y)
<1>1. /\ Head(s) = s[1] /\ Len(s) \in Nat \ {0} /\ DOMAIN s = 1..Len(s)
      /\ Tail(s) \in Seq(Callers) /\ Len(Tail(s)) = Len(s) - 1 /\ DOMAIN Tail(s) = 1..Len(s) - 1
      /\ \A i \in 1..Len(s) - 1 : i + 1 \in 1..Len(s) /\ Tail(s)[i] = s[i + 1]
      /\ 1 \in 1..Len(s) /\ s[1] \in Callers
  OBVIOUS
<1>2. Head(s) \in ToSet(s) /\ ToSet(Tail(s)) \subseteq ToSet(s)
  BY <1>1 DEF ToSet
<1>3. ASSUME NEW x, NEW y, Precedes(Tail(s), x, y)
      PROVE  Precedes(s, x, y)
  <2>1. PICK i, j \in 1..Len(s) - 1 : i < j /\ Tail(s)[i] = x /\ Tail(s)[j] = y
    BY <1>1, <1>3 DEF Precedes
  <2>2. /\ i + 1 \in 1..Len(s) /\ j + 1 \in 1..Len(s) /\ i + 1 < j + 1
        /\ s[i + 1] = x /\ s[j + 1] = y
    BY <1>1, <2>1
  <2> QED BY <1>1, <2>2 DEF Precedes
<1>4. ASSUME NEW y \in ToSet(Tail(s))
      PROVE  Precedes(s, Head(s), y)
  <2>1. PICK j \in 1..Len(s) - 1 : Tail(s)[j] = y
    BY <1>1 DEF ToSet
  <2>2. j + 1 \in 1..Len(s) /\ 1 < j + 1 /\ s[j + 1] = y
    BY <1>1, <2>1
  <2> QED BY <1>1, <2>2 DEF Precedes
<1> QED BY <1>1, <1>2, <1>3, <1>4

LEMMA EmptyFacts == ToSet(<< >>) = {} /\ \A x, y : ~Precedes(<< >>, x, y)
  BY DEF ToSet, Precedes

LEMMA Goroutine ==
  /\ \A x \in Callers : x \in Goroutines /\ x \notin Servers /\ x # None /\ At(x) = Host[x]
  /\ \A s \in Servers : s \in Goroutines /\ At(s) = s
  BY HubAssumption DEF Goroutines, At

\* Where payloads are: in no step but these do they move on.
Still == UNCHANGED <<chan, got>> /\ \A g \in Goroutines : loop'[g].cur = loop[g].cur

LEMMA QuietSteps ==
  ASSUME TypeOK,
         \/ \E s \in Servers : Start(s) \/ Subscribe(s) \/ LoseSubscription(s)
         \/ \E c \in Clients : ServeWS(c) \/ AddClient(c) \/ PeerGone(c) \/ RemoveClient(c)
         \/ \E x \in Callers : Publish(x) \/ SetPresence(x)
         \/ UNCHANGED vars
  PROVE  Still
<1>1. ASSUME NEW c \in Clients, AddClient(c)
      PROVE  Still
  BY <1>1, AddEffect DEF Still, AddClient
<1>2. ASSUME NEW c \in Clients, RemoveClient(c)
      PROVE  Still
  BY <1>2, RemoveEffect DEF Still, RemoveClient
<1>3. ASSUME UNCHANGED <<chan, got, loop>>
      PROVE  Still
  BY <1>3 DEF Still
<1> QED BY <1>1, <1>2, <1>3 DEF Start, Subscribe, LoseSubscription, ServeWS, PeerGone, Publish,
                               SetPresence, vars

\* A step in which nothing moves forward: channels and loops at most empty.
Fading ==
    /\ UNCHANGED got
    /\ \A s \in Servers : chan'[s] \in {chan[s], << >>}
    /\ \A g \in Goroutines : loop'[g].cur \in {loop[g].cur, None}

LEMMA StillFades == ASSUME Still PROVE Fading
  BY DEF Still, Fading

LEMMA CrashFades == ASSUME TypeOK, NEW s \in Servers, Crash(s) PROVE Fading
<1>1. \A t \in Servers : chan'[t] \in {chan[t], << >>}
  BY DEF Crash, TypeOK
<1>2. \A g \in Goroutines : loop'[g].cur \in {loop[g].cur, None}
  BY CrashEffect, NoLoopType
<1> QED BY <1>1, <1>2 DEF Crash, Fading

LEMMA EndFades == ASSUME TypeOK, NEW g \in Goroutines, EndLoop(g) PROVE Fading
<1>1. \A h \in Goroutines : loop'[h].cur \in {loop[h].cur, None}
  BY EndEffect, NoLoopType
<1> QED BY <1>1 DEF EndLoop, Fading

-----------------------------------------------------------------------------
(* What a caller has done so far.                                          *)

LEMMA CommandEffect ==
  ASSUME TypeOK, NEW z \in Callers, Command(z)
  PROVE  /\ pc[z] = "publish" /\ sends' = [sends EXCEPT ![z] = sends[z] + 1]
         /\ UNCHANGED <<mode, got, loop>>
         /\ \A s \in Servers : chan'[s] \in {chan[s], Append(chan[s], z)}
         /\ \E v \in PcStates : pc' = [pc EXCEPT ![z] = v]
<1>1. pc[z] = "publish" /\ sends' = [sends EXCEPT ![z] = sends[z] + 1]
  BY DEF Command, RedisPublish, RedisRetry, SendCommand
<1>2. UNCHANGED <<mode, got, loop>> /\ (Fanout(z) \/ UNCHANGED chan)
  BY DEF Command, RedisPublish, RedisRetry, serverVars
<1>3. \A s \in Servers : chan'[s] \in {chan[s], Append(chan[s], z)}
  BY <1>2 DEF Fanout
<1>4. \E v \in PcStates : pc' = [pc EXCEPT ![z] = v]
  <2>1. CASE RedisPublish(z)
    <3>1. \E v \in {"nil", "err", "publish", "lookup"} : pc' = [pc EXCEPT ![z] = v]
      BY <2>1 DEF RedisPublish, AfterFailure
    <3> QED BY <3>1 DEF PcStates, Finished
  <2>2. CASE RedisRetry(z)
    <3>1. pc' = [pc EXCEPT ![z] = "publish"]
      BY <1>1, <2>2 DEF RedisRetry, TypeOK
    <3> QED BY <3>1 DEF PcStates
  <2> QED BY <2>1, <2>2 DEF Command
<1> QED BY <1>1, <1>2, <1>3, <1>4

\* A payload that is unpublished after a step was so before it.
LEMMA UnpublishedStep ==
  ASSUME TypeInv, [Next]_vars, NEW x \in Callers, Unpublished(x)'
  PROVE  Unpublished(x)
<1>1. TypeOK /\ AttemptsLeft
  BY DEF TypeInv
<1> USE DEF Unpublished, TypeOK, callVars, redisVars
<1>2. ASSUME NEW s \in Servers, Crash(s) PROVE Unpublished(x)
  BY <1>1, <1>2 DEF Crash
<1>3. ASSUME NEW z \in Callers, Publish(z) PROVE Unpublished(x)
  BY <1>1, <1>3 DEF Publish
<1>4. ASSUME NEW z \in Callers, SetPresence(z) PROVE Unpublished(x)
  BY <1>1, <1>4 DEF SetPresence
<1>5. ASSUME NEW z \in Callers, Command(z) PROVE Unpublished(x)
  <2>1. PICK v : pc' = [pc EXCEPT ![z] = v]
    BY <1>1, <1>5, CommandEffect
  <2>2. pc[z] = "publish" /\ sends' = [sends EXCEPT ![z] = sends[z] + 1]
    BY <1>1, <1>5, CommandEffect
  <2> QED BY <1>1, <2>1, <2>2
<1>6. ASSUME NEW z \in Callers, BroadcastLocal(z) PROVE Unpublished(x)
  <2>1. PICK v \in {"range", "nil", "err"} : pc' = [pc EXCEPT ![z] = v]
    BY <1>6 DEF BroadcastLocal, Outcome
  <2> QED BY <1>1, <1>6, <2>1 DEF BroadcastLocal
<1>7. ASSUME NEW g \in Goroutines, EndLoop(g) PROVE Unpublished(x)
  BY <1>1, <1>7 DEF EndLoop, Outcome
<1>8. ASSUME UNCHANGED callVars PROVE Unpublished(x)
  BY <1>8
<1> QED
  BY <1>2, <1>3, <1>4, <1>5, <1>6, <1>7, <1>8
  DEF Next, Command, vars, Start, Subscribe, LoseSubscription, Relay, ServeWS, AddClient, PeerGone,
      RemoveClient, Send

LEMMA ModeStep == TypeInv /\ ModeInv /\ [Next]_vars => ModeInv'
<1> SUFFICES ASSUME TypeInv, ModeInv, [Next]_vars PROVE ModeInv'
  OBVIOUS
<1>1. TypeOK /\ AttemptsLeft
  BY DEF TypeInv
<1> USE HostType DEF ModeInv, TypeOK, serverVars, callVars, redisVars
<1>2. ASSUME NEW s \in Servers, Start(s) PROVE ModeInv'
  BY <1>1, <1>2 DEF Start
<1>3. ASSUME NEW s \in Servers, Crash(s) PROVE ModeInv'
  BY <1>1, <1>3 DEF Crash, PcStates, Finished
<1>4. ASSUME NEW z \in Callers, Publish(z) PROVE ModeInv'
  <2>1. PICK v \in {"lookup", "set", "publish"} :
          pc' = [pc EXCEPT ![z] = v] /\ (v # "lookup" => mode[Host[z]] = "redis")
    BY <1>1, <1>4 DEF Publish
  <2>2. sends[z] = 0 /\ UNCHANGED <<mode, sends>>
    BY <1>1, <1>4 DEF Publish, AttemptsLeft
  <2> QED BY <1>1, <2>1, <2>2
<1>5. ASSUME NEW z \in Callers, SetPresence(z) PROVE ModeInv'
  BY <1>1, <1>5 DEF SetPresence
<1>6. ASSUME NEW z \in Callers, Command(z) PROVE ModeInv'
  <2>1. PICK v : pc' = [pc EXCEPT ![z] = v]
    BY <1>1, <1>6, CommandEffect
  <2>2. mode[Host[z]] = "redis" /\ UNCHANGED mode /\ sends' = [sends EXCEPT ![z] = sends[z] + 1]
    BY <1>1, <1>6, CommandEffect
  <2> QED BY <1>1, <2>1, <2>2
<1>7. ASSUME NEW z \in Callers, BroadcastLocal(z) PROVE ModeInv'
  <2>1. PICK v \in {"range", "nil", "err"} : pc' = [pc EXCEPT ![z] = v]
    BY <1>7 DEF BroadcastLocal, Outcome
  <2> QED BY <1>1, <1>7, <2>1 DEF BroadcastLocal
<1>8. ASSUME NEW g \in Goroutines, EndLoop(g) PROVE ModeInv'
  BY <1>1, <1>8 DEF EndLoop, Outcome
<1>9. ASSUME UNCHANGED <<mode, pc, sends>> PROVE ModeInv'
  BY <1>9
<1> QED
  BY <1>2, <1>3, <1>4, <1>5, <1>6, <1>7, <1>8, <1>9
  DEF Next, Command, vars, Subscribe, LoseSubscription, Relay, ServeWS, AddClient, PeerGone,
      RemoveClient, Send

\* Only a first command makes a payload clean.
LEMMA CleanStep ==
  ASSUME TypeInv, ModeInv, RangeInv, [Next]_vars, NEW x \in Callers, x \in Clean', x \notin Clean
  PROVE  Command(x) /\ Unpublished(x)
<1>1. TypeOK /\ AttemptsLeft
  BY DEF TypeInv
<1>0. pc'[x] = "nil" /\ sends'[x] = 1 /\ ~(pc[x] = "nil" /\ sends[x] = 1)
  BY DEF Clean
<1> USE DEF TypeOK, callVars, redisVars
<1>2. ASSUME NEW s \in Servers, Crash(s) PROVE FALSE
  BY <1>0, <1>1, <1>2 DEF Crash
<1>3. ASSUME NEW z \in Callers, Publish(z) PROVE FALSE
  BY <1>0, <1>1, <1>3 DEF Publish
<1>4. ASSUME NEW z \in Callers, SetPresence(z) PROVE FALSE
  BY <1>0, <1>1, <1>4 DEF SetPresence
<1>5. ASSUME NEW z \in Callers, Command(z) PROVE Command(x) /\ Unpublished(x)
  <2>1. PICK v : pc' = [pc EXCEPT ![z] = v]
    BY <1>1, <1>5, CommandEffect
  <2>2. pc[z] = "publish" /\ sends' = [sends EXCEPT ![z] = sends[z] + 1]
    BY <1>1, <1>5, CommandEffect
  <2>3. z = x
    BY <1>0, <1>1, <2>1, <2>2
  <2>4. sends[x] = 0
    BY <1>0, <1>1, <2>2, <2>3
  <2> QED BY <1>5, <2>2, <2>3, <2>4 DEF Unpublished
<1>6. ASSUME NEW z \in Callers, BroadcastLocal(z) PROVE FALSE
  <2>1. PICK v \in {"range", Outcome(z)} : pc' = [pc EXCEPT ![z] = v]
    BY <1>6 DEF BroadcastLocal
  <2>2. z = x /\ sends[z] = 1 /\ pc[z] = "lookup" /\ v = "nil"
    BY <1>0, <1>1, <1>6, <2>1 DEF BroadcastLocal
  <2>3. mode[Host[z]] = "redis"
    BY <2>2 DEF ModeInv
  <2> QED BY <2>1, <2>2, <2>3 DEF Outcome
<1>7. ASSUME NEW g \in Goroutines, EndLoop(g) PROVE FALSE
  <2>1. g = x /\ g \in Callers /\ Outcome(g) = "nil" /\ sends[g] = 1
    BY <1>0, <1>1, <1>7 DEF EndLoop
  <2>2. pc[g] = "range"
    BY <1>7, <2>1 DEF RangeInv, EndLoop, Looping
  <2>3. mode[Host[g]] = "redis"
    BY <2>1, <2>2 DEF ModeInv
  <2> QED BY <2>1, <2>3 DEF Outcome
<1>8. ASSUME UNCHANGED callVars PROVE FALSE
  BY <1>0, <1>8
<1> QED
  BY <1>2, <1>3, <1>4, <1>5, <1>6, <1>7, <1>8
  DEF Next, Command, vars, Start, Subscribe, LoseSubscription, Relay, ServeWS, AddClient, PeerGone,
      RemoveClient, Send

-----------------------------------------------------------------------------
(* Loops.                                                                  *)

\* A caller loops only over its own payload, which is then not clean.
LEMMA CallerLoops ==
  ASSUME SoundInv, RangeInv, NEW g \in Callers, loop[g].cur # None
  PROVE  loop[g].cur = g /\ pc[g] = "range" /\ loop[g].cur \notin Clean
  BY Goroutine DEF SoundInv, LoopsSound, RangeInv, Clean

LEMMA RangeStep == TypeOK /\ RangeInv /\ [Next]_vars => RangeInv'
<1> SUFFICES ASSUME TypeOK, RangeInv, [Next]_vars PROVE RangeInv'
  OBVIOUS
<1>1. pc \in [Callers -> PcStates] /\ \A x \in Callers : x \in Goroutines /\ At(x) = Host[x]
  BY Goroutine DEF TypeOK
<1> USE DEF RangeInv
<1>2. ASSUME \A x \in Callers : loop'[x].cur \in {loop[x].cur, None},
             \A x \in Callers : pc[x] = "range" /\ loop'[x].cur # None => pc'[x] = "range"
      PROVE  RangeInv'
  BY <1>2
<1>3. ASSUME NEW s \in Servers, Crash(s) PROVE RangeInv'
  <2>1. \A x \in Callers : loop'[x] = IF Host[x] = s THEN NoLoop ELSE loop[x]
    BY <1>1, <1>3, CrashEffect
  <2>2. \A x \in Callers : Host[x] # s => pc'[x] = pc[x]
    BY <1>3 DEF Crash
  <2> QED BY <1>2, <2>1, <2>2, NoLoopType
<1>4. ASSUME Still, NEW v, NEW z \in Callers, pc[z] # "range", pc' = [pc EXCEPT ![z] = v]
      PROVE  RangeInv'
  BY <1>1, <1>2, <1>4 DEF Still
<1>5. ASSUME Still, UNCHANGED pc PROVE RangeInv'
  BY <1>1, <1>2, <1>5 DEF Still
<1>6. ASSUME NEW s \in Servers, Relay(s) PROVE RangeInv'
  <2>1. UNCHANGED pc
    BY <1>6 DEF Relay, callVars
  <2>2. \A x \in Callers : loop'[x].cur = loop[x].cur
    BY <1>6, Goroutine DEF Relay, BeginLoop, TypeOK
  <2> QED BY <1>2, <2>1, <2>2
<1>7. ASSUME NEW z \in Callers, Command(z) PROVE RangeInv'
  <2>1. PICK v : pc' = [pc EXCEPT ![z] = v]
    BY <1>7, CommandEffect
  <2>2. pc[z] = "publish" /\ UNCHANGED loop
    BY <1>7, CommandEffect
  <2> QED BY <1>1, <1>2, <2>1, <2>2
<1>8. ASSUME NEW z \in Callers, BroadcastLocal(z) PROVE RangeInv'
  <2>1. pc[z] = "lookup" /\ loop[z].cur = None
    BY <1>8 DEF BroadcastLocal
  <2>2. CASE UNCHANGED loop
    <3>1. PICK v : pc' = [pc EXCEPT ![z] = v]
      BY <1>8 DEF BroadcastLocal
    <3> QED BY <1>1, <1>2, <2>1, <2>2, <3>1
  <2>3. CASE BeginLoop(z, z, Recipients(Host[z], z)) /\ pc' = [pc EXCEPT ![z] = "range"]
    BY <1>1, <2>1, <2>3 DEF BeginLoop, TypeOK
  <2> QED BY <1>8, <2>2, <2>3 DEF BroadcastLocal
<1>9. ASSUME NEW g \in Goroutines, EndLoop(g) PROVE RangeInv'
  <2>1. /\ loop'[g].cur = None
        /\ \A h \in Goroutines : h # g => loop'[h] = loop[h]
    BY <1>9, EndEffect, NoLoopType
  <2>2. \A x \in Callers : x # g => pc'[x] = pc[x]
    BY <1>9 DEF EndLoop
  <2> QED BY <1>1, <1>2, <2>1, <2>2
<1>10. ASSUME NEW g \in Goroutines, NEW c \in Clients, Send(g, c) PROVE RangeInv'
  <2>1. \A h \in Goroutines : loop'[h].cur = loop[h].cur
    BY <1>10, SendEffect
  <2> QED BY <1>1, <1>2, <1>10, <2>1 DEF Send, callVars
<1>11. ASSUME NEW z \in Callers, Publish(z) PROVE RangeInv'
  <2>1. PICK v : pc' = [pc EXCEPT ![z] = v]
    BY <1>11 DEF Publish
  <2> QED BY <1>4, <1>11, <2>1, QuietSteps DEF Publish
<1>12. ASSUME NEW z \in Callers, SetPresence(z) PROVE RangeInv'
  <2>1. PICK v : pc' = [pc EXCEPT ![z] = v]
    BY <1>12 DEF SetPresence
  <2> QED BY <1>4, <1>12, <2>1, QuietSteps DEF SetPresence
<1>13. ASSUME \/ \E s \in Servers : Start(s) \/ Subscribe(s) \/ LoseSubscription(s)
              \/ \E c \in Clients : ServeWS(c) \/ AddClient(c) \/ PeerGone(c) \/ RemoveClient(c)
              \/ UNCHANGED vars
       PROVE  RangeInv'
  <2>1. Still
    BY <1>13, QuietSteps
  <2>2. UNCHANGED pc
    BY <1>13 DEF Start, Subscribe, LoseSubscription, ServeWS, AddClient, PeerGone, RemoveClient,
                 vars, callVars
  <2> QED BY <1>5, <2>1, <2>2
<1> QED
  BY <1>3, <1>6, <1>7, <1>8, <1>9, <1>10, <1>11, <1>12, <1>13 DEF Next, Command

LEMMA HomeStep == TypeOK /\ RegistryExact /\ HomeInv /\ [Next]_vars => HomeInv'
<1> SUFFICES ASSUME TypeOK, RegistryExact, HomeInv, [Next]_vars PROVE HomeInv'
  OBVIOUS
<1> USE DEF HomeInv
<1>1. ASSUME \A g \in Goroutines : loop'[g].todo \subseteq loop[g].todo
      PROVE  HomeInv'
  BY <1>1
<1>2. ASSUME NEW s \in Servers, Crash(s) PROVE HomeInv'
  BY <1>1, <1>2, CrashEffect, NoLoopType
<1>3. ASSUME NEW c \in Clients, AddClient(c) PROVE HomeInv'
  <2>1. \A h \in Goroutines : \/ loop'[h].todo = loop[h].todo
                              \/ loop'[h].todo = loop[h].todo \cup {c} /\ At(h) = Host[c]
    BY <1>3, AddEffect DEF Ranging
  <2> QED BY <2>1
<1>4. ASSUME NEW c \in Clients, RemoveClient(c) PROVE HomeInv'
  BY <1>1, <1>4, RemoveEffect
<1>5. ASSUME NEW g \in Goroutines, NEW x \in Callers, BeginLoop(g, x, Recipients(At(g), x))
      PROVE  HomeInv'
  <2> DEFINE R == Recipients(At(g), x)
  <2>1. R \in SUBSET Clients /\ \A c \in R : Host[c] = At(g)
    BY AtType DEF Recipients, RegistryExact
  <2>2. loop'[g].todo = R /\ \A h \in Goroutines : h # g => loop'[h] = loop[h]
    BY <1>5, <2>1, BeginEffect
  <2> HIDE DEF R
  <2> QED BY <2>1, <2>2
<1>6. ASSUME NEW s \in Servers, Relay(s) PROVE HomeInv'
  <2>1. Head(chan[s]) \in Callers /\ s \in Goroutines /\ At(s) = s
    BY <1>6, Goroutine DEF Relay, TypeOK
  <2>2. CASE UNCHANGED loop
    BY <1>1, <2>2
  <2> QED BY <1>5, <1>6, <2>1, <2>2 DEF Relay
<1>7. ASSUME NEW x \in Callers, BroadcastLocal(x) PROVE HomeInv'
  <2>1. x \in Goroutines /\ At(x) = Host[x]
    BY Goroutine
  <2>2. CASE UNCHANGED loop
    BY <1>1, <2>2
  <2> QED BY <1>5, <1>7, <2>1, <2>2 DEF BroadcastLocal
<1>8. ASSUME NEW g \in Goroutines, EndLoop(g) PROVE HomeInv'
  <2>1. loop'[g].todo = {} /\ \A h \in Goroutines : h # g => loop'[h] = loop[h]
    BY <1>8, EndEffect, NoLoopType
  <2> QED BY <1>1, <2>1
<1>9. ASSUME NEW g \in Goroutines, NEW c \in Clients, Send(g, c) PROVE HomeInv'
  <2>1. /\ loop'[g].todo = loop[g].todo \ {c}
        /\ \A h \in Goroutines : h # g => loop'[h] = loop[h]
    BY <1>9, SendEffect
  <2> QED BY <1>1, <2>1
<1>10. ASSUME UNCHANGED loop PROVE HomeInv'
  BY <1>1, <1>10
<1> QED
  BY <1>2, <1>3, <1>4, <1>6, <1>7, <1>8, <1>9, <1>10
  DEF Next, vars, Start, Subscribe, LoseSubscription, ServeWS, PeerGone, Publish, SetPresence,
      RedisPublish, RedisRetry

-----------------------------------------------------------------------------
(* Payloads before their first command.                                    *)

LEMMA FadingKeepsNowhere ==
  ASSUME Fading, NEW x \in Callers, Nowhere(x)
  PROVE  Nowhere(x)'
<1>1. \A g \in Goroutines : loop'[g].cur # x
  BY Goroutine DEF Fading, Nowhere
<1>2. \A s \in Servers : x \notin ToSet(chan'[s])
  BY EmptyFacts DEF Fading, Nowhere
<1> QED BY <1>1, <1>2 DEF Fading, Nowhere

\* What the relay does: the head of the channel moves into its loop or is dropped.
LEMMA RelayEffect ==
  ASSUME TypeOK, NEW s \in Servers, Relay(s)
  PROVE  /\ UNCHANGED got
         /\ chan[s] # << >> /\ loop[s].cur = None
         /\ chan'[s] = Tail(chan[s])
         /\ \A t \in Servers : t # s => chan'[t] = chan[t]
         /\ loop'[s].cur \in {None, Head(chan[s])}
         /\ \A h \in Goroutines : h # s => loop'[h] = loop[h]
<1>1. /\ chan[s] # << >> /\ loop[s].cur = None /\ UNCHANGED got
      /\ chan' = [chan EXCEPT ![s] = Tail(chan[s])]
  BY DEF Relay, Looping
<1>2. /\ chan'[s] = Tail(chan[s])
      /\ \A t \in Servers : t # s => chan'[t] = chan[t]
  BY <1>1 DEF TypeOK
<1>3. CASE UNCHANGED loop
  BY <1>1, <1>2, <1>3
<1>4. CASE BeginLoop(s, Head(chan[s]), Recipients(s, Head(chan[s])))
  <2>1. Head(chan[s]) \in Callers /\ s \in Goroutines
    BY <1>1, Goroutine DEF TypeOK
  <2>2. Recipients(s, Head(chan[s])) \in SUBSET Clients
    BY DEF Recipients, TypeOK
  <2>3. loop'[s].cur = Head(chan[s]) /\ \A h \in Goroutines : h # s => loop'[h] = loop[h]
    BY <1>4, <2>1, <2>2, BeginEffect
  <2> QED BY <1>1, <1>2, <2>3
<1> QED BY <1>3, <1>4 DEF Relay

\* What a local broadcast does: it begins a loop of its caller, or nothing.
LEMMA LocalEffect ==
  ASSUME TypeOK, NEW z \in Callers, BroadcastLocal(z)
  PROVE  /\ UNCHANGED <<got, chan>>
         /\ loop'[z].cur \in {loop[z].cur, z}
         /\ \A h \in Goroutines : h # z => loop'[h] = loop[h]
<1>1. UNCHANGED <<got, chan>>
  BY DEF BroadcastLocal
<1>2. CASE UNCHANGED loop
  BY <1>1, <1>2
<1>3. CASE BeginLoop(z, z, Recipients(Host[z], z))
  <2>1. z \in Goroutines /\ Recipients(Host[z], z) \in SUBSET Clients
    BY Goroutine, HostType DEF Recipients, TypeOK
  <2>2. loop'[z].cur = z /\ \A h \in Goroutines : h # z => loop'[h] = loop[h]
    BY <1>3, <2>1, BeginEffect
  <2> QED BY <1>1, <2>2
<1> QED BY <1>2, <1>3 DEF BroadcastLocal

\* What a send does: the loop's payload is appended to a client of its
\* process, or nothing is.
LEMMA HandOver ==
  ASSUME TypeInv, HomeInv, NEW g \in Goroutines, NEW c \in Clients, Send(g, c)
  PROVE  /\ UNCHANGED chan
         /\ \A h \in Goroutines : loop'[h].cur = loop[h].cur
         /\ loop[g].cur \in Callers /\ Host[c] = At(g)
         /\ got'[c] \in {got[c], Append(got[c], loop[g].cur)}
         /\ \A d \in Clients : d # c => got'[d] = got[d]
<1>1. TypeOK /\ LoopsHavePayload /\ c \in loop[g].todo
  BY DEF TypeInv, Send
<1>2. loop[g].cur \in Callers
  BY <1>1 DEF LoopsHavePayload, TypeOK, LoopStates
<1>3. \A h \in Goroutines : loop'[h].cur = loop[h].cur
  BY <1>1, SendEffect
<1>4. UNCHANGED chan /\ got' \in {got, [got EXCEPT ![c] = Append(got[c], loop[g].cur)]}
  BY DEF Send
<1>5. got'[c] \in {got[c], Append(got[c], loop[g].cur)} /\ \A d \in Clients : d # c => got'[d] = got[d]
  BY <1>1, <1>4 DEF TypeOK
<1> QED BY <1>1, <1>2, <1>3, <1>4, <1>5 DEF HomeInv

LEMMA FreshStep == TypeInv /\ HomeInv /\ FreshInv /\ [Next]_vars => FreshInv'
<1> SUFFICES ASSUME TypeInv, HomeInv, FreshInv, [Next]_vars, NEW x \in Callers, Unpublished(x)'
             PROVE  Nowhere(x)'
  BY DEF FreshInv
<1>1. /\ TypeOK /\ AttemptsLeft
      /\ \A s \in Servers : chan[s] \in Seq(Callers)
      /\ \A c \in Clients : got[c] \in Seq(Callers)
  BY DEF TypeInv, TypeOK
<1>2. Unpublished(x) /\ Nowhere(x)
  BY UnpublishedStep DEF FreshInv
<1>3. x # None
  BY Goroutine
<1>4. ASSUME Fading PROVE Nowhere(x)'
  BY <1>2, <1>4, FadingKeepsNowhere
<1>5. ASSUME NEW s \in Servers, Relay(s) PROVE Nowhere(x)'
  <2>1. /\ UNCHANGED got /\ chan[s] # << >> /\ chan'[s] = Tail(chan[s])
        /\ \A t \in Servers : t # s => chan'[t] = chan[t]
        /\ loop'[s].cur \in {None, Head(chan[s])}
        /\ \A h \in Goroutines : h # s => loop'[h] = loop[h]
    BY <1>1, <1>5, RelayEffect
  <2>2. Head(chan[s]) \in ToSet(chan[s]) /\ ToSet(Tail(chan[s])) \subseteq ToSet(chan[s])
    BY <1>1, <2>1, TailFacts
  <2> QED BY <1>2, <1>3, <2>1, <2>2 DEF Nowhere
<1>6. ASSUME NEW z \in Callers, Command(z) PROVE Nowhere(x)'
  <2>1. x # z
    <3>1. sends' = [sends EXCEPT ![z] = sends[z] + 1]
      BY <1>1, <1>6, CommandEffect
    <3> QED BY <1>1, <1>2, <3>1 DEF Unpublished, TypeOK
  <2>2. UNCHANGED <<got, loop>> /\ \A s \in Servers : chan'[s] \in {chan[s], Append(chan[s], z)}
    BY <1>1, <1>6, CommandEffect
  <2>3. ASSUME NEW s \in Servers PROVE x \notin ToSet(chan'[s])
    <3>1. chan[s] \in Seq(Callers) /\ x \notin ToSet(chan[s]) /\ chan'[s] \in {chan[s], Append(chan[s], z)}
      BY <1>1, <1>2, <2>2 DEF Nowhere
    <3>2. ToSet(Append(chan[s], z)) = ToSet(chan[s]) \cup {z}
      BY <3>1, AppendFacts
    <3> QED BY <2>1, <3>1, <3>2
  <2> QED BY <1>2, <2>2, <2>3 DEF Nowhere
<1>7. ASSUME NEW z \in Callers, BroadcastLocal(z) PROVE Nowhere(x)'
  <2>1. x # z
    BY <1>2, <1>7 DEF BroadcastLocal, Unpublished
  <2>2. /\ UNCHANGED <<got, chan>> /\ loop'[z].cur \in {loop[z].cur, z}
        /\ \A h \in Goroutines : h # z => loop'[h] = loop[h]
    BY <1>1, <1>7, LocalEffect
  <2> QED BY <1>2, <2>1, <2>2, Goroutine DEF Nowhere
<1>8. ASSUME NEW g \in Goroutines, NEW c \in Clients, Send(g, c) PROVE Nowhere(x)'
  <2>1. /\ UNCHANGED chan /\ \A h \in Goroutines : loop'[h].cur = loop[h].cur
        /\ loop[g].cur \in Callers
        /\ got'[c] \in {got[c], Append(got[c], loop[g].cur)}
        /\ \A d \in Clients : d # c => got'[d] = got[d]
    BY <1>8, HandOver
  <2>2. loop[g].cur # x
    BY <1>2 DEF Nowhere
  <2>3. x \notin ToSet(got'[c])
    <3>1. ToSet(Append(got[c], loop[g].cur)) = ToSet(got[c]) \cup {loop[g].cur}
      BY <1>1, <2>1, AppendFacts
    <3> QED BY <1>2, <2>1, <2>2, <3>1 DEF Nowhere
  <2> QED BY <1>2, <2>1, <2>3 DEF Nowhere
<1> QED
  BY <1>1, <1>4, <1>5, <1>6, <1>7, <1>8, QuietSteps, StillFades, CrashFades, EndFades
  DEF Next, Command

-----------------------------------------------------------------------------
(* The order.                                                              *)

LEMMA FadingKeepsBehind ==
  ASSUME Fading, NEW x \in Callers, NEW y \in Callers, Behind(x, y)
  PROVE  Behind(x, y)'
<1>1. \A g \in Goroutines : /\ loop'[g].cur = x => loop[g].cur = x
                            /\ loop'[g].cur = y => loop[g].cur = y
  BY Goroutine DEF Fading
<1>2. \A s \in Servers : /\ y \in ToSet(chan'[s]) => y \in ToSet(chan[s])
                         /\ Precedes(chan'[s], x, y) => Precedes(chan[s], x, y)
  BY EmptyFacts DEF Fading
<1>3. \A c \in Clients : Host[c] \in Servers /\ Host[c] \in Goroutines
  BY HostType, Goroutine DEF Callers
<1>4. \A s \in Servers : s \in Goroutines
  BY Goroutine
<1> QED BY <1>1, <1>2, <1>3, <1>4 DEF Fading, Behind

\* The relay takes the oldest payload only, and only between two loops.
LEMMA RelayKeepsBehind ==
  ASSUME TypeOK, NEW s \in Servers, Relay(s), NEW x \in Callers, NEW y \in Callers, Behind(x, y)
  PROVE  Behind(x, y)'
<1>1. /\ UNCHANGED got /\ chan[s] # << >> /\ chan'[s] = Tail(chan[s])
      /\ \A t \in Servers : t # s => chan'[t] = chan[t]
      /\ loop'[s].cur \in {None, Head(chan[s])}
      /\ \A h \in Goroutines : h # s => loop'[h] = loop[h]
  BY RelayEffect
<1>2. chan[s] \in Seq(Callers) /\ x # None /\ y # None
  BY Goroutine DEF TypeOK
<1>3. /\ Head(chan[s]) \in ToSet(chan[s]) /\ ToSet(Tail(chan[s])) \subseteq ToSet(chan[s])
      /\ Precedes(Tail(chan[s]), x, y) => Precedes(chan[s], x, y)
      /\ y \in ToSet(Tail(chan[s])) => Precedes(chan[s], Head(chan[s]), y)
  BY <1>1, <1>2, TailFacts
<1>4. ASSUME NEW c \in Clients, x \in ToSet(got[c])
      PROVE  loop'[Host[c]].cur # y /\ y \notin ToSet(chan'[Host[c]])
  <2>1. Host[c] \in Servers /\ Host[c] \in Goroutines
    BY HostType, Goroutine DEF Callers
  <2>2. loop[Host[c]].cur # y /\ y \notin ToSet(chan[Host[c]])
    BY <1>4 DEF Behind
  <2> QED BY <1>1, <1>2, <1>3, <2>1, <2>2
<1>5. ASSUME NEW t \in Servers
      PROVE  /\ loop'[t].cur = x => y \notin ToSet(chan'[t])
             /\ ~Precedes(chan'[t], x, y)
  <2>1. /\ loop[t].cur = x => y \notin ToSet(chan[t])
        /\ ~Precedes(chan[t], x, y)
        /\ t \in Goroutines
    BY Goroutine DEF Behind
  <2> QED BY <1>1, <1>2, <1>3, <2>1
<1> QED BY <1>1, <1>4, <1>5 DEF Behind

LEMMA LocalKeepsBehind ==
  ASSUME TypeOK, NEW z \in Callers, BroadcastLocal(z), NEW x \in Callers, NEW y \in Callers,
         Behind(x, y)
  PROVE  Behind(x, y)'
<1>1. UNCHANGED <<got, chan>> /\ \A h \in Goroutines : h # z => loop'[h] = loop[h]
  BY LocalEffect
<1>2. \A s \in Servers : loop'[s] = loop[s]
  BY <1>1, Goroutine
<1>3. \A c \in Clients : Host[c] \in Servers
  BY HostType DEF Callers
<1> QED BY <1>1, <1>2, <1>3 DEF Behind

\* A command for another payload.
LEMMA PublishKeepsBehind ==
  ASSUME TypeOK, NEW z \in Callers, Command(z), NEW x \in Callers, NEW y \in Callers,
         z # x, z # y, Behind(x, y)
  PROVE  Behind(x, y)'
<1>1. UNCHANGED <<got, loop>> /\ \A s \in Servers : chan'[s] \in {chan[s], Append(chan[s], z)}
  BY CommandEffect
<1>2. ASSUME NEW s \in Servers
      PROVE  /\ y \in ToSet(chan'[s]) => y \in ToSet(chan[s])
             /\ ~Precedes(chan'[s], x, y)
  <2>1. chan[s] \in Seq(Callers) /\ ~Precedes(chan[s], x, y)
    BY DEF TypeOK, Behind
  <2>2. /\ ToSet(Append(chan[s], z)) = ToSet(chan[s]) \cup {z}
        /\ ~Precedes(Append(chan[s], z), x, y)
    BY <2>1, AppendFacts
  <2> QED BY <1>1, <2>1, <2>2
<1>3. \A c \in Clients : Host[c] \in Servers
  BY HostType DEF Callers
<1> QED BY <1>1, <1>2, <1>3 DEF Behind

\* The first command of a payload puts it behind every other.
LEMMA FirstPublishBehind ==
  ASSUME TypeOK, NEW z \in Callers, Command(z), Nowhere(z), NEW y \in Callers, y # z
  PROVE  Behind(z, y)'
<1>1. UNCHANGED <<got, loop>> /\ \A s \in Servers : chan'[s] \in {chan[s], Append(chan[s], z)}
  BY CommandEffect
<1>2. ASSUME NEW q \in Seq(Callers), z \notin ToSet(q)
      PROVE  ~Precedes(q, z, y)
  BY <1>2 DEF Precedes, ToSet
<1>3. ASSUME NEW s \in Servers PROVE ~Precedes(chan'[s], z, y)
  <2>1. chan[s] \in Seq(Callers) /\ z \notin ToSet(chan[s])
    BY DEF TypeOK, Nowhere
  <2>2. ~Precedes(chan[s], z, y)
    BY <1>2, <2>1
  <2>3. ~Precedes(Append(chan[s], z), z, y)
    BY <2>1, <2>2, AppendFacts
  <2> QED BY <1>1, <2>2, <2>3
<1>4. \A s \in Servers : loop'[s].cur # z
  BY <1>1, Goroutine DEF Nowhere
<1>5. \A c \in Clients : z \notin ToSet(got'[c]) /\ ~Precedes(got'[c], z, y)
  BY <1>1, <1>2 DEF Nowhere, TypeOK
<1> QED BY <1>3, <1>4, <1>5 DEF Behind

\* One goroutine per process sends relayed payloads, one at a time.
LEMMA SendKeepsBehind ==
  ASSUME SoundInv, RangeInv, HomeInv, NEW g \in Goroutines, NEW c \in Clients, Send(g, c),
         NEW x \in Clean, NEW y \in Clean, x # y, Behind(x, y)
  PROVE  Behind(x, y)'
<1> DEFINE p == loop[g].cur
<1>1. TypeInv /\ TypeOK /\ x \in Callers /\ y \in Callers /\ got[c] \in Seq(Callers)
  BY DEF SoundInv, TypeInv, TypeOK, Clean
<1>2. /\ UNCHANGED chan /\ \A h \in Goroutines : loop'[h].cur = loop[h].cur
      /\ p \in Callers /\ Host[c] = At(g)
      /\ got'[c] \in {got[c], Append(got[c], p)}
      /\ \A d \in Clients : d # c => got'[d] = got[d]
  BY <1>1, HandOver
<1>3. \A s \in Servers : loop'[s].cur = loop[s].cur
  BY <1>2, Goroutine
<1>4. \A d \in Clients : Host[d] \in Servers
  BY HostType DEF Callers
<1>5. p \in {x, y} => g = Host[c]
  <2>1. g \in Callers => p \notin Clean
    BY <1>2, CallerLoops, Goroutine
  <2> QED BY <1>2, <2>1, Goroutine DEF Goroutines
<1> HIDE DEF p
<1>6. /\ ToSet(Append(got[c], p)) = ToSet(got[c]) \cup {p}
      /\ Precedes(Append(got[c], p), x, y) => Precedes(got[c], x, y) \/ (p = y /\ x \in ToSet(got[c]))
  BY <1>1, <1>2, AppendFacts
<1>7. /\ ~Precedes(got[c], x, y)
      /\ x \in ToSet(got[c]) => loop[Host[c]].cur # y /\ y \notin ToSet(chan[Host[c]])
      /\ loop[Host[c]].cur = x => y \notin ToSet(chan[Host[c]])
  BY <1>4 DEF Behind
<1>8. ~Precedes(got'[c], x, y)
  BY <1>2, <1>5, <1>6, <1>7 DEF p
<1>9. x \in ToSet(got'[c]) => loop[Host[c]].cur # y /\ y \notin ToSet(chan[Host[c]])
  BY <1>2, <1>5, <1>6, <1>7 DEF p
<1> QED BY <1>2, <1>3, <1>4, <1>8, <1>9 DEF Behind

LEMMA OrderStep ==
  SoundInv /\ FreshInv /\ ModeInv /\ RangeInv /\ HomeInv /\ OrderInv /\ [Next]_vars => OrderInv'
<1> SUFFICES ASSUME SoundInv, FreshInv, ModeInv, RangeInv, HomeInv, OrderInv, [Next]_vars,
                    NEW x \in Clean', NEW y \in Clean', x # y
             PROVE  Behind(x, y)' \/ Behind(y, x)'
  BY DEF OrderInv
<1>1. TypeInv /\ TypeOK /\ x \in Callers /\ y \in Callers
  BY DEF SoundInv, TypeInv, Clean
<1>2. CASE x \notin Clean
  <2>1. Command(x) /\ Nowhere(x)
    BY <1>1, <1>2, CleanStep DEF FreshInv
  <2> QED BY <1>1, <2>1, FirstPublishBehind
<1>3. CASE y \notin Clean
  <2>1. Command(y) /\ Nowhere(y)
    BY <1>1, <1>3, CleanStep DEF FreshInv
  <2> QED BY <1>1, <2>1, FirstPublishBehind
<1>4. ASSUME NEW v \in Clean, NEW w \in Clean, v # w, Behind(v, w)
      PROVE  Behind(v, w)'
  <2>1. v \in Callers /\ w \in Callers
    BY DEF Clean
  <2>2. ASSUME Fading PROVE Behind(v, w)'
    BY <1>4, <2>1, <2>2, FadingKeepsBehind
  <2>3. ASSUME NEW z \in Callers, Command(z) PROVE Behind(v, w)'
    <3>1. z # v /\ z # w
      BY <1>1, <2>3, CommandEffect DEF Clean
    <3> QED BY <1>1, <1>4, <2>1, <2>3, <3>1, PublishKeepsBehind
  <2>4. ASSUME NEW s \in Servers, Relay(s) PROVE Behind(v, w)'
    BY <1>1, <1>4, <2>1, <2>4, RelayKeepsBehind
  <2>5. ASSUME NEW z \in Callers, BroadcastLocal(z) PROVE Behind(v, w)'
    BY <1>1, <1>4, <2>1, <2>5, LocalKeepsBehind
  <2>6. ASSUME NEW g \in Goroutines, NEW c \in Clients, Send(g, c) PROVE Behind(v, w)'
    BY <1>4, <2>6, SendKeepsBehind
  <2> QED
    BY <1>1, <2>2, <2>3, <2>4, <2>5, <2>6, QuietSteps, StillFades, CrashFades, EndFades
    DEF Next, Command
<1>5. CASE x \in Clean /\ y \in Clean
  BY <1>4, <1>5 DEF OrderInv
<1> QED BY <1>2, <1>3, <1>5

-----------------------------------------------------------------------------
LEMMA FlowInit == Init => Flow
<1> SUFFICES ASSUME Init PROVE Flow
  OBVIOUS
<1>1. \A x \in Callers : Nowhere(x)
  BY EmptyFacts, Goroutine, NoLoopType DEF Init, Nowhere
<1>2. \A x \in Callers : pc[x] = "idle" /\ sends[x] = 0 /\ x \in Goroutines
  BY Goroutine DEF Init
<1>3. \A g \in Goroutines : loop[g].cur = None /\ loop[g].todo = {}
  BY NoLoopType DEF Init
<1> QED BY <1>1, <1>2, <1>3 DEF Flow, FreshInv, ModeInv, RangeInv, HomeInv, OrderInv, Clean

LEMMA FlowStep == SoundInv /\ Flow /\ [Next]_vars => Flow'
  BY FreshStep, ModeStep, RangeStep, HomeStep, OrderStep DEF Flow, SoundInv, TypeInv

\* Payloads of calls whose first PUBLISH command succeeded, so that neither the
\* hub nor the Redis client repeated it, reach all sockets, of all processes, in
\* one order, whatever else is retried, lost, falls back or dies meanwhile:
\* Redis orders them, a process's channel keeps the order, and runPubSub
\* finishes one send loop before it takes the next payload (hub.go:136-174).
THEOREM RelayOrdered == Spec => []RelayOrder
<1>1. Spec => []Flow
  BY FlowInit, FlowStep, SoundAlways, PTL DEF Spec
<1>2. Flow => RelayOrder
  <2> SUFFICES ASSUME OrderInv, NEW x \in Clean, NEW y \in Clean, x # y,
                      NEW c \in Clients, NEW d \in Clients, Before(x, y, c), Before(y, x, d)
               PROVE  FALSE
    BY DEF Flow, RelayOrder, Clean
  <2>1. Precedes(got[c], x, y) /\ Precedes(got[d], y, x)
    BY DEF Before, Precedes
  <2> QED BY <2>1 DEF OrderInv, Behind
<1> QED BY <1>1, <1>2, PTL
=============================================================================
