-------------------------- MODULE HubCopiesProofs --------------------------
(***************************************************************************)
(* CopiesBounded of Hub: how often a socket sees a payload, for every      *)
(* instance and every number of attempts and of commands per attempt.      *)
(***************************************************************************)
EXTENDS HubOrderProofs, FiniteSetTheorems

-----------------------------------------------------------------------------
(* Counting in sequences.                                                  *)

Count(s, x) == Cardinality({i \in DOMAIN s : s[i] = x})

LEMMA CountType ==
  ASSUME NEW s \in Seq(Callers), NEW x
  PROVE  /\ IsFiniteSet({i \in DOMAIN s : s[i] = x}) /\ Count(s, x) \in Nat
         /\ x \notin ToSet(s) => Count(s, x) = 0
<1> DEFINE P == {i \in DOMAIN s : s[i] = x}
<1>1. DOMAIN s = 1..Len(s) /\ Len(s) \in Nat
  OBVIOUS
<1>2. IsFiniteSet(1..Len(s))
  BY <1>1, FS_Interval
<1>3. P \in SUBSET (1..Len(s))
  BY <1>1
<1>4. IsFiniteSet(P)
  BY <1>2, <1>3, FS_Subset
<1>5. Cardinality(P) \in Nat
  BY <1>4, FS_CardinalityType
<1>6. x \notin ToSet(s) => P = {}
  BY <1>1 DEF ToSet
<1> QED BY <1>4, <1>5, <1>6, FS_EmptySet DEF Count

LEMMA CountAppend ==
  ASSUME NEW s \in Seq(Callers), NEW e \in Callers, NEW x
  PROVE  Count(Append(s, e), x) = Count(s, x) + IF e = x THEN 1 ELSE 0
<1> DEFINE P == {i \in DOMAIN s : s[i] = x}
           Q == {i \in DOMAIN Append(s, e) : Append(s, e)[i] = x}
           n == Len(s) + 1
<1>1. /\ DOMAIN s = 1..Len(s) /\ Len(s) \in Nat /\ DOMAIN Append(s, e) = 1..Len(s) + 1
      /\ Append(s, e)[Len(s) + 1] = e
      /\ \A i \in 1..Len(s) : Append(s, e)[i] = s[i]
  OBVIOUS
<1>2. IsFiniteSet(P) /\ Count(s, x) \in Nat
  BY CountType
<1>3. Count(s, x) = Cardinality(P) /\ Count(Append(s, e), x) = Cardinality(Q) /\ n \notin P
  BY <1>1 DEF Count
<1>4. CASE e = x
  <2>1. Q = P \cup {n}
    BY <1>1, <1>4
  <2> HIDE DEF P, Q, n
  <2>2. Cardinality(P \cup {n}) = Cardinality(P) + 1
    BY <1>2, <1>3, FS_AddElement
  <2> QED BY <1>3, <1>4, <2>1, <2>2
<1>5. CASE e # x
  <2>1. Q = P
    BY <1>1, <1>5
  <2> HIDE DEF P, Q
  <2> QED BY <1>2, <1>3, <1>5, <2>1
<1> QED BY <1>4, <1>5

LEMMA CountTail ==
  ASSUME NEW s \in Seq(Callers), s # << >>, NEW x
  PROVE  Count(Tail(s), x) + (IF Head(s) = x THEN 1 ELSE 0) <= Count(s, x)
<1> DEFINE P == {i \in DOMAIN s : s[i] = x}
           Q == {i \in DOMAIN Tail(s) : Tail(s)[i] = x}
           f == [i \in Q |-> i + 1]
<1>1. /\ Head(s) = s[1] /\ Len(s) \in Nat \ {0} /\ DOMAIN s = 1..Len(s)
      /\ Tail(s) \in Seq(Callers) /\ DOMAIN Tail(s) = 1..Len(s) - 1
      /\ \A i \in 1..Len(s) - 1 : i + 1 \in 1..Len(s) /\ Tail(s)[i] = s[i + 1]
      /\ 1 \in 1..Len(s)
  OBVIOUS
<1>2. IsFiniteSet(P) /\ Cardinality(P) \in Nat /\ Cardinality(Q) \in Nat
  BY <1>1, CountType DEF Count
<1>3. \A i \in Q : i \in Nat /\ i >= 1 /\ i + 1 \in P \ {1}
  BY <1>1
<1>4. f \in Injection(Q, P \ {1})
  BY <1>3 DEF Injection, IsInjective
<1>5. IsFiniteSet(P \ {1}) /\ Cardinality(P \ {1}) = IF 1 \in P THEN Cardinality(P) - 1 ELSE Cardinality(P)
  BY <1>2, FS_RemoveElement
<1> HIDE DEF P, Q, f
<1>6. Cardinality(Q) <= Cardinality(P \ {1})
  BY <1>4, <1>5, FS_Injection
<1>7. Head(s) = x <=> 1 \in P
  BY <1>1 DEF P
<1>8. Count(Tail(s), x) = Cardinality(Q) /\ Count(s, x) = Cardinality(P)
  BY DEF Count, P, Q
<1> QED BY <1>2, <1>5, <1>6, <1>7, <1>8

-----------------------------------------------------------------------------
(* The inductive invariant.                                                *)

\* While a caller publishes, every call that returned and the one under way
\* account for their commands; none is sent beyond the budget.
Spent(x) == attempt[x] * MaxSends + tries[x]

BudgetInv ==
    \A x \in Callers :
        /\ sends[x] <= Budget(x)
        /\ pc[x] = "publish" => sends[x] <= Spent(x)
        /\ pc[x] = "publish" /\ Op[x] # "message" => attempt[x] = 0

\* A connection that has not joined may still be added to loops under way.
Joining(c) == conn[c] \in {"idle", "upgraded"}

\* The copy that a loop of goroutine g may still hand to c.
Due(g, x, c) ==
    IF loop[g].cur = x /\ At(g) = Host[c] /\ (c \in loop[g].todo \/ Joining(c)) THEN 1 ELSE 0

\* The copies c has or is to get from the relay and from x's own loop.
Total(x, c) ==
    Count(got[c], x) + Count(chan[Host[c]], x) + Due(Host[c], x, c) + Due(x, x, c)

\* A caller's own loop, once it has begun.
Bonus(x) ==
    IF \/ sends[x] = 0 /\ pc[x] \in {"range"} \cup Finished
       \/ Op[x] = "message" /\ pc[x] \in {"range", "err", "lost"}
    THEN 1 ELSE 0

\* Only a message falls back.
FallInv ==
    \A x \in Callers : pc[x] \in {"lookup", "range"} /\ sends[x] # 0 => Op[x] = "message"

CopyInv == \A x \in Callers, c \in Clients : Total(x, c) <= sends[x] + Bonus(x)

-----------------------------------------------------------------------------
LEMMA DueType ==
  \A g, x, c : /\ Due(g, x, c) \in {0, 1} /\ Due(g, x, c)' \in {0, 1}
  BY DEF Due

LEMMA TotalType ==
  ASSUME TypeOK, NEW x \in Callers, NEW c \in Clients
  PROVE  /\ Count(got[c], x) \in Nat /\ Count(chan[Host[c]], x) \in Nat
         /\ Due(Host[c], x, c) \in Nat /\ Due(x, x, c) \in Nat
         /\ sends[x] \in Nat /\ Bonus(x) \in Nat /\ Bonus(x) <= 1
<1>1. got[c] \in Seq(Callers) /\ chan[Host[c]] \in Seq(Callers)
  BY HostType DEF TypeOK, Callers
<1>2. Count(got[c], x) \in Nat /\ Count(chan[Host[c]], x) \in Nat
  BY <1>1, CountType
<1>3. sends[x] \in Nat
  BY DEF TypeOK
<1> QED BY <1>2, <1>3, DueType DEF Bonus

\* Nothing is added to what c has or is to get.
LEMMA TotalShrinks ==
  ASSUME TypeOK, NEW x \in Callers, NEW c \in Clients,
         UNCHANGED got, chan'[Host[c]] \in {chan[Host[c]], << >>},
         Due(Host[c], x, c)' <= Due(Host[c], x, c), Due(x, x, c)' <= Due(x, x, c)
  PROVE  Total(x, c)' <= Total(x, c)
<1>1. /\ Count(got[c], x) \in Nat /\ Count(chan[Host[c]], x) \in Nat
      /\ Due(Host[c], x, c) \in Nat /\ Due(x, x, c) \in Nat
      /\ Due(Host[c], x, c)' \in Nat /\ Due(x, x, c)' \in Nat
  BY TotalType, DueType
<1>2. Count(<< >>, x) = 0
  <2>1. << >> \in Seq(Callers) /\ x \notin ToSet(<< >>)
    BY EmptyFacts
  <2> QED BY <2>1, CountType
<1>3. /\ Count(got'[c], x) = Count(got[c], x)
      /\ Count(chan'[Host[c]], x) \in Nat /\ Count(chan'[Host[c]], x) <= Count(chan[Host[c]], x)
  BY <1>1, <1>2
<1>4. Total(x, c)' = Count(got'[c], x) + Count(chan'[Host[c]], x) + Due(Host[c], x, c)' + Due(x, x, c)'
  BY DEF Total
<1> QED BY <1>1, <1>3, <1>4 DEF Total

LEMMA JoiningStep ==
  ASSUME TypeOK, [Next]_vars, NEW c \in Clients, Joining(c)'
  PROVE  Joining(c)
<1>1. conn \in [Clients -> ConnStates]
  BY DEF TypeOK
<1> USE DEF Joining, clientVars
<1>2. ASSUME NEW s \in Servers, Crash(s) PROVE Joining(c)
  BY <1>2 DEF Crash
<1>3. ASSUME NEW d \in Clients, ServeWS(d) PROVE Joining(c)
  BY <1>1, <1>3 DEF ServeWS
<1>4. ASSUME NEW d \in Clients, AddClient(d) PROVE Joining(c)
  BY <1>1, <1>4 DEF AddClient
<1>5. ASSUME NEW d \in Clients, PeerGone(d) PROVE Joining(c)
  BY <1>1, <1>5 DEF PeerGone
<1>6. ASSUME NEW d \in Clients, RemoveClient(d) PROVE Joining(c)
  BY <1>1, <1>6 DEF RemoveClient
<1>7. ASSUME UNCHANGED conn PROVE Joining(c)
  BY <1>7
<1> QED
  BY <1>2, <1>3, <1>4, <1>5, <1>6, <1>7
  DEF Next, vars, Start, Subscribe, LoseSubscription, Relay, Publish, SetPresence,
      RedisPublish, RedisRetry, BroadcastLocal, EndLoop, Send

LEMMA DueShrinks ==
  ASSUME NEW g, NEW x \in Callers, NEW c, loop'[g].cur \in {loop[g].cur, None},
         c \in loop'[g].todo => c \in loop[g].todo \/ Joining(c),
         Joining(c)' => Joining(c)
  PROVE  Due(g, x, c)' <= Due(g, x, c)
<1>1. x # None
  BY HubAssumption
<1>2. CASE Due(g, x, c)' = 0
  BY <1>2, DueType
<1>3. CASE Due(g, x, c)' = 1
  <2>1. Due(g, x, c) = 1
    BY <1>1, <1>3 DEF Due
  <2> QED BY <1>3, <2>1
<1> QED BY <1>2, <1>3, DueType

LEMMA BonusStep ==
  ASSUME TypeInv, ModeInv, RangeInv, [Next]_vars, NEW x \in Callers, ~Command(x)
  PROVE  sends'[x] = sends[x] /\ Bonus(x)' >= Bonus(x)
<1>1. TypeOK /\ AttemptsLeft
  BY DEF TypeInv
<1> DEFINE OK == sends'[x] = sends[x] /\ Bonus(x)' >= Bonus(x)
<1>2. ASSUME UNCHANGED callVars PROVE OK
  BY <1>2 DEF Bonus, callVars, redisVars
<1>3. ASSUME sends'[x] = sends[x],
             \/ pc[x] \notin {"range"} \cup Finished
             \/ pc'[x] = pc[x]
             \/ pc[x] = "range" /\ pc'[x] \in {"err", "lost"}
             \/ pc[x] = "range" /\ pc'[x] = "nil" /\ sends[x] = 0
      PROVE  OK
  BY <1>3 DEF Bonus, Finished
<1>4. ASSUME NEW z \in Callers, NEW v, pc' = [pc EXCEPT ![z] = v], UNCHANGED sends,
             pc[z] \notin {"range"} \cup Finished
      PROVE  OK
  BY <1>1, <1>3, <1>4 DEF TypeOK
<1>5. ASSUME NEW s \in Servers, Crash(s) PROVE OK
  <2>1. sends'[x] = sends[x] /\ pc'[x] \in {pc[x], "lost"}
    BY <1>5 DEF Crash, redisVars
  <2>2. pc[x] \in Finished => pc'[x] = pc[x]
    BY <1>5 DEF Crash
  <2> QED BY <1>3, <2>1, <2>2
<1>6. ASSUME NEW z \in Callers, Publish(z) PROVE OK
  <2>1. PICK v : pc' = [pc EXCEPT ![z] = v]
    BY <1>6 DEF Publish
  <2> QED BY <1>4, <1>6, <2>1 DEF Publish, Finished, redisVars
<1>7. ASSUME NEW z \in Callers, SetPresence(z) PROVE OK
  <2>1. PICK v : pc' = [pc EXCEPT ![z] = v]
    BY <1>7 DEF SetPresence
  <2> QED BY <1>4, <1>7, <2>1 DEF SetPresence, Finished, redisVars
<1>8. ASSUME NEW z \in Callers, Command(z) PROVE OK
  <2>1. PICK v : pc' = [pc EXCEPT ![z] = v]
    BY <1>1, <1>8, CommandEffect
  <2>2. z # x /\ sends' = [sends EXCEPT ![z] = sends[z] + 1]
    BY <1>1, <1>8, CommandEffect
  <2> QED BY <1>1, <1>3, <2>1, <2>2 DEF TypeOK
<1>9. ASSUME NEW z \in Callers, BroadcastLocal(z) PROVE OK
  <2>1. PICK v : pc' = [pc EXCEPT ![z] = v]
    BY <1>9 DEF BroadcastLocal
  <2> QED BY <1>4, <1>9, <2>1 DEF BroadcastLocal, Finished, redisVars
<1>10. ASSUME NEW g \in Goroutines, EndLoop(g) PROVE OK
  <2>1. CASE g = x
    <3>1. pc[x] = "range" /\ pc' = [pc EXCEPT ![x] = Outcome(x)] /\ UNCHANGED sends
      BY <1>10, <2>1 DEF EndLoop, Looping, RangeInv, redisVars
    <3>2. sends[x] # 0 => Outcome(x) = "err"
      BY <3>1 DEF ModeInv, Outcome
    <3>3. Outcome(x) \in {"nil", "err"}
      BY DEF Outcome
    <3> QED BY <1>1, <1>3, <3>1, <3>2, <3>3 DEF TypeOK
  <2>2. CASE g # x
    <3>1. sends'[x] = sends[x] /\ pc'[x] = pc[x]
      BY <1>10, <2>2 DEF EndLoop, redisVars
    <3> QED BY <1>3, <3>1
  <2> QED BY <2>1, <2>2
<1> QED
  BY <1>2, <1>5, <1>6, <1>7, <1>8, <1>9, <1>10
  DEF Next, Command, vars, Start, Subscribe, LoseSubscription, Relay, ServeWS, AddClient, PeerGone,
      RemoveClient, Send

LEMMA FallStep == TypeInv /\ FallInv /\ [Next]_vars => FallInv'
<1> SUFFICES ASSUME TypeInv, FallInv, [Next]_vars PROVE FallInv'
  OBVIOUS
<1>1. TypeOK /\ AttemptsLeft
  BY DEF TypeInv
<1> USE DEF FallInv, TypeOK, callVars, redisVars
<1>2. ASSUME NEW s \in Servers, Crash(s) PROVE FallInv'
  BY <1>1, <1>2 DEF Crash
<1>3. ASSUME NEW z \in Callers, Publish(z) PROVE FallInv'
  <2>1. PICK v : pc' = [pc EXCEPT ![z] = v]
    BY <1>3 DEF Publish
  <2>2. sends[z] = 0 /\ UNCHANGED sends
    BY <1>1, <1>3 DEF Publish, AttemptsLeft
  <2> QED BY <1>1, <2>1, <2>2
<1>4. ASSUME NEW z \in Callers, SetPresence(z) PROVE FallInv'
  BY <1>1, <1>4 DEF SetPresence
<1>5. ASSUME NEW z \in Callers, Command(z) PROVE FallInv'
  <2>1. pc[z] = "publish" /\ sends' = [sends EXCEPT ![z] = sends[z] + 1]
    BY <1>1, <1>5, CommandEffect
  <2>2. PICK v \in {"nil", "err", "publish", "lookup"} :
          pc' = [pc EXCEPT ![z] = v] /\ (v = "lookup" => Op[z] = "message")
    <3>1. CASE RedisPublish(z)
      BY <3>1 DEF RedisPublish, AfterFailure
    <3>2. CASE RedisRetry(z)
      <4>1. pc' = [pc EXCEPT ![z] = "publish"]
        BY <1>1, <2>1, <3>2 DEF RedisRetry
      <4> QED BY <4>1
    <3> QED BY <1>5, <3>1, <3>2 DEF Command
  <2> QED BY <1>1, <2>1, <2>2
<1>6. ASSUME NEW z \in Callers, BroadcastLocal(z) PROVE FallInv'
  <2>1. PICK v : pc' = [pc EXCEPT ![z] = v]
    BY <1>6 DEF BroadcastLocal
  <2>2. pc[z] = "lookup" /\ UNCHANGED sends
    BY <1>6 DEF BroadcastLocal
  <2> QED BY <1>1, <2>1, <2>2
<1>7. ASSUME NEW g \in Goroutines, EndLoop(g) PROVE FallInv'
  BY <1>1, <1>7 DEF EndLoop, Outcome
<1>8. ASSUME UNCHANGED callVars PROVE FallInv'
  BY <1>8
<1> QED
  BY <1>2, <1>3, <1>4, <1>5, <1>6, <1>7, <1>8
  DEF Next, Command, vars, Start, Subscribe, LoseSubscription, Relay, ServeWS, AddClient, PeerGone,
      RemoveClient, Send

\* Steps that begin no loop, publish nothing and write nothing.
LEMMA PlainStep ==
  ASSUME TypeInv, [Next]_vars, NEW x \in Callers, NEW c \in Clients,
         \/ \E s \in Servers : Start(s) \/ Crash(s) \/ Subscribe(s) \/ LoseSubscription(s)
         \/ \E d \in Clients : ServeWS(d) \/ AddClient(d) \/ PeerGone(d) \/ RemoveClient(d)
         \/ \E z \in Callers : Publish(z) \/ SetPresence(z)
         \/ \E g \in Goroutines : EndLoop(g)
         \/ UNCHANGED vars
  PROVE  Total(x, c)' <= Total(x, c)
<1>1. TypeOK /\ Host[c] \in Goroutines /\ Host[c] \in Servers /\ x \in Goroutines
  BY HostType, Goroutine DEF TypeInv, Callers
<1>2. Fading
  BY <1>1, QuietSteps, StillFades, CrashFades, EndFades
<1>3. ASSUME NEW g \in Goroutines, c \in loop'[g].todo
      PROVE  c \in loop[g].todo \/ Joining(c)
  <2>1. ASSUME NEW d \in Clients, AddClient(d) PROVE c \in loop[g].todo \/ Joining(c)
    <3>1. loop'[g].todo = loop[g].todo \/ loop'[g].todo = loop[g].todo \cup {d}
      BY <1>1, <2>1, AddEffect
    <3>2. conn[d] = "upgraded"
      BY <2>1 DEF AddClient
    <3> QED BY <1>3, <3>1, <3>2 DEF Joining
  <2>2. ASSUME NEW d \in Clients, RemoveClient(d) PROVE c \in loop[g].todo
    BY <1>1, <1>3, <2>2, RemoveEffect
  <2>3. ASSUME NEW s \in Servers, Crash(s) PROVE c \in loop[g].todo
    BY <1>1, <1>3, <2>3, CrashEffect, NoLoopType
  <2>4. ASSUME NEW h \in Goroutines, EndLoop(h) PROVE c \in loop[g].todo
    BY <1>1, <1>3, <2>4, EndEffect, NoLoopType
  <2>5. ASSUME UNCHANGED loop PROVE c \in loop[g].todo
    BY <1>3, <2>5
  <2> QED
    BY <2>1, <2>2, <2>3, <2>4, <2>5
    DEF vars, Start, Subscribe, LoseSubscription, ServeWS, PeerGone, Publish, SetPresence
<1>4. Joining(c)' => Joining(c)
  BY <1>1, JoiningStep
<1>5. Due(Host[c], x, c)' <= Due(Host[c], x, c) /\ Due(x, x, c)' <= Due(x, x, c)
  BY <1>1, <1>2, <1>3, <1>4, DueShrinks DEF Fading
<1> QED BY <1>1, <1>2, <1>5, TotalShrinks DEF Fading

\* What the relay takes from the channel it hands over at most once.
LEMMA RelayTotal ==
  ASSUME TypeInv, [Next]_vars, NEW s \in Servers, Relay(s), NEW x \in Callers, NEW c \in Clients
  PROVE  Total(x, c)' <= Total(x, c)
<1>1. TypeOK /\ Host[c] \in Goroutines /\ Host[c] \in Servers /\ x \in Goroutines /\ x \notin Servers
      /\ x # None
  BY HostType, Goroutine DEF TypeInv, Callers
<1>2. /\ UNCHANGED got /\ chan[s] # << >> /\ loop[s].cur = None
      /\ chan'[s] = Tail(chan[s])
      /\ \A t \in Servers : t # s => chan'[t] = chan[t]
      /\ loop'[s].cur \in {None, Head(chan[s])}
      /\ \A h \in Goroutines : h # s => loop'[h] = loop[h]
  BY <1>1, RelayEffect
<1>3. UNCHANGED conn
  BY DEF Relay, clientVars
<1>4. Due(x, x, c)' = Due(x, x, c)
  BY <1>1, <1>2, <1>3 DEF Due, Joining
<1>5. CASE s # Host[c]
  <2>1. Due(Host[c], x, c)' = Due(Host[c], x, c) /\ chan'[Host[c]] = chan[Host[c]]
    BY <1>1, <1>2, <1>3, <1>5 DEF Due, Joining
  <2>2. /\ Total(x, c) = Count(got[c], x) + Count(chan[Host[c]], x) + Due(Host[c], x, c) + Due(x, x, c)
        /\ Total(x, c)' = Count(got[c], x) + Count(chan[Host[c]], x) + Due(Host[c], x, c) + Due(x, x, c)
    BY <1>2, <1>4, <2>1 DEF Total
  <2>3. Total(x, c) \in Nat
    BY <1>1, <2>2, TotalType
  <2> QED BY <2>2, <2>3
<1>6. CASE s = Host[c]
  <2>1. chan[s] \in Seq(Callers)
    BY <1>1 DEF TypeOK
  <2>2. Count(Tail(chan[s]), x) + (IF Head(chan[s]) = x THEN 1 ELSE 0) <= Count(chan[s], x)
    BY <1>2, <2>1, CountTail
  <2>3. Count(Tail(chan[s]), x) \in Nat /\ Count(chan[s], x) \in Nat /\ Count(got[c], x) \in Nat
    BY <1>1, <1>2, <2>1, TailFacts, CountType DEF TypeOK
  <2>4. Due(s, x, c) = 0 /\ Due(s, x, c)' <= (IF Head(chan[s]) = x THEN 1 ELSE 0)
    BY <1>1, <1>2 DEF Due
  <2>5. Due(s, x, c)' \in {0, 1} /\ Due(x, x, c) \in {0, 1}
    BY DueType
  <2>6. /\ Total(x, c) = Count(got[c], x) + Count(chan[s], x) + Due(s, x, c) + Due(x, x, c)
        /\ Total(x, c)' = Count(got[c], x) + Count(Tail(chan[s]), x) + Due(s, x, c)' + Due(x, x, c)
    BY <1>2, <1>4, <1>6 DEF Total
  <2> QED BY <2>2, <2>3, <2>4, <2>5, <2>6
<1> QED BY <1>5, <1>6

\* A send turns a copy that was due into one that arrived.
LEMMA SendTotal ==
  ASSUME SoundInv, HomeInv, [Next]_vars, NEW g \in Goroutines, NEW d \in Clients, Send(g, d),
         NEW x \in Callers, NEW c \in Clients
  PROVE  Total(x, c)' <= Total(x, c)
<1>1. /\ TypeInv /\ TypeOK /\ Host[c] \in Goroutines /\ x \in Goroutines
      /\ got[c] \in Seq(Callers)
  BY HostType, Goroutine DEF SoundInv, TypeInv, TypeOK, Callers
<1>2. /\ UNCHANGED <<chan, conn>> /\ \A h \in Goroutines : loop'[h].cur = loop[h].cur
      /\ loop[g].cur \in Callers /\ Host[d] = At(g)
      /\ d \in loop[g].todo /\ loop'[g].todo = loop[g].todo \ {d}
      /\ \A h \in Goroutines : h # g => loop'[h] = loop[h]
      /\ \A e \in Clients : e # d => got'[e] = got[e]
  <2>1. /\ UNCHANGED chan /\ \A h \in Goroutines : loop'[h].cur = loop[h].cur
        /\ loop[g].cur \in Callers /\ Host[d] = At(g)
        /\ \A e \in Clients : e # d => got'[e] = got[e]
    BY <1>1, HandOver
  <2>2. /\ d \in loop[g].todo /\ loop'[g].todo = loop[g].todo \ {d}
        /\ \A h \in Goroutines : h # g => loop'[h] = loop[h]
    BY <1>1, SendEffect
  <2>3. UNCHANGED conn
    BY DEF Send, clientVars
  <2> QED BY <2>1, <2>2, <2>3
<1>3. \A h \in Goroutines : Due(h, x, c)' <= Due(h, x, c)
  <2>1. Joining(c)' => Joining(c)
    BY <1>2 DEF Joining
  <2>2. \A h \in Goroutines : c \in loop'[h].todo => c \in loop[h].todo
    BY <1>2
  <2>3. ASSUME NEW h \in Goroutines PROVE Due(h, x, c)' <= Due(h, x, c)
    <3>1. loop'[h].cur = loop[h].cur
      BY <1>2
    <3>2. CASE Due(h, x, c)' = 1
      <4>1. Due(h, x, c) = 1
        BY <2>1, <2>2, <3>1, <3>2 DEF Due
      <4> QED BY <3>2, <4>1
    <3>3. CASE Due(h, x, c)' = 0
      BY <3>3, DueType
    <3> QED BY <3>2, <3>3, DueType
  <2> QED BY <2>3
<1>4. ASSUME got'[c] = got[c] PROVE Total(x, c)' <= Total(x, c)
  <2>1. /\ Count(got[c], x) \in Nat /\ Count(chan[Host[c]], x) \in Nat
        /\ Due(Host[c], x, c) \in {0, 1} /\ Due(x, x, c) \in {0, 1}
        /\ Due(Host[c], x, c)' \in {0, 1} /\ Due(x, x, c)' \in {0, 1}
    BY <1>1, TotalType, DueType
  <2>2. Due(Host[c], x, c)' <= Due(Host[c], x, c) /\ Due(x, x, c)' <= Due(x, x, c)
    BY <1>1, <1>3
  <2>3. /\ Total(x, c) = Count(got[c], x) + Count(chan[Host[c]], x) + Due(Host[c], x, c) + Due(x, x, c)
        /\ Total(x, c)' = Count(got[c], x) + Count(chan[Host[c]], x) + Due(Host[c], x, c)' + Due(x, x, c)'
    BY <1>2, <1>4 DEF Total
  <2> QED BY <2>1, <2>2, <2>3
<1>5. CASE d = c /\ conn[c] = "open"
  <2> DEFINE p == loop[g].cur
  <2>1. got'[c] = Append(got[c], p)
    BY <1>1, <1>5 DEF Send, TypeOK
  <2>2. Count(Append(got[c], p), x) = Count(got[c], x) + IF p = x THEN 1 ELSE 0
    BY <1>1, <1>2, CountAppend
  <2>3. CASE p # x
    <3>1. Count(got'[c], x) = Count(got[c], x)
      BY <1>1, <2>1, <2>2, <2>3, TotalType
    <3>2. /\ Count(got[c], x) \in Nat /\ Count(chan[Host[c]], x) \in Nat
          /\ Due(Host[c], x, c) \in {0, 1} /\ Due(x, x, c) \in {0, 1}
          /\ Due(Host[c], x, c)' \in {0, 1} /\ Due(x, x, c)' \in {0, 1}
      BY <1>1, TotalType, DueType
    <3>3. Due(Host[c], x, c)' <= Due(Host[c], x, c) /\ Due(x, x, c)' <= Due(x, x, c)
      BY <1>1, <1>3
    <3>4. /\ Total(x, c) = Count(got[c], x) + Count(chan[Host[c]], x) + Due(Host[c], x, c) + Due(x, x, c)
          /\ Total(x, c)' = Count(got[c], x) + Count(chan[Host[c]], x) + Due(Host[c], x, c)' + Due(x, x, c)'
      BY <1>2, <3>1 DEF Total
    <3> QED BY <3>2, <3>3, <3>4
  <2>4. CASE p = x
    <3>1. g = Host[c] \/ g = x
      BY <1>2, <1>5, <2>4, Goroutine DEF SoundInv, LoopsSound, Goroutines
    <3>2. Due(g, x, c) = 1 /\ Due(g, x, c)' = 0
      BY <1>2, <1>5, <2>4 DEF Due, Joining
    <3>3. Host[c] # x
      BY HostType, Goroutine DEF Callers
    <3>4. Count(got'[c], x) = Count(got[c], x) + 1
      BY <2>1, <2>2, <2>4
    <3>5. /\ Count(got[c], x) \in Nat /\ Count(chan[Host[c]], x) \in Nat
          /\ Due(Host[c], x, c) \in {0, 1} /\ Due(x, x, c) \in {0, 1}
          /\ Due(Host[c], x, c)' \in {0, 1} /\ Due(x, x, c)' \in {0, 1}
      BY <1>1, TotalType, DueType
    <3>6. Due(Host[c], x, c)' <= Due(Host[c], x, c) /\ Due(x, x, c)' <= Due(x, x, c)
      BY <1>1, <1>3
    <3>7. /\ Total(x, c) = Count(got[c], x) + Count(chan[Host[c]], x) + Due(Host[c], x, c) + Due(x, x, c)
          /\ Total(x, c)' = Count(got'[c], x) + Count(chan[Host[c]], x) + Due(Host[c], x, c)' + Due(x, x, c)'
      BY <1>2 DEF Total
    <3> HIDE DEF p
    <3>8. CASE g = Host[c]
      BY <3>2, <3>4, <3>5, <3>6, <3>7, <3>8
    <3>9. CASE g = x
      BY <3>2, <3>4, <3>5, <3>6, <3>7, <3>9
    <3> QED BY <3>1, <3>8, <3>9
  <2> QED BY <2>3, <2>4
<1>6. CASE d # c \/ conn[c] # "open"
  <2>1. got'[c] = got[c]
    BY <1>1, <1>2, <1>6 DEF Send
  <2> QED BY <1>4, <2>1
<1> QED BY <1>5, <1>6

\* A command adds at most one copy of its own payload, and none of another.
LEMMA PublishTotal ==
  ASSUME TypeOK, NEW z \in Callers, Command(z), NEW x \in Callers, NEW c \in Clients
  PROVE  Total(x, c)' <= Total(x, c) + IF z = x THEN 1 ELSE 0
<1>1. /\ UNCHANGED <<got, loop, conn>>
      /\ chan'[Host[c]] \in {chan[Host[c]], Append(chan[Host[c]], z)}
  <2>1. UNCHANGED conn
    BY DEF Command, RedisPublish, RedisRetry, clientVars
  <2> QED BY <2>1, CommandEffect, HostType DEF Callers
<1>2. chan[Host[c]] \in Seq(Callers)
  BY HostType DEF TypeOK, Callers
<1>3. Count(Append(chan[Host[c]], z), x) = Count(chan[Host[c]], x) + IF z = x THEN 1 ELSE 0
  BY <1>2, CountAppend
<1>4. /\ Count(got[c], x) \in Nat /\ Count(chan[Host[c]], x) \in Nat
      /\ Due(Host[c], x, c) \in Nat /\ Due(x, x, c) \in Nat
  BY TotalType
<1>5. Count(chan'[Host[c]], x) \in {Count(chan[Host[c]], x),
                                    Count(chan[Host[c]], x) + IF z = x THEN 1 ELSE 0}
  BY <1>1, <1>3
<1>6. Due(Host[c], x, c)' = Due(Host[c], x, c) /\ Due(x, x, c)' = Due(x, x, c)
  BY <1>1 DEF Due, Joining
<1>7. /\ Total(x, c) = Count(got[c], x) + Count(chan[Host[c]], x) + Due(Host[c], x, c) + Due(x, x, c)
      /\ Total(x, c)' = Count(got[c], x) + Count(chan'[Host[c]], x) + Due(Host[c], x, c) + Due(x, x, c)
  BY <1>1, <1>6 DEF Total
<1> QED BY <1>4, <1>5, <1>7

\* A local broadcast adds one, if it begins a loop of its own payload.
LEMMA LocalTotal ==
  ASSUME TypeInv, RangeInv, NEW z \in Callers, BroadcastLocal(z), NEW x \in Callers,
         NEW c \in Clients
  PROVE  Total(x, c)' <= Total(x, c) + IF z = x /\ pc'[x] = "range" THEN 1 ELSE 0
<1>1. /\ TypeOK /\ Host[c] \in Servers /\ Host[c] \in Goroutines /\ x \in Goroutines
      /\ z \notin Servers
  BY HostType, Goroutine DEF TypeInv, Callers
<1>2. /\ UNCHANGED <<got, chan, conn>>
      /\ \A h \in Goroutines : h # z => loop'[h] = loop[h]
  BY <1>1, LocalEffect DEF BroadcastLocal, clientVars
<1>3. Due(Host[c], x, c)' = Due(Host[c], x, c)
  BY <1>1, <1>2 DEF Due, Joining
<1>4. Due(x, x, c)' <= Due(x, x, c) + IF z = x /\ pc'[x] = "range" THEN 1 ELSE 0
  <2>1. CASE UNCHANGED loop
    <3>1. Due(x, x, c)' = Due(x, x, c)
      BY <1>2, <2>1 DEF Due, Joining
    <3> QED BY <3>1, DueType
  <2>2. CASE z # x
    <3>1. Due(x, x, c)' = Due(x, x, c)
      BY <1>1, <1>2, <2>2 DEF Due, Joining
    <3> QED BY <3>1, DueType
  <2>3. CASE z = x /\ pc' = [pc EXCEPT ![z] = "range"]
    <3>1. pc'[x] = "range"
      BY <1>1, <2>3 DEF TypeOK
    <3> QED BY <2>3, <3>1, DueType
  <2> QED BY <2>1, <2>2, <2>3 DEF BroadcastLocal
<1>5. /\ Count(got[c], x) \in Nat /\ Count(chan[Host[c]], x) \in Nat
      /\ Due(Host[c], x, c) \in Nat /\ Due(x, x, c) \in Nat /\ Due(x, x, c)' \in Nat
  BY <1>1, TotalType, DueType
<1>6. /\ Total(x, c) = Count(got[c], x) + Count(chan[Host[c]], x) + Due(Host[c], x, c) + Due(x, x, c)
      /\ Total(x, c)' = Count(got[c], x) + Count(chan[Host[c]], x) + Due(Host[c], x, c) + Due(x, x, c)'
  BY <1>2, <1>3 DEF Total
<1> QED BY <1>4, <1>5, <1>6

LEMMA CopyStep ==
  SoundInv /\ ModeInv /\ RangeInv /\ HomeInv /\ FallInv /\ CopyInv /\ [Next]_vars => CopyInv'
<1> SUFFICES ASSUME SoundInv, ModeInv, RangeInv, HomeInv, FallInv, CopyInv, [Next]_vars,
                    NEW x \in Callers, NEW c \in Clients
             PROVE  Total(x, c)' <= sends'[x] + Bonus(x)'
  BY DEF CopyInv
<1>1. /\ TypeInv /\ TypeOK /\ Total(x, c) <= sends[x] + Bonus(x)
      /\ sends \in [Callers -> Nat]
  BY DEF SoundInv, TypeInv, TypeOK, CopyInv
<1>2. TypeOK'
  BY <1>1, TypeStep DEF TypeInv
<1>3. /\ Total(x, c) \in Nat /\ sends[x] \in Nat /\ Bonus(x) \in {0, 1}
      /\ Total(x, c)' \in Nat /\ sends'[x] \in Nat /\ Bonus(x)' \in {0, 1}
  <2>1. Total(x, c) \in Nat /\ sends[x] \in Nat /\ Bonus(x) \in {0, 1}
    BY <1>1, TotalType DEF Total, Bonus
  <2>2. /\ got'[c] \in Seq(Callers) /\ chan'[Host[c]] \in Seq(Callers) /\ sends'[x] \in Nat
    BY <1>2, HostType DEF TypeOK, Callers
  <2>3. Count(got'[c], x) \in Nat /\ Count(chan'[Host[c]], x) \in Nat
    BY <2>2, CountType
  <2>4. Due(Host[c], x, c)' \in {0, 1} /\ Due(x, x, c)' \in {0, 1}
    BY DueType
  <2>5. Total(x, c)' = Count(got'[c], x) + Count(chan'[Host[c]], x) + Due(Host[c], x, c)' + Due(x, x, c)'
    BY DEF Total
  <2>6. Bonus(x)' \in {0, 1}
    BY DEF Bonus
  <2> QED BY <2>1, <2>2, <2>3, <2>4, <2>5, <2>6
<1>4. ~Command(x) => sends'[x] = sends[x] /\ Bonus(x)' >= Bonus(x)
  BY <1>1, BonusStep
<1>5. ASSUME Total(x, c)' <= Total(x, c), ~Command(x)
      PROVE  Total(x, c)' <= sends'[x] + Bonus(x)'
  BY <1>1, <1>3, <1>4, <1>5
<1>6. CASE Command(x)
  <2>1. sends'[x] = sends[x] + 1 /\ pc[x] = "publish"
    BY <1>1, <1>6, CommandEffect
  <2>2. Bonus(x) = 0
    BY <2>1 DEF Bonus, Finished
  <2>3. Total(x, c)' <= Total(x, c) + 1
    BY <1>1, <1>6, PublishTotal
  <2> QED BY <1>1, <1>3, <2>1, <2>2, <2>3
<1>7. ASSUME NEW z \in Callers, Command(z), ~Command(x)
      PROVE  Total(x, c)' <= sends'[x] + Bonus(x)'
  <2>1. z # x
    BY <1>7
  <2>2. Total(x, c)' <= Total(x, c)
    BY <1>1, <1>3, <1>7, <2>1, PublishTotal
  <2> QED BY <1>5, <1>7, <2>2
<1>8. ASSUME NEW z \in Callers, BroadcastLocal(z), ~Command(x)
      PROVE  Total(x, c)' <= sends'[x] + Bonus(x)'
  <2>1. Total(x, c)' <= Total(x, c) + IF z = x /\ pc'[x] = "range" THEN 1 ELSE 0
    BY <1>1, <1>8, LocalTotal
  <2>2. CASE z = x /\ pc'[x] = "range"
    <3>1. pc[x] = "lookup" /\ UNCHANGED sends
      BY <1>8, <2>2 DEF BroadcastLocal, redisVars
    <3>2. Bonus(x) = 0
      BY <3>1 DEF Bonus, Finished
    <3>3. sends[x] # 0 => Op[x] = "message"
      BY <3>1 DEF FallInv
    <3>4. Bonus(x)' = 1
      BY <2>2, <3>1, <3>3 DEF Bonus
    <3> QED BY <1>1, <1>3, <2>1, <2>2, <3>1, <3>2, <3>4
  <2>3. CASE ~(z = x /\ pc'[x] = "range")
    <3>1. Total(x, c)' <= Total(x, c)
      BY <1>3, <2>1, <2>3
    <3> QED BY <1>5, <1>8, <3>1
  <2> QED BY <2>2, <2>3
<1>9. ASSUME NEW s \in Servers, Relay(s), ~Command(x)
      PROVE  Total(x, c)' <= sends'[x] + Bonus(x)'
  BY <1>1, <1>5, <1>9, RelayTotal
<1>10. ASSUME NEW g \in Goroutines, NEW d \in Clients, Send(g, d), ~Command(x)
       PROVE  Total(x, c)' <= sends'[x] + Bonus(x)'
  BY <1>5, <1>10, SendTotal
<1>11. ASSUME \/ \E s \in Servers : Start(s) \/ Crash(s) \/ Subscribe(s) \/ LoseSubscription(s)
              \/ \E d \in Clients : ServeWS(d) \/ AddClient(d) \/ PeerGone(d) \/ RemoveClient(d)
              \/ \E z \in Callers : Publish(z) \/ SetPresence(z)
              \/ \E g \in Goroutines : EndLoop(g)
              \/ UNCHANGED vars,
              ~Command(x)
       PROVE  Total(x, c)' <= sends'[x] + Bonus(x)'
  BY <1>1, <1>5, <1>11, PlainStep
<1> QED BY <1>6, <1>7, <1>8, <1>9, <1>10, <1>11 DEF Next, Command

-----------------------------------------------------------------------------
(* The budget.                                                             *)

\* With a call left, and a command left in it, one more command fits.
LEMMA OneMore ==
  ASSUME NEW M \in Nat, NEW L \in Nat, NEW a \in Nat, NEW t \in Nat, a < L, t < M
  PROVE  /\ a * M + t \in Nat /\ a * M + t + 1 <= L * M
         /\ a * M + t + 1 <= (a + 1) * M
<1>1. a * M \in Nat /\ (a + 1) * M = a * M + M
  OBVIOUS
<1>2. PICK d \in Nat : L = (a + 1) + d
  <2>1. L - (a + 1) \in Nat /\ L = (a + 1) + (L - (a + 1))
    OBVIOUS
  <2> QED BY <2>1
<1>3. L * M = (a + 1) * M + d * M /\ d * M \in Nat /\ (a + 1) * M \in Nat
  BY <1>2
<1> QED BY <1>1, <1>3

LEMMA BudgetStep == TypeInv /\ BudgetInv /\ [Next]_vars => BudgetInv'
<1> SUFFICES ASSUME TypeInv, BudgetInv, [Next]_vars, NEW x \in Callers
             PROVE  /\ sends'[x] <= Budget(x)
                    /\ pc'[x] = "publish" => sends'[x] <= Spent(x)'
                    /\ pc'[x] = "publish" /\ Op[x] # "message" => attempt'[x] = 0
  BY DEF BudgetInv, Budget
<1> DEFINE OK == /\ sends'[x] <= Budget(x)
                 /\ pc'[x] = "publish" => sends'[x] <= Spent(x)'
                 /\ pc'[x] = "publish" /\ Op[x] # "message" => attempt'[x] = 0
<1>1. /\ TypeOK /\ AttemptsLeft
      /\ attempt[x] \in Nat /\ attempt[x] <= MaxAttempts
      /\ tries[x] \in Nat /\ tries[x] < MaxSends /\ sends[x] \in Nat
      /\ MaxAttempts \in Nat \ {0} /\ MaxSends \in Nat \ {0}
  BY HubAssumption DEF TypeInv, TypeOK
<1>2. /\ sends[x] <= Budget(x)
      /\ pc[x] = "publish" => sends[x] <= Spent(x)
      /\ pc[x] = "publish" /\ Op[x] # "message" => attempt[x] = 0
  BY DEF BudgetInv
<1>3. ASSUME sends'[x] = sends[x], attempt'[x] = attempt[x], tries'[x] = tries[x],
             pc'[x] = "publish" => pc[x] = "publish" \/ (attempt[x] = 0 /\ sends[x] = 0)
      PROVE  OK
  <2>1. Spent(x)' = Spent(x) /\ Spent(x) \in Nat
    BY <1>1, <1>3 DEF Spent
  <2> QED BY <1>2, <1>3, <2>1
<1>4. ASSUME NEW z \in Callers, NEW v, pc' = [pc EXCEPT ![z] = v], UNCHANGED redisVars,
             v = "publish" => pc[z] \in {"idle", "set"}
      PROVE  OK
  <2>1. pc'[x] = "publish" => pc[x] \in {"publish", "idle", "set"}
    BY <1>1, <1>4 DEF TypeOK
  <2>2. pc[x] \in {"idle", "set"} => attempt[x] = 0 /\ sends[x] = 0
    BY <1>1 DEF AttemptsLeft
  <2> QED BY <1>3, <1>4, <2>1, <2>2 DEF redisVars
<1>5. ASSUME NEW s \in Servers, Crash(s) PROVE OK
  <2>1. pc'[x] = "publish" => pc[x] = "publish"
    BY <1>5 DEF Crash
  <2> QED BY <1>3, <1>5, <2>1 DEF Crash, redisVars
<1>6. ASSUME NEW z \in Callers, Publish(z) PROVE OK
  <2>1. pc[z] = "idle" /\ \E v : pc' = [pc EXCEPT ![z] = v]
    BY <1>6 DEF Publish
  <2> QED BY <1>4, <1>6, <2>1 DEF Publish
<1>7. ASSUME NEW z \in Callers, SetPresence(z) PROVE OK
  <2>1. pc[z] = "set" /\ \E v : pc' = [pc EXCEPT ![z] = v]
    BY <1>7 DEF SetPresence
  <2> QED BY <1>4, <1>7, <2>1 DEF SetPresence
<1>8. ASSUME NEW z \in Callers, BroadcastLocal(z) PROVE OK
  <2>1. PICK v \in {"range", "nil", "err"} : pc' = [pc EXCEPT ![z] = v]
    BY <1>8 DEF BroadcastLocal, Outcome
  <2> QED BY <1>4, <1>8, <2>1 DEF BroadcastLocal
<1>9. ASSUME NEW g \in Goroutines, EndLoop(g) PROVE OK
  <2>1. UNCHANGED redisVars /\ (pc'[x] = "publish" => pc[x] = "publish")
    BY <1>1, <1>9 DEF EndLoop, Outcome, TypeOK
  <2> QED BY <1>3, <2>1 DEF redisVars
<1>10. ASSUME NEW z \in Callers, Command(z), z # x PROVE OK
  <2>1. /\ pc'[x] = pc[x] /\ attempt'[x] = attempt[x] /\ tries'[x] = tries[x]
        /\ sends'[x] = sends[x]
    <3>1. PICK v : pc' = [pc EXCEPT ![z] = v]
      BY <1>1, <1>10, CommandEffect
    <3>2. sends' = [sends EXCEPT ![z] = sends[z] + 1]
      BY <1>1, <1>10, CommandEffect
    <3>3. attempt'[x] = attempt[x] /\ tries'[x] = tries[x]
      BY <1>1, <1>10 DEF Command, RedisPublish, RedisRetry, TypeOK
    <3> QED BY <1>10, <3>1, <3>2, <3>3
  <2> QED BY <1>3, <2>1
<1>11. CASE Command(x)
  <2> DEFINE a == attempt[x]
             t == tries[x]
             L == IF Op[x] = "message" THEN MaxAttempts ELSE 1
  <2>1. pc[x] = "publish" /\ sends'[x] = sends[x] + 1
    BY <1>1, <1>11, CommandEffect DEF TypeOK
  <2>2. a \in Nat /\ t \in Nat /\ t < MaxSends /\ L \in Nat /\ a < L
    BY <1>1, <1>2, <2>1 DEF AttemptsLeft
  <2>3. sends[x] <= a * MaxSends + t
    BY <1>2, <2>1 DEF Spent
  <2>4. Budget(x) = L * MaxSends
    BY <1>1 DEF Budget
  <2> HIDE DEF a, t, L
  <2>5. /\ a * MaxSends + t \in Nat /\ a * MaxSends + t + 1 <= L * MaxSends
        /\ a * MaxSends + t + 1 <= (a + 1) * MaxSends
    BY <1>1, <2>2, OneMore
  <2>6. L * MaxSends \in Nat /\ (a + 1) * MaxSends \in Nat
    BY <1>1, <2>2
  <2>7. sends'[x] <= Budget(x)
    BY <1>1, <2>1, <2>3, <2>4, <2>5, <2>6
  <2>8. CASE RedisPublish(x)
    <3>1. attempt'[x] = a + 1 /\ tries'[x] = 0
      BY <1>1, <2>8 DEF RedisPublish, TypeOK, a
    <3>2. pc'[x] = "publish" => Op[x] = "message"
      BY <1>1, <2>8 DEF RedisPublish, AfterFailure, TypeOK
    <3>3. Spent(x)' = (a + 1) * MaxSends
      BY <2>6, <3>1 DEF Spent
    <3> QED BY <1>1, <2>1, <2>3, <2>5, <2>6, <2>7, <3>2, <3>3
  <2>9. CASE RedisRetry(x)
    <3>1. attempt'[x] = a /\ tries'[x] = t + 1
      BY <1>1, <2>9 DEF RedisRetry, TypeOK, a, t
    <3>2. Spent(x)' = a * MaxSends + (t + 1) /\ a * MaxSends \in Nat
      BY <1>1, <2>2, <3>1 DEF Spent
    <3>3. sends'[x] <= Spent(x)'
      BY <1>1, <2>1, <2>2, <2>3, <3>2
    <3> QED BY <1>2, <2>1, <2>7, <3>1, <3>3 DEF a
  <2> QED BY <1>11, <2>8, <2>9 DEF Command
<1>12. ASSUME UNCHANGED callVars PROVE OK
  BY <1>3, <1>12 DEF callVars, redisVars
<1> QED
  BY <1>5, <1>6, <1>7, <1>8, <1>9, <1>10, <1>11, <1>12
  DEF Next, Command, vars, Start, Subscribe, LoseSubscription, Relay, ServeWS, AddClient,
      PeerGone, RemoveClient, Send

LEMMA BudgetInit == Init => BudgetInv
<1>1. \A x \in Callers : Budget(x) >= 0
  BY HubAssumption DEF Budget
<1> QED BY <1>1 DEF Init, BudgetInv, Spent

LEMMA CopyInit == Init => FallInv /\ CopyInv
<1> SUFFICES ASSUME Init, NEW x \in Callers, NEW c \in Clients
             PROVE  FallInv /\ Total(x, c) <= sends[x] + Bonus(x)
  BY DEF CopyInv, FallInv, Init
<1>1. /\ Host[c] \in Servers /\ Host[c] \in Goroutines /\ x \in Goroutines /\ x # None
  BY HostType, Goroutine DEF Callers
<1>2. got[c] = << >> /\ chan[Host[c]] = << >> /\ sends[x] = 0 /\ pc[x] = "idle"
  BY <1>1 DEF Init
<1>3. loop[Host[c]].cur = None /\ loop[x].cur = None
  BY <1>1, NoLoopType DEF Init
<1>4. Due(Host[c], x, c) = 0 /\ Due(x, x, c) = 0
  BY <1>1, <1>3 DEF Due
<1>5. Count(<< >>, x) = 0
  <2>1. << >> \in Seq(Callers) /\ x \notin ToSet(<< >>)
    BY EmptyFacts
  <2> QED BY <2>1, CountType
<1>6. Bonus(x) \in {0, 1}
  BY DEF Bonus
<1>7. Total(x, c) = 0
  BY <1>2, <1>4, <1>5 DEF Total
<1>8. FallInv
  BY DEF Init, FallInv
<1> QED BY <1>2, <1>6, <1>7, <1>8

\* A socket sees a payload at most once for every PUBLISH command sent, and once
\* more by the caller's own loop, the fallback of a message or the broadcast of a
\* hub without Redis, however connections join and leave, channels overflow and
\* processes die: no command is shown twice, no loop twice.  The commands are at
\* most MaxSends for each of the calls the hub makes, MaxAttempts for a message
\* and one for an event (hub.go:83-103, 136-174, 191, 218, 248).
THEOREM CopiesCorrect == Spec => []CopiesBounded
<1>1. Init => RangeInv /\ ModeInv /\ HomeInv
  BY FlowInit DEF Flow
<1> DEFINE Inv == RangeInv /\ ModeInv /\ HomeInv /\ FallInv /\ CopyInv /\ BudgetInv
<1>2. SoundInv /\ Inv /\ [Next]_vars => Inv'
  BY RangeStep, ModeStep, HomeStep, FallStep, CopyStep, BudgetStep DEF SoundInv, TypeInv
<1>3. SoundInv /\ Inv => CopiesBounded
  <2> SUFFICES ASSUME TypeOK, CopyInv, NEW c \in Clients, NEW x \in Callers
               PROVE  Copies(x, c) <= sends[x] +
                        IF sends[x] = 0 \/ (Op[x] = "message" /\ pc[x] \in {"range", "err", "lost"})
                        THEN 1 ELSE 0
    BY DEF SoundInv, TypeInv, CopiesBounded, BudgetInv
  <2> DEFINE b == IF sends[x] = 0 \/ (Op[x] = "message" /\ pc[x] \in {"range", "err", "lost"})
                  THEN 1 ELSE 0
  <2>1. /\ Count(got[c], x) \in Nat /\ Count(chan[Host[c]], x) \in Nat
        /\ Due(Host[c], x, c) \in Nat /\ Due(x, x, c) \in Nat
        /\ sends[x] \in Nat /\ Bonus(x) \in Nat
    BY TotalType
  <2>2. Bonus(x) <= b /\ b \in Nat
    BY DEF Bonus
  <2>3. Copies(x, c) = Count(got[c], x)
    BY DEF Copies, Count
  <2>4. Count(got[c], x) + Count(chan[Host[c]], x) + Due(Host[c], x, c) + Due(x, x, c) <= sends[x] + Bonus(x)
    BY DEF CopyInv, Total
  <2> HIDE DEF b
  <2>5. Copies(x, c) <= sends[x] + b
    BY <2>1, <2>2, <2>3, <2>4
  <2> QED BY <2>5 DEF b
<1>4. Spec => []Inv
  BY <1>1, <1>2, CopyInit, BudgetInit, SoundAlways, PTL DEF Spec
<1> QED BY <1>3, <1>4, SoundAlways, PTL
=============================================================================
