--------------------------- MODULE ChatViewProofs ---------------------------
(***************************************************************************)
(* The safety properties of ChatView, for every instance: any              *)
(* conversations, posts, texts, history limit and bounds.                  *)
(***************************************************************************)
EXTENDS ChatView, FiniteSetTheorems, WellFoundedInduction, TLAPS

-----------------------------------------------------------------------------
(* Sequences: what the operators of the model do to the elements, to their *)
(* number of occurrences and to their order.                               *)

OnlyOnce(s) == \A i, j \in DOMAIN s : s[i] = s[j] => i = j

\* Wherever y is in s, x was before it.
Ahead(s, x, y) == \A j \in DOMAIN s : s[j] = y => \E i \in DOMAIN s : i < j /\ s[i] = x

LEMMA MinIsIn ==
  ASSUME NEW S \in SUBSET Nat, S # {}
  PROVE  Min(S) \in S
<1>1. PICK k \in S : \A l \in S : ~(<<l, k>> \in OpToRel(<, Nat))
  BY NatLessThanWellFounded, WFMin, Zenon
<1>2. ASSUME NEW l \in S
      PROVE  k <= l
  <2>1. k \in Nat /\ l \in Nat /\ <<l, k>> \in Nat \X Nat
    OBVIOUS
  <2>2. ~(<<l, k>>[1] < <<l, k>>[2])
    BY <1>1, <2>1 DEF OpToRel
  <2> QED BY <2>1, <2>2
<1> QED BY <1>2 DEF Min

LEMMA EmptyFacts ==
  /\ ToSet(<< >>) = {} /\ OnlyOnce(<< >>)
  /\ \A x, y : ~Before(<< >>, x, y) /\ Ahead(<< >>, x, y)
  BY DEF ToSet, OnlyOnce, Before, Ahead

LEMMA BeforeIn ==
  ASSUME NEW S, NEW s \in Seq(S), NEW x, NEW y, Before(s, x, y)
  PROVE  x \in ToSet(s) /\ y \in ToSet(s)
  BY DEF Before, ToSet

LEMMA OneOrder ==
  ASSUME NEW S, NEW s \in Seq(S), OnlyOnce(s), NEW x, NEW y, Before(s, x, y)
  PROVE  ~Before(s, y, x)
<1>1. DOMAIN s \subseteq Nat
  OBVIOUS
<1> QED BY <1>1 DEF Before, OnlyOnce

LEMMA AppendFacts ==
  ASSUME NEW S, NEW s \in Seq(S), NEW e \in S
  PROVE  /\ Append(s, e) \in Seq(S) /\ Len(Append(s, e)) = Len(s) + 1
         /\ ToSet(Append(s, e)) = ToSet(s) \cup {e}
         /\ OnlyOnce(s) /\ e \notin ToSet(s) => OnlyOnce(Append(s, e))
         /\ \A x, y : Before(Append(s, e), x, y) => Before(s, x, y) \/ (y = e /\ x \in ToSet(s))
         /\ \A x, y : Ahead(s, x, y) /\ (y = e => x \in ToSet(s)) => Ahead(Append(s, e), x, y)
<1>1. /\ DOMAIN Append(s, e) = 1..Len(s) + 1 /\ DOMAIN s = 1..Len(s) /\ Len(s) \in Nat
      /\ Append(s, e)[Len(s) + 1] = e /\ Append(s, e) \in Seq(S)
      /\ \A i \in 1..Len(s) : Append(s, e)[i] = s[i]
  OBVIOUS
<1>2. ToSet(Append(s, e)) = ToSet(s) \cup {e}
  BY <1>1 DEF ToSet
<1>3. ASSUME OnlyOnce(s), e \notin ToSet(s)
      PROVE  OnlyOnce(Append(s, e))
  <2>1. \A i \in 1..Len(s) : s[i] # e
    BY <1>1, <1>3 DEF ToSet
  <2> QED BY <1>1, <1>3, <2>1 DEF OnlyOnce
<1>4. ASSUME NEW x, NEW y, Before(Append(s, e), x, y)
      PROVE  Before(s, x, y) \/ (y = e /\ x \in ToSet(s))
  <2>1. PICK i, j \in 1..Len(s) + 1 : i < j /\ Append(s, e)[i] = x /\ Append(s, e)[j] = y
    BY <1>1, <1>4 DEF Before
  <2>2. i \in 1..Len(s) /\ s[i] = x
    BY <1>1, <2>1
  <2>3. CASE j = Len(s) + 1
    BY <1>1, <2>1, <2>2, <2>3 DEF ToSet
  <2>4. CASE j \in 1..Len(s)
    BY <1>1, <2>1, <2>2, <2>4 DEF Before
  <2> QED BY <1>1, <2>1, <2>3, <2>4
<1>5. ASSUME NEW x, NEW y, Ahead(s, x, y), y = e => x \in ToSet(s),
             NEW j \in 1..Len(s) + 1, Append(s, e)[j] = y
      PROVE  \E i \in 1..Len(s) + 1 : i < j /\ Append(s, e)[i] = x
  <2>1. CASE j = Len(s) + 1
    <3>1. PICK i \in 1..Len(s) : s[i] = x
      BY <1>1, <1>5, <2>1 DEF ToSet
    <3> QED BY <1>1, <2>1, <3>1
  <2>2. CASE j \in 1..Len(s)
    <3>1. PICK i \in 1..Len(s) : i < j /\ s[i] = x
      BY <1>1, <1>5, <2>2 DEF Ahead
    <3> QED BY <1>1, <3>1
  <2> QED BY <1>1, <2>1, <2>2
<1>6. \A x, y : Ahead(s, x, y) /\ (y = e => x \in ToSet(s)) => Ahead(Append(s, e), x, y)
  BY <1>1, <1>5 DEF Ahead
<1> QED BY <1>1, <1>2, <1>3, <1>4, <1>6

LEMMA TailFacts ==
  ASSUME NEW S, NEW s \in Seq(S), s # << >>
  PROVE  /\ Head(s) \in S /\ Head(s) \in ToSet(s)
         /\ Tail(s) \in Seq(S) /\ ToSet(s) = ToSet(Tail(s)) \cup {Head(s)}
         /\ \A x : ~Ahead(s, x, Head(s))
         /\ \A x, y : Ahead(s, x, y) /\ x # Head(s) => Ahead(Tail(s), x, y)
<1>1. /\ Head(s) = s[1] /\ Len(s) \in Nat \ {0} /\ DOMAIN s = 1..Len(s)
      /\ Tail(s) \in Seq(S) /\ DOMAIN Tail(s) = 1..Len(s) - 1
      /\ \A i \in 1..Len(s) - 1 : i + 1 \in 1..Len(s) /\ Tail(s)[i] = s[i + 1]
      /\ 1 \in 1..Len(s) /\ s[1] \in S
  OBVIOUS
<1>2. \A k \in 1..Len(s) : k = 1 \/ (k - 1 \in 1..Len(s) - 1 /\ s[k] = Tail(s)[k - 1])
  BY <1>1
<1>3. ToSet(Tail(s)) \cup {Head(s)} \subseteq ToSet(s)
  BY <1>1 DEF ToSet
<1>4. ASSUME NEW e \in ToSet(s)
      PROVE  e \in ToSet(Tail(s)) \cup {Head(s)}
  <2>1. PICK k \in 1..Len(s) : s[k] = e
    BY <1>1 DEF ToSet
  <2> QED BY <1>1, <1>2, <2>1 DEF ToSet
<1>5. ASSUME NEW x, NEW y, Ahead(s, x, y), x # Head(s),
             NEW j \in DOMAIN Tail(s), Tail(s)[j] = y
      PROVE  \E i \in DOMAIN Tail(s) : i < j /\ Tail(s)[i] = x
  <2>1. j + 1 \in 1..Len(s) /\ s[j + 1] = y
    BY <1>1, <1>5
  <2>2. PICK i \in 1..Len(s) : i < j + 1 /\ s[i] = x
    BY <1>1, <1>5, <2>1 DEF Ahead
  <2>3. i # 1
    BY <1>1, <1>5, <2>2
  <2>4. i - 1 \in DOMAIN Tail(s) /\ i - 1 < j /\ Tail(s)[i - 1] = x
    BY <1>1, <1>2, <2>2, <2>3
  <2> QED BY <2>4
<1>6. \A x, y : Ahead(s, x, y) /\ x # Head(s) => Ahead(Tail(s), x, y)
  BY <1>5 DEF Ahead
<1>7. \A x : ~Ahead(s, x, Head(s))
  BY <1>1 DEF Ahead
<1> QED BY <1>1, <1>3, <1>4, <1>6, <1>7

\* The part of s from position a to b, possibly empty.
LEMMA SubSeqFacts ==
  ASSUME NEW S, NEW s \in Seq(S), NEW a \in Nat, NEW b \in Nat, 1 <= a, b <= Len(s), a <= b + 1
  PROVE  /\ SubSeq(s, a, b) \in Seq(S) /\ Len(SubSeq(s, a, b)) = b - a + 1
         /\ \A i \in 1..(b - a + 1) : SubSeq(s, a, b)[i] = s[a + i - 1]
<1>1. \A i \in a..b : i \in DOMAIN s
  OBVIOUS
<1>2. SubSeq(s, a, b) \in Seq(S)
  BY <1>1
<1>3. Len(SubSeq(s, a, b)) = b - a + 1
  OBVIOUS
<1>4. \A i \in 1..(b - a + 1) : SubSeq(s, a, b)[i] = s[a + i - 1]
  OBVIOUS
<1> QED BY <1>2, <1>3, <1>4

\* An element of a sequence is taken out.
LEMMA RemoveFacts ==
  ASSUME NEW S, NEW s \in Seq(S), NEW t \in 1..Len(s)
  PROVE  /\ RemoveAt(s, t) \in Seq(S)
         /\ OnlyOnce(s) => /\ ToSet(RemoveAt(s, t)) = ToSet(s) \ {s[t]}
                           /\ OnlyOnce(RemoveAt(s, t))
         /\ \A x, y : Before(RemoveAt(s, t), x, y) => Before(s, x, y)
<1> DEFINE r == RemoveAt(s, t)
           at(i) == IF i < t THEN i ELSE i + 1
<1>1. Len(s) \in Nat /\ t \in Nat /\ t >= 1 /\ t <= Len(s) /\ DOMAIN s = 1..Len(s)
  OBVIOUS
<1>2. /\ SubSeq(s, 1, t - 1) \in Seq(S) /\ Len(SubSeq(s, 1, t - 1)) = t - 1
      /\ \A i \in 1..t - 1 : SubSeq(s, 1, t - 1)[i] = s[i]
  <2>1. /\ SubSeq(s, 1, t - 1) \in Seq(S) /\ Len(SubSeq(s, 1, t - 1)) = (t - 1) - 1 + 1
        /\ \A i \in 1..((t - 1) - 1 + 1) : SubSeq(s, 1, t - 1)[i] = s[1 + i - 1]
    BY <1>1, SubSeqFacts
  <2>2. (t - 1) - 1 + 1 = t - 1 /\ \A i \in 1..t - 1 : 1 + i - 1 = i
    BY <1>1
  <2> QED BY <2>1, <2>2
<1>3. /\ SubSeq(s, t + 1, Len(s)) \in Seq(S) /\ Len(SubSeq(s, t + 1, Len(s))) = Len(s) - t
      /\ \A i \in 1..Len(s) - t : SubSeq(s, t + 1, Len(s))[i] = s[i + t]
  <2> DEFINE a == t + 1
             b == Len(s)
  <2>0. a \in Nat /\ b \in Nat /\ 1 <= a /\ b <= Len(s) /\ a <= b + 1
    BY <1>1
  <2> HIDE DEF a, b
  <2>3. /\ SubSeq(s, a, b) \in Seq(S) /\ Len(SubSeq(s, a, b)) = b - a + 1
        /\ \A i \in 1..(b - a + 1) : SubSeq(s, a, b)[i] = s[a + i - 1]
    BY <2>0, SubSeqFacts
  <2>1. /\ SubSeq(s, t + 1, Len(s)) \in Seq(S) /\ Len(SubSeq(s, t + 1, Len(s))) = Len(s) - (t + 1) + 1
        /\ \A i \in 1..(Len(s) - (t + 1) + 1) : SubSeq(s, t + 1, Len(s))[i] = s[(t + 1) + i - 1]
    BY <2>3 DEF a, b
  <2>2. Len(s) - (t + 1) + 1 = Len(s) - t /\ \A i \in 1..Len(s) - t : (t + 1) + i - 1 = i + t
    BY <1>1
  <2> QED BY <2>1, <2>2
<1>4. /\ r \in Seq(S) /\ DOMAIN r = 1..Len(s) - 1
      /\ \A i \in 1..Len(s) - 1 : r[i] = s[at(i)]
  <2> DEFINE u == SubSeq(s, 1, t - 1)
             v == SubSeq(s, t + 1, Len(s))
  <2>1. r = u \o v
    BY DEF RemoveAt
  <2>2. u \in Seq(S) /\ v \in Seq(S) /\ Len(u) = t - 1 /\ Len(v) = Len(s) - t
    BY <1>2, <1>3
  <2> HIDE DEF u, v, r
  <2>3. r \in Seq(S) /\ Len(r) = Len(s) - 1 /\ DOMAIN r = 1..Len(s) - 1
    <3>0. r \in Seq(S)
      BY <2>1, <2>2
    <3>3. Len(u \o v) = Len(u) + Len(v)
      BY <2>2
    <3>4. DOMAIN r = 1..Len(r)
      BY <3>0
    <3>1. Len(r) = Len(u) + Len(v) /\ DOMAIN r = 1..Len(r)
      BY <2>1, <3>3, <3>4
    <3>2. (t - 1) + (Len(s) - t) = Len(s) - 1
      BY <1>1
    <3> QED BY <2>2, <3>0, <3>1, <3>2
  <2>4. ASSUME NEW i \in 1..Len(s) - 1
        PROVE  r[i] = s[at(i)]
    <3>1. r[i] = IF i <= t - 1 THEN u[i] ELSE v[i - (t - 1)]
      BY <1>1, <2>1, <2>2
    <3>2. CASE i < t
      BY <1>1, <1>2, <3>1, <3>2 DEF u
    <3>3. CASE ~(i < t)
      <4>1. i - (t - 1) \in 1..Len(s) - t /\ i - (t - 1) + t = i + 1 /\ ~(i <= t - 1)
        BY <1>1, <3>3
      <4>2. v[i - (t - 1)] = s[i + 1]
        BY <1>3, <4>1 DEF v
      <4> QED BY <3>1, <3>3, <4>1, <4>2
    <3> QED BY <3>2, <3>3
  <2> QED BY <2>3, <2>4
<1>5. \A i \in 1..Len(s) - 1 : at(i) \in 1..Len(s) /\ at(i) # t
  BY <1>1
<1>6. \A i, j \in 1..Len(s) - 1 : (i < j => at(i) < at(j)) /\ (at(i) = at(j) => i = j)
  BY <1>1
<1>7. \A k \in 1..Len(s) : k # t => \E i \in 1..Len(s) - 1 : at(i) = k
  <2> SUFFICES ASSUME NEW k \in 1..Len(s), k # t
               PROVE  \E i \in 1..Len(s) - 1 : at(i) = k
    OBVIOUS
  <2>1. CASE k < t
    BY <1>1, <2>1
  <2>2. CASE k > t
    <3>1. k - 1 \in 1..Len(s) - 1 /\ at(k - 1) = k
      BY <1>1, <2>2
    <3> QED BY <3>1
  <2> QED BY <1>1, <2>1, <2>2
<1> HIDE DEF r, at
<1>8. ASSUME OnlyOnce(s)
      PROVE  ToSet(r) = ToSet(s) \ {s[t]} /\ OnlyOnce(r)
  <2>1. ToSet(r) \subseteq ToSet(s) \ {s[t]}
    BY <1>1, <1>4, <1>5, <1>8 DEF ToSet, OnlyOnce
  <2>2. ASSUME NEW e \in ToSet(s) \ {s[t]}
        PROVE  e \in ToSet(r)
    <3>1. PICK k \in 1..Len(s) : s[k] = e /\ k # t
      BY <1>1 DEF ToSet
    <3>2. PICK i \in 1..Len(s) - 1 : at(i) = k
      BY <1>7, <3>1
    <3> QED BY <1>4, <3>1, <3>2 DEF ToSet
  <2>3. OnlyOnce(r)
    BY <1>1, <1>4, <1>5, <1>6, <1>8 DEF OnlyOnce
  <2> QED BY <2>1, <2>2, <2>3
<1>9. ASSUME NEW x, NEW y, Before(r, x, y)
      PROVE  Before(s, x, y)
  BY <1>1, <1>4, <1>5, <1>6, <1>9 DEF Before
<1> QED BY <1>4, <1>8, <1>9 DEF r

LEMMA RemoveFirstFacts ==
  ASSUME NEW S, NEW s \in Seq(S), NEW e
  PROVE  /\ RemoveFirst(s, e) \in Seq(S)
         /\ OnlyOnce(s) => /\ ToSet(RemoveFirst(s, e)) = ToSet(s) \ {e}
                           /\ OnlyOnce(RemoveFirst(s, e))
         /\ \A x, y : Before(RemoveFirst(s, e), x, y) => Before(s, x, y)
<1> DEFINE I == {i \in 1..Len(s) : s[i] = e}
<1>1. DOMAIN s = 1..Len(s) /\ I \in SUBSET Nat /\ Len(s) \in Nat
  OBVIOUS
<1>2. CASE I = {}
  <2>1. RemoveFirst(s, e) = s /\ e \notin ToSet(s)
    BY <1>1, <1>2 DEF RemoveFirst, ToSet
  <2> QED BY <2>1
<1>3. CASE I # {}
  <2> DEFINE t == Min(I)
  <2>1. t \in I
    BY <1>1, <1>3, MinIsIn
  <2>2. RemoveFirst(s, e) = RemoveAt(s, t)
    BY <1>3 DEF RemoveFirst, SelectInSeq
  <2>3. t \in 1..Len(s) /\ s[t] = e
    BY <2>1
  <2> HIDE DEF t, I
  <2> QED BY <2>2, <2>3, RemoveFacts
<1> QED BY <1>2, <1>3

\* An element is put in anywhere.
LEMMA InsertFacts ==
  ASSUME NEW S, NEW s \in Seq(S), NEW e \in S, NEW k \in 1..Len(s) + 1
  PROVE  /\ InsertAt(s, k, e) \in Seq(S)
         /\ ToSet(InsertAt(s, k, e)) = ToSet(s) \cup {e}
         /\ \A x, y : Ahead(s, x, y) /\ (y = e => \E h \in 1..k - 1 : s[h] = x) =>
                          Ahead(InsertAt(s, k, e), x, y)
<1> DEFINE r == InsertAt(s, k, e)
           u == SubSeq(s, 1, k - 1) \o <<e>>
           v == SubSeq(s, k, Len(s))
           at(i) == IF i < k THEN i ELSE i + 1
<1>1. Len(s) \in Nat /\ k \in Nat /\ k >= 1 /\ k <= Len(s) + 1 /\ DOMAIN s = 1..Len(s)
  OBVIOUS
<1>2. /\ SubSeq(s, 1, k - 1) \in Seq(S) /\ Len(SubSeq(s, 1, k - 1)) = k - 1
      /\ \A i \in 1..k - 1 : SubSeq(s, 1, k - 1)[i] = s[i]
  <2>1. /\ SubSeq(s, 1, k - 1) \in Seq(S) /\ Len(SubSeq(s, 1, k - 1)) = (k - 1) - 1 + 1
        /\ \A i \in 1..((k - 1) - 1 + 1) : SubSeq(s, 1, k - 1)[i] = s[1 + i - 1]
    BY <1>1, SubSeqFacts
  <2>2. (k - 1) - 1 + 1 = k - 1 /\ \A i \in 1..k - 1 : 1 + i - 1 = i
    BY <1>1
  <2> QED BY <2>1, <2>2
<1>3. /\ u \in Seq(S) /\ Len(u) = k /\ u[k] = e
      /\ \A i \in 1..k - 1 : u[i] = s[i]
  <2> DEFINE w == SubSeq(s, 1, k - 1)
  <2>1. u = w \o <<e>> /\ w \in Seq(S) /\ Len(w) = k - 1 /\ \A i \in 1..k - 1 : w[i] = s[i]
    BY <1>2
  <2> HIDE DEF w, u
  <2>2. <<e>> \in Seq(S) /\ Len(<<e>>) = 1 /\ <<e>>[1] = e
    OBVIOUS
  <2>3. w \o <<e>> \in Seq(S) /\ Len(w \o <<e>>) = k
    BY <1>1, <2>1
  <2>4. \A i \in 1..k : (w \o <<e>>)[i] = IF i <= k - 1 THEN w[i] ELSE <<e>>[i - (k - 1)]
    BY <1>1, <2>1, <2>2
  <2>5. k - (k - 1) = 1 /\ ~(k <= k - 1) /\ k \in 1..k
    BY <1>1
  <2>6. (w \o <<e>>)[k] = e
    BY <2>2, <2>4, <2>5
  <2>7. \A i \in 1..k - 1 : i \in 1..k /\ i <= k - 1
    BY <1>1
  <2> QED BY <2>1, <2>3, <2>4, <2>6, <2>7
<1>4. /\ v \in Seq(S) /\ Len(v) = Len(s) - k + 1
      /\ \A i \in 1..Len(s) - k + 1 : v[i] = s[k + i - 1]
  BY <1>1, SubSeqFacts
<1>5. r = u \o v
  BY DEF InsertAt
<1> HIDE DEF r, u, v
<1>6. r \in Seq(S) /\ Len(r) = Len(s) + 1 /\ DOMAIN r = 1..Len(s) + 1
  <2>1. r \in Seq(S)
    BY <1>3, <1>4, <1>5
  <2>2. Len(u \o v) = Len(u) + Len(v)
    BY <1>3, <1>4
  <2>3. k + (Len(s) - k + 1) = Len(s) + 1
    BY <1>1
  <2>4. DOMAIN r = 1..Len(r)
    BY <2>1
  <2> QED BY <1>3, <1>4, <1>5, <2>1, <2>2, <2>3, <2>4
<1>7. \A i \in 1..Len(s) + 1 : r[i] = IF i <= k THEN u[i] ELSE v[i - k]
  BY <1>1, <1>3, <1>4, <1>5
<1>8. r[k] = e /\ k \in 1..Len(s) + 1
  BY <1>1, <1>3, <1>7
<1>9. ASSUME NEW i \in 1..Len(s)
      PROVE  at(i) \in 1..Len(s) + 1 /\ at(i) # k /\ r[at(i)] = s[i]
  <2>1. CASE i < k
    BY <1>1, <1>3, <1>7, <2>1
  <2>2. CASE ~(i < k)
    <3>1. i + 1 - k \in 1..Len(s) - k + 1 /\ ~(i + 1 <= k) /\ i + 1 \in 1..Len(s) + 1 /\ k + (i + 1 - k) - 1 = i
      BY <1>1, <2>2
    <3>2. r[i + 1] = v[i + 1 - k]
      BY <1>7, <3>1
    <3>3. v[i + 1 - k] = s[k + (i + 1 - k) - 1]
      BY <1>4, <3>1
    <3> QED BY <1>1, <2>2, <3>1, <3>2, <3>3
  <2> QED BY <2>1, <2>2
<1>10. \A j \in 1..Len(s) + 1 : j # k => \E i \in 1..Len(s) : at(i) = j
  <2> SUFFICES ASSUME NEW j \in 1..Len(s) + 1, j # k
               PROVE  \E i \in 1..Len(s) : at(i) = j
    OBVIOUS
  <2>1. CASE j < k
    BY <1>1, <2>1
  <2>2. CASE j > k
    <3>1. j - 1 \in 1..Len(s) /\ at(j - 1) = j
      BY <1>1, <2>2
    <3> QED BY <3>1
  <2> QED BY <1>1, <2>1, <2>2
<1>11. /\ \A i, h \in 1..Len(s) : h < i => at(h) < at(i)
       /\ \A h \in 1..Len(s) : h < k => at(h) < k
  BY <1>1
<1> HIDE DEF at
<1>12. ToSet(r) = ToSet(s) \cup {e}
  <2>1. ASSUME NEW x \in ToSet(r)
        PROVE  x \in ToSet(s) \cup {e}
    <3>1. PICK j \in 1..Len(s) + 1 : r[j] = x
      BY <1>6 DEF ToSet
    <3>2. j = k \/ \E i \in 1..Len(s) : at(i) = j
      BY <1>10
    <3> QED BY <1>1, <1>8, <1>9, <3>1, <3>2 DEF ToSet
  <2>2. ToSet(s) \subseteq ToSet(r)
    BY <1>1, <1>6, <1>9 DEF ToSet
  <2>3. e \in ToSet(r)
    BY <1>6, <1>8 DEF ToSet
  <2> QED BY <2>1, <2>2, <2>3
<1>13. ASSUME NEW x, NEW y, Ahead(s, x, y), y = e => \E h \in 1..k - 1 : s[h] = x,
              NEW j \in DOMAIN r, r[j] = y
       PROVE  \E h \in DOMAIN r : h < j /\ r[h] = x
  <2>1. CASE j = k
    <3>1. y = e
      BY <1>8, <1>13, <2>1
    <3>2. PICK h \in 1..k - 1 : s[h] = x
      BY <1>13, <3>1
    <3>3. h \in 1..Len(s) /\ h < k
      BY <1>1, <3>2
    <3>4. at(h) \in DOMAIN r /\ at(h) < j /\ r[at(h)] = x
      BY <1>6, <1>9, <1>11, <2>1, <3>2, <3>3
    <3> QED BY <3>4
  <2>2. CASE j # k
    <3>1. PICK i \in 1..Len(s) : at(i) = j
      BY <1>6, <1>10, <2>2
    <3>2. s[i] = y
      BY <1>9, <1>13, <3>1
    <3>3. PICK h \in 1..Len(s) : h < i /\ s[h] = x
      BY <1>1, <1>13, <3>2 DEF Ahead
    <3>4. at(h) \in DOMAIN r /\ at(h) < j /\ r[at(h)] = x
      BY <1>6, <1>9, <1>11, <3>1, <3>3
    <3> QED BY <3>4
  <2> QED BY <2>1, <2>2
<1>14. \A x, y : Ahead(s, x, y) /\ (y = e => \E h \in 1..k - 1 : s[h] = x) => Ahead(r, x, y)
  BY <1>13 DEF Ahead
<1> QED BY <1>6, <1>12, <1>14 DEF r

-----------------------------------------------------------------------------
(* What the two ways a list is written do.                                 *)

Items == [msg : Posts, temp : BOOLEAN]

LEMMA ItemFacts ==
  /\ \A m \in Posts : Item(m, TRUE) \in Items /\ Item(m, FALSE) \in Items
  /\ \A m : Item(m, TRUE).msg = m /\ Item(m, TRUE).temp
  /\ \A m, n : Item(m, TRUE) # Item(n, FALSE)
  /\ \A m, n : Item(m, TRUE) = Item(n, TRUE) => m = n
  /\ \A m, n : Item(m, FALSE) = Item(n, FALSE) => m = n
  /\ \A e \in Items : e.temp => e.msg \in Posts /\ e = Item(e.msg, TRUE)
  BY DEF Item, Items

\* The list a history makes.
Listed(c, n) == [i \in DOMAIN History(c, n) |-> Item(History(c, n)[i], FALSE)]

LEMMA HistoryFacts ==
  ASSUME NEW c, saved[c] \in Seq(Posts), OnlyOnce(saved[c]), NEW n \in Nat, n <= Len(saved[c])
  PROVE  /\ Listed(c, n) \in Seq(Items) /\ OnlyOnce(Listed(c, n))
         /\ \A m : Item(m, FALSE) \in ToSet(Listed(c, n)) <=> m \in Newest(c, n)
         /\ \A m : Item(m, TRUE) \notin ToSet(Listed(c, n))
         /\ Newest(c, n) \subseteq ToSet(saved[c])
         /\ \A x, y : Before(Listed(c, n), Item(x, FALSE), Item(y, FALSE)) => Before(saved[c], x, y)
<1> DEFINE s == saved[c]
           a == IF n > Limit THEN n - Limit + 1 ELSE 1
           h == SubSeq(s, a, n)
           r == [i \in DOMAIN h |-> Item(h[i], FALSE)]
<1>1. /\ a \in Nat /\ 1 <= a /\ a <= n + 1 /\ \A i \in 1..n : i + Limit > n <=> a <= i
      /\ DOMAIN s = 1..Len(s) /\ Len(s) \in Nat /\ s \in Seq(Posts) /\ n <= Len(s)
  BY ChatViewAssumption
<1>2. /\ Newest(c, n) = {s[k] : k \in {i \in 1..n : i + Limit > n}}
      /\ Listed(c, n) = r
  BY DEF Newest, Listed, History
<1> HIDE DEF a, s
<1>3. /\ h \in Seq(Posts) /\ Len(h) = n - a + 1
      /\ \A i \in 1..(n - a + 1) : h[i] = s[a + i - 1]
  BY <1>1, SubSeqFacts
<1> HIDE DEF h
<1>4. /\ DOMAIN h = 1..(n - a + 1)
      /\ \A i \in 1..(n - a + 1) : a + i - 1 \in 1..n /\ a + i - 1 \in DOMAIN s /\ a <= a + i - 1
  BY <1>1, <1>3
<1>5. r \in Seq(Items) /\ DOMAIN r = 1..(n - a + 1)
  <2>1. \A i \in DOMAIN h : h[i] \in Posts
    BY <1>3
  <2>2. n - a + 1 \in Nat
    BY <1>1
  <2>3. r \in [1..(n - a + 1) -> Items]
    BY <1>4, <2>1, ItemFacts
  <2>4. r \in Seq(Items)
    <3> DEFINE k == n - a + 1
    <3>1. k \in Nat /\ r \in [1..k -> Items]
      BY <2>2, <2>3
    <3> HIDE DEF k, r
    <3> QED BY <3>1
  <2> QED BY <2>3, <2>4
<1>6. \A i \in 1..(n - a + 1) : r[i] = Item(s[a + i - 1], FALSE)
  BY <1>3, <1>4
<1> HIDE DEF r
<1>7. \A i, j \in 1..(n - a + 1) : (i < j => a + i - 1 < a + j - 1) /\ (a + i - 1 = a + j - 1 => i = j)
  BY <1>1
<1>8. OnlyOnce(r)
  <2> SUFFICES ASSUME NEW i \in 1..(n - a + 1), NEW j \in 1..(n - a + 1), r[i] = r[j]
               PROVE  i = j
    BY <1>5 DEF OnlyOnce
  <2>0. Item(s[a + i - 1], FALSE) = Item(s[a + j - 1], FALSE)
    BY <1>6
  <2>1. s[a + i - 1] = s[a + j - 1]
    BY <2>0, ItemFacts
  <2>2. a + i - 1 = a + j - 1
    BY <1>4, <2>1 DEF OnlyOnce, s
  <2> QED BY <1>7, <2>2
<1>9. ASSUME NEW m, Item(m, TRUE) \in ToSet(r)
      PROVE  FALSE
  <2>1. PICK i \in 1..(n - a + 1) : r[i] = Item(m, TRUE)
    BY <1>5, <1>9 DEF ToSet
  <2>2. Item(s[a + i - 1], FALSE) = Item(m, TRUE)
    BY <1>6, <2>1
  <2> QED BY <2>2, ItemFacts
<1>10. ASSUME NEW m, Item(m, FALSE) \in ToSet(r)
       PROVE  m \in Newest(c, n)
  <2>1. PICK i \in 1..(n - a + 1) : r[i] = Item(m, FALSE)
    BY <1>5, <1>10 DEF ToSet
  <2>3. Item(s[a + i - 1], FALSE) = Item(m, FALSE)
    BY <1>6, <2>1
  <2>2. s[a + i - 1] = m
    BY <2>3, ItemFacts
  <2>4. a + i - 1 \in {j \in 1..n : j + Limit > n}
    BY <1>1, <1>4
  <2> QED BY <1>2, <2>2, <2>4
<1>11. ASSUME NEW m \in Newest(c, n)
       PROVE  Item(m, FALSE) \in ToSet(r) /\ m \in ToSet(s)
  <2>1. PICK k \in 1..n : k + Limit > n /\ s[k] = m
    BY <1>2
  <2>2. k - a + 1 \in 1..(n - a + 1) /\ a + (k - a + 1) - 1 = k /\ k \in DOMAIN s
    BY <1>1, <2>1
  <2>3. r[k - a + 1] = Item(m, FALSE)
    BY <1>6, <2>1, <2>2
  <2> QED BY <1>5, <2>1, <2>2, <2>3 DEF ToSet
<1>12. ASSUME NEW x, NEW y, Before(r, Item(x, FALSE), Item(y, FALSE))
       PROVE  Before(s, x, y)
  <2>1. PICK i, j \in 1..(n - a + 1) : i < j /\ r[i] = Item(x, FALSE) /\ r[j] = Item(y, FALSE)
    BY <1>5, <1>12 DEF Before
  <2>3. Item(s[a + i - 1], FALSE) = Item(x, FALSE) /\ Item(s[a + j - 1], FALSE) = Item(y, FALSE)
    BY <1>6, <2>1
  <2>2. s[a + i - 1] = x /\ s[a + j - 1] = y
    BY <2>3, ItemFacts
  <2> QED BY <1>4, <1>7, <2>1, <2>2 DEF Before
<1> QED BY <1>2, <1>5, <1>8, <1>9, <1>10, <1>11, <1>12 DEF s

\* Of the temporary messages X one with m's author and text goes, if there is one.
Drops(X, Y, m) ==
    \/ Y = X /\ \A q \in X : m \notin Mine \/ Body[q] # Body[m]
    \/ \E q \in X : m \in Mine /\ Body[q] = Body[m] /\ Y = X \ {q}

Temporary(s) == {x \in Posts : Item(x, TRUE) \in ToSet(s)}

\* What a frame of m does to a list: the message is there once, at the end if it
\* was not there.
LEMMA ListWithFacts ==
  ASSUME NEW s \in Seq(Items), OnlyOnce(s), NEW m \in Posts
  PROVE  /\ ListWith(s, m) \in Seq(Items) /\ OnlyOnce(ListWith(s, m))
         /\ \A x : Item(x, FALSE) \in ToSet(ListWith(s, m)) <=> x = m \/ Item(x, FALSE) \in ToSet(s)
         /\ \A x, y : Before(ListWith(s, m), x, y) =>
                          Before(s, x, y) \/ (y = Item(m, FALSE) /\ y \notin ToSet(s))
         /\ Drops(Temporary(s), Temporary(ListWith(s, m)), m)
<1> DEFINE I == {i \in 1..Len(s) : EchoOf(m, s[i])}
           t == IF I # {} THEN Min(I) ELSE 0
           kept == IF t = 0 THEN s ELSE RemoveAt(s, t)
           r == ListWith(s, m)
<1>1. /\ r = IF Item(m, FALSE) \in ToSet(kept) THEN kept ELSE Append(kept, Item(m, FALSE))
      /\ I \in SUBSET Nat /\ DOMAIN s = 1..Len(s) /\ 0 \notin I
  BY DEF ListWith, SelectInSeq
<1>2. /\ \A x, y : Before(kept, x, y) => Before(s, x, y)
      /\ kept \in Seq(Items) /\ OnlyOnce(kept)
      /\ \/ kept = s /\ I = {}
         \/ \E q \in Posts : /\ ToSet(kept) = ToSet(s) \ {Item(q, TRUE)} /\ Item(q, TRUE) \in ToSet(s)
                             /\ m \in Mine /\ Body[q] = Body[m]
  <2>1. CASE I = {}
    BY <2>1
  <2>2. CASE I # {}
    <3>1. t \in I /\ t # 0
      BY <1>1, <2>2, MinIsIn
    <3>5. t \in 1..Len(s) /\ EchoOf(m, s[t]) /\ kept = RemoveAt(s, t)
      BY <3>1
    <3>2. /\ t \in 1..Len(s) /\ EchoOf(m, s[t]) /\ kept = RemoveAt(s, t)
          /\ s[t] \in Items /\ s[t] \in ToSet(s)
      <4> HIDE DEF t, kept, I
      <4> QED BY <1>1, <3>5 DEF ToSet
    <3> DEFINE q == s[t].msg
    <3>3. s[t] = Item(q, TRUE) /\ q \in Posts /\ m \in Mine /\ Body[q] = Body[m]
      BY <3>2, ItemFacts DEF EchoOf
    <3> HIDE DEF q, kept, t, I
    <3>4. /\ kept \in Seq(Items) /\ OnlyOnce(kept) /\ ToSet(kept) = ToSet(s) \ {s[t]}
          /\ \A x, y : Before(kept, x, y) => Before(s, x, y)
      BY <3>2, RemoveFacts
    <3> QED BY <3>2, <3>3, <3>4
  <2> QED BY <2>1, <2>2
<1> HIDE DEF kept, t
<1>3. Item(m, FALSE) \in Items /\ \A q : Item(q, TRUE) # Item(m, FALSE)
  BY ItemFacts
<1>4. /\ r \in Seq(Items) /\ OnlyOnce(r) /\ ToSet(r) = ToSet(kept) \cup {Item(m, FALSE)}
      /\ \A x, y : Before(r, x, y) => Before(kept, x, y) \/ (y = Item(m, FALSE) /\ y \notin ToSet(kept))
  <2> DEFINE e == Item(m, FALSE)
  <2>1. e \in Items /\ kept \in Seq(Items) /\ OnlyOnce(kept)
    BY <1>2, <1>3
  <2>2. r = IF e \in ToSet(kept) THEN kept ELSE Append(kept, e)
    BY <1>1
  <2> HIDE DEF e, r
  <2>3. /\ Append(kept, e) \in Seq(Items) /\ ToSet(Append(kept, e)) = ToSet(kept) \cup {e}
        /\ e \notin ToSet(kept) => OnlyOnce(Append(kept, e))
        /\ \A x, y : Before(Append(kept, e), x, y) => Before(kept, x, y) \/ (y = e /\ x \in ToSet(kept))
    BY <2>1, AppendFacts
  <2>4. /\ r \in Seq(Items) /\ OnlyOnce(r) /\ ToSet(r) = ToSet(kept) \cup {e}
        /\ \A x, y : Before(r, x, y) => Before(kept, x, y) \/ (y = e /\ y \notin ToSet(kept))
    BY <2>1, <2>2, <2>3
  <2> QED BY <2>4 DEF e
<1> HIDE DEF r
<1>5. \A x : Item(x, FALSE) \in ToSet(kept) <=> Item(x, FALSE) \in ToSet(s)
  <2>1. CASE kept = s
    BY <2>1
  <2>2. ASSUME NEW q \in Posts, ToSet(kept) = ToSet(s) \ {Item(q, TRUE)}
        PROVE  \A x : Item(x, FALSE) \in ToSet(kept) <=> Item(x, FALSE) \in ToSet(s)
    BY <2>2, ItemFacts
  <2> QED BY <1>2, <2>1, <2>2
<1>6. \A x : Item(x, FALSE) \in ToSet(r) <=> x = m \/ Item(x, FALSE) \in ToSet(s)
  BY <1>4, <1>5, ItemFacts
<1>7. \A x, y : Before(r, x, y) => Before(s, x, y) \/ (y = Item(m, FALSE) /\ y \notin ToSet(s))
  BY <1>2, <1>4, <1>5
<1>8. \A x : Item(x, TRUE) \in ToSet(r) <=> Item(x, TRUE) \in ToSet(kept)
  BY <1>3, <1>4
<1>9. ASSUME I = {}, NEW x \in Posts, Item(x, TRUE) \in ToSet(s)
      PROVE  m \notin Mine \/ Body[x] # Body[m]
  <2>1. PICK i \in 1..Len(s) : s[i] = Item(x, TRUE)
    BY <1>1, <1>9 DEF ToSet
  <2>2. ~EchoOf(m, Item(x, TRUE))
    BY <1>9, <2>1
  <2> QED BY <2>2, ItemFacts DEF EchoOf
<1>10. ASSUME kept = s, I = {}
       PROVE  Drops(Temporary(s), Temporary(r), m)
  <2>1. Temporary(r) = Temporary(s)
    BY <1>8, <1>10 DEF Temporary
  <2>2. \A q \in Temporary(s) : m \notin Mine \/ Body[q] # Body[m]
    BY <1>9, <1>10 DEF Temporary
  <2> QED BY <2>1, <2>2 DEF Drops
<1>11. ASSUME NEW q \in Posts, ToSet(kept) = ToSet(s) \ {Item(q, TRUE)}, Item(q, TRUE) \in ToSet(s),
              m \in Mine, Body[q] = Body[m]
       PROVE  Drops(Temporary(s), Temporary(r), m)
  <2>1. Temporary(r) = Temporary(s) \ {q}
    BY <1>8, <1>11, ItemFacts DEF Temporary
  <2>2. q \in Temporary(s)
    BY <1>11 DEF Temporary
  <2> QED BY <1>11, <2>1, <2>2 DEF Drops
<1>12. Drops(Temporary(s), Temporary(r), m)
  BY <1>2, <1>10, <1>11
<1> QED BY <1>4, <1>6, <1>7, <1>12 DEF r

-----------------------------------------------------------------------------
(* The inductive invariant.                                                *)

Committed == {"saved", "published"}

\* How far a post is, and what it has by then.
StageInv ==
    /\ IsFiniteSet({p \in Posts : stage[p] # "new"})
    /\ \A p \in Posts :
         /\ stage[p] = "new" <=> into[p] = None
         /\ stage[p] = "sent" => p \in Mine
         /\ p \in failed => stage[p] # "new"

\* The table of a conversation holds what was committed to it, once.
SavedInv ==
    \A c \in Convs :
        /\ OnlyOnce(saved[c])
        /\ \A p \in Posts : p \in ToSet(saved[c]) <=> stage[p] \in Committed /\ into[p] = c

\* Frames are of posts that were published, or are being.
WireInv == \A m \in ToSet(wire) : stage[m] \in {"saved", "published"}

\* A list holds committed messages and the user's own temporary ones, of its own
\* conversation, each once.
ListInv ==
    \A c \in Convs :
        /\ OnlyOnce(list[c])
        /\ \A m \in Real(c) : into[m] = c /\ stage[m] \in Committed
        /\ \A m \in Temps(c) : into[m] = c /\ m \in Mine

Base == TypeOK /\ StageInv /\ SavedInv /\ WireInv /\ ListInv

-----------------------------------------------------------------------------
(* What the steps do to the lists.                                         *)

\* m is listed before n in c.
Above(c, m, n) == Before(list[c], Item(m, FALSE), Item(n, FALSE))

LEMMA ListTypes ==
  ASSUME TypeOK
  PROVE  /\ list \in [Convs -> Seq(Items)]
         /\ \A c \in Convs : list[c] \in Seq(Items) /\ saved[c] \in Seq(Posts)
         /\ \A c : Real(c) \subseteq Posts /\ Temps(c) \subseteq Posts
         /\ \A p \in Mine : p \in Posts
         /\ None \notin Convs
  BY ChatViewAssumption DEF TypeOK, Items, Real, Temps, Posts

\* The steps that leave every list as it is.
LEMMA SameLists ==
  ASSUME list' = list
  PROVE  \A c : /\ Real(c)' = Real(c) /\ Temps(c)' = Temps(c) /\ list'[c] = list[c]
                /\ \A m, n : Above(c, m, n)' <=> Above(c, m, n)
  BY DEF Real, Temps, Above

LEMMA SendList ==
  ASSUME Base, NEW p \in Mine, Send(p)
  PROVE  /\ active \in Convs /\ p \notin Temps(active)
         /\ list' \in [Convs -> Seq(Items)]
         /\ \A c \in Convs :
              /\ OnlyOnce(list'[c])
              /\ Real(c)' = Real(c)
              /\ Temps(c)' = IF c = active THEN Temps(c) \cup {p} ELSE Temps(c)
              /\ \A m, n : Above(c, m, n)' => Above(c, m, n)
<1> DEFINE e == Item(p, TRUE)
<1>1. /\ active \in Convs /\ list \in [Convs -> Seq(Items)] /\ list[active] \in Seq(Items)
      /\ list' = [list EXCEPT ![active] = Append(list[active], e)]
      /\ e \in Items
  BY ListTypes, ItemFacts DEF Base, TypeOK, Send
<1>2. stage[p] = "new" /\ into[p] = None /\ None \notin Convs
  BY ListTypes DEF Base, StageInv, Send
<1>3. p \notin Temps(active)
  BY <1>1, <1>2 DEF Base, ListInv
<1>8. p \in Posts /\ \A m : Item(m, FALSE) # e
  BY ItemFacts DEF Posts
<1>4. e \notin ToSet(list[active])
  BY <1>3, <1>8 DEF Temps
<1> HIDE DEF e
<1>5. /\ Append(list[active], e) \in Seq(Items) /\ OnlyOnce(Append(list[active], e))
      /\ ToSet(Append(list[active], e)) = ToSet(list[active]) \cup {e}
      /\ \A x, y : Before(Append(list[active], e), x, y) =>
                       Before(list[active], x, y) \/ (y = e /\ x \in ToSet(list[active]))
  BY <1>1, <1>4, AppendFacts DEF Base, ListInv
<1>6. list' \in [Convs -> Seq(Items)]
  BY <1>1, <1>5
<1>7. ASSUME NEW c \in Convs
      PROVE  /\ OnlyOnce(list'[c])
             /\ Real(c)' = Real(c)
             /\ Temps(c)' = IF c = active THEN Temps(c) \cup {p} ELSE Temps(c)
             /\ \A m, n : Above(c, m, n)' => Above(c, m, n)
  <2>1. CASE c # active
    BY <1>1, <2>1 DEF Base, ListInv, Real, Temps, Above
  <2>2. CASE c = active
    <3>1. list'[c] = Append(list[c], e)
      BY <1>1, <2>2
    <3>2. ToSet(list'[c]) = ToSet(list[c]) \cup {e} /\ OnlyOnce(list'[c])
      BY <1>5, <2>2, <3>1
    <3>3. Real(c)' = Real(c)
      BY <1>8, <3>2 DEF Real
    <3>4. Temps(c)' = Temps(c) \cup {p}
      BY <3>2, ItemFacts, ListTypes DEF Base, Temps, e
    <3>5. \A m, n : Above(c, m, n)' => Above(c, m, n)
      <4>1. \A x, y : Before(list'[c], x, y) => Before(list[c], x, y) \/ y = e
        BY <1>5, <2>2, <3>1
      <4>2. \A m, n : Above(c, m, n)' <=> Before(list'[c], Item(m, FALSE), Item(n, FALSE))
        BY DEF Above
      <4> QED BY <1>8, <4>1, <4>2 DEF Above
    <3> QED BY <2>2, <3>2, <3>3, <3>4, <3>5
  <2> QED BY <2>1, <2>2
<1> QED BY <1>1, <1>3, <1>6, <1>7

LEMMA SendFailedList ==
  ASSUME Base, NEW p \in Mine, SendFailed(p)
  PROVE  /\ list' \in [Convs -> Seq(Items)]
         /\ \A c \in Convs :
              /\ OnlyOnce(list'[c])
              /\ Real(c)' = Real(c)
              /\ Temps(c)' = IF c = active THEN Temps(c) \ {p} ELSE Temps(c)
              /\ \A m, n : Above(c, m, n)' => Above(c, m, n)
<1> DEFINE e == Item(p, TRUE)
<1>1. /\ list \in [Convs -> Seq(Items)] /\ active \in Convs \cup {None}
      /\ active # None => list' = [list EXCEPT ![active] = RemoveFirst(list[active], e)]
      /\ active = None => list' = list
      /\ None \notin Convs
  BY ListTypes DEF Base, TypeOK, SendFailed
<1>2. CASE active = None
  BY <1>1, <1>2, SameLists DEF Base, ListInv
<1>3. CASE active # None
  <2>1. active \in Convs /\ list[active] \in Seq(Items) /\ OnlyOnce(list[active])
    BY <1>1, <1>3 DEF Base, ListInv
  <2> HIDE DEF e
  <2>2. /\ RemoveFirst(list[active], e) \in Seq(Items) /\ OnlyOnce(RemoveFirst(list[active], e))
        /\ ToSet(RemoveFirst(list[active], e)) = ToSet(list[active]) \ {e}
        /\ \A x, y : Before(RemoveFirst(list[active], e), x, y) => Before(list[active], x, y)
    BY <2>1, RemoveFirstFacts
  <2>3. list' \in [Convs -> Seq(Items)]
    BY <1>1, <1>3, <2>1, <2>2
  <2>4. ASSUME NEW c \in Convs
        PROVE  /\ OnlyOnce(list'[c])
               /\ Real(c)' = Real(c)
               /\ Temps(c)' = IF c = active THEN Temps(c) \ {p} ELSE Temps(c)
               /\ \A m, n : Above(c, m, n)' => Above(c, m, n)
    <3>1. CASE c # active
      BY <1>1, <1>3, <3>1 DEF Base, ListInv, Real, Temps, Above
    <3>2. CASE c = active
      <4>1. list'[c] = RemoveFirst(list[c], e)
        BY <1>1, <1>3, <3>2
      <4>2. ToSet(list'[c]) = ToSet(list[c]) \ {e} /\ OnlyOnce(list'[c])
        BY <2>2, <3>2, <4>1
      <4>3. Real(c)' = Real(c)
        BY <4>2, ItemFacts DEF Real, e
      <4>4. Temps(c)' = Temps(c) \ {p}
        BY <4>2, ItemFacts DEF Temps, e
      <4>5. \A m, n : Above(c, m, n)' => Above(c, m, n)
        BY <2>2, <3>2, <4>1 DEF Above
      <4> QED BY <3>2, <4>2, <4>3, <4>4, <4>5
    <3> QED BY <3>1, <3>2
  <2> QED BY <2>3, <2>4
<1> QED BY <1>2, <1>3

\* The history of c is there.
LEMMA HistoryList ==
  ASSUME Base, NEW c \in Convs, NEW n \in Nat, n <= Len(saved[c]),
         list' = [list EXCEPT ![c] = Listed(c, n)]
  PROVE  /\ list' \in [Convs -> Seq(Items)]
         /\ Newest(c, n) \subseteq ToSet(saved[c])
         /\ OnlyOnce(list'[c]) /\ Real(c)' = Newest(c, n) /\ Temps(c)' = {}
         /\ \A x, y : Above(c, x, y)' => Before(saved[c], x, y)
         /\ \A d \in Convs \ {c} : /\ list'[d] = list[d]
                                   /\ Real(d)' = Real(d) /\ Temps(d)' = Temps(d)
                                   /\ \A x, y : Above(d, x, y)' <=> Above(d, x, y)
<1>1. /\ list \in [Convs -> Seq(Items)] /\ saved[c] \in Seq(Posts) /\ OnlyOnce(saved[c])
      /\ list'[c] = Listed(c, n)
  BY ListTypes DEF Base, SavedInv
<1>2. /\ Listed(c, n) \in Seq(Items) /\ OnlyOnce(Listed(c, n))
      /\ \A m : Item(m, FALSE) \in ToSet(Listed(c, n)) <=> m \in Newest(c, n)
      /\ \A m : Item(m, TRUE) \notin ToSet(Listed(c, n))
      /\ Newest(c, n) \subseteq ToSet(saved[c])
      /\ \A x, y : Before(Listed(c, n), Item(x, FALSE), Item(y, FALSE)) => Before(saved[c], x, y)
  BY <1>1, HistoryFacts
<1>3. list' \in [Convs -> Seq(Items)]
  BY <1>1, <1>2
<1>4. ToSet(saved[c]) \subseteq Posts
  BY <1>1 DEF ToSet
<1>5. Real(c)' = Newest(c, n)
  BY <1>1, <1>2, <1>4 DEF Real
<1>6. Temps(c)' = {}
  BY <1>1, <1>2 DEF Temps
<1>7. \A x, y : Above(c, x, y)' => Before(saved[c], x, y)
  BY <1>1, <1>2 DEF Above
<1>8. \A d \in Convs \ {c} : /\ list'[d] = list[d]
                             /\ Real(d)' = Real(d) /\ Temps(d)' = Temps(d)
                             /\ \A x, y : Above(d, x, y)' <=> Above(d, x, y)
  BY <1>1 DEF Real, Temps, Above
<1> QED BY <1>1, <1>2, <1>3, <1>5, <1>6, <1>7, <1>8

\* A frame is heard: its message is in the list, last if it is new there; one
\* temporary message of its text goes, if there is one.
LEMMA HeardPost ==
  ASSUME Base, wire # << >>
  PROVE  Head(wire) \in Posts /\ Head(wire) \in ToSet(wire) /\ into[Head(wire)] \in Convs
<1>1. wire \in Seq(Posts)
  BY DEF Base, TypeOK
<1>2. Head(wire) \in Posts /\ Head(wire) \in ToSet(wire)
  BY <1>1, TailFacts
<1>3. stage[Head(wire)] # "new"
  BY <1>2 DEF Base, WireInv
<1> QED BY <1>2, <1>3 DEF Base, StageInv, TypeOK

LEMMA HearList ==
  ASSUME Base, Hear, NEW m \in Posts, NEW k \in Convs, m = Head(wire), k = into[m]
  PROVE  /\ list' \in [Convs -> Seq(Items)]
         /\ OnlyOnce(list'[k]) /\ Real(k)' = Real(k) \cup {m}
         /\ \A x, y : Above(k, x, y)' => Above(k, x, y) \/ (y = m /\ m \notin Real(k))
         /\ Drops(Temps(k), Temps(k)', m)
         /\ \A d \in Convs \ {k} : /\ list'[d] = list[d]
                                   /\ Real(d)' = Real(d) /\ Temps(d)' = Temps(d)
                                   /\ \A x, y : Above(d, x, y)' <=> Above(d, x, y)
<1>4. /\ list \in [Convs -> Seq(Items)] /\ list[k] \in Seq(Items) /\ OnlyOnce(list[k])
      /\ list' = [list EXCEPT ![k] = ListWith(list[k], m)]
  BY ListTypes DEF Hear, Base, ListInv
<1> DEFINE r == ListWith(list[k], m)
<1>5. /\ r \in Seq(Items) /\ OnlyOnce(r)
      /\ \A x : Item(x, FALSE) \in ToSet(r) <=> x = m \/ Item(x, FALSE) \in ToSet(list[k])
      /\ \A x, y : Before(r, x, y) =>
                       Before(list[k], x, y) \/ (y = Item(m, FALSE) /\ y \notin ToSet(list[k]))
      /\ Drops(Temporary(list[k]), Temporary(r), m)
  BY <1>4, ListWithFacts
<1>6. list'[k] = r /\ list' \in [Convs -> Seq(Items)]
  BY <1>4, <1>5
<1> HIDE DEF r
<1>7. Real(k)' = Real(k) \cup {m}
  BY <1>5, <1>6 DEF Real
<1>8. ASSUME NEW x, NEW y, Before(r, Item(x, FALSE), Item(y, FALSE))
      PROVE  Above(k, x, y) \/ (y = m /\ m \notin Real(k))
  <2>1. CASE Before(list[k], Item(x, FALSE), Item(y, FALSE))
    BY <2>1 DEF Above
  <2>2. CASE Item(y, FALSE) = Item(m, FALSE) /\ Item(y, FALSE) \notin ToSet(list[k])
    BY <2>2, ItemFacts DEF Real
  <2> QED BY <1>5, <1>8, <2>1, <2>2
<1>9. \A x, y : Above(k, x, y)' => Above(k, x, y) \/ (y = m /\ m \notin Real(k))
  <2>1. \A x, y : Above(k, x, y)' <=> Before(list'[k], Item(x, FALSE), Item(y, FALSE))
    BY DEF Above
  <2> QED BY <1>6, <1>8, <2>1
<1>10. Drops(Temps(k), Temps(k)', m)
  <2>1. Temps(k) = Temporary(list[k]) /\ Temps(k)' = Temporary(r)
    BY <1>6 DEF Temps, Temporary
  <2> QED BY <1>5, <2>1
<1>11. \A d \in Convs \ {k} : /\ list'[d] = list[d]
                              /\ Real(d)' = Real(d) /\ Temps(d)' = Temps(d)
                              /\ \A x, y : Above(d, x, y)' <=> Above(d, x, y)
  BY <1>4 DEF Real, Temps, Above
<1> QED BY <1>5, <1>6, <1>7, <1>9, <1>10, <1>11

-----------------------------------------------------------------------------
(* The inductive invariant holds.                                          *)

LEMMA BaseInit == Init => Base
<1> SUFFICES ASSUME Init
             PROVE  Base
  OBVIOUS
<1>1. TypeOK
  BY EmptyFacts DEF Init, TypeOK
<1>2. {p \in Posts : stage[p] # "new"} = {}
  BY DEF Init
<1>3. StageInv
  BY <1>2, FS_EmptySet DEF Init, StageInv
<1>4. SavedInv /\ WireInv
  BY EmptyFacts DEF Init, SavedInv, WireInv, Committed
<1>5. ListInv
  BY EmptyFacts DEF Init, ListInv, Real, Temps
<1> QED BY <1>1, <1>3, <1>4, <1>5 DEF Base

\* Posts under way are of a conversation.
LEMMA Placed ==
  ASSUME Base, NEW p \in Posts, stage[p] # "new"
  PROVE  into[p] \in Convs
  BY DEF Base, StageInv, TypeOK

\* The frame that ends a post's publishing: after those before it, or past some
\* that overlap then names.
LEMMA PublishFacts ==
  ASSUME TypeOK, NEW p \in Posts, Publish(p)
  PROVE  /\ wire' \in Seq(Posts) /\ (wire' = wire \/ sock = into[p])
         /\ ToSet(wire) \subseteq ToSet(wire') /\ ToSet(wire') \subseteq ToSet(wire) \cup {p}
         /\ ToSet(wire') \cup gone' = ToSet(wire) \cup gone \cup {p}
         /\ overlap \subseteq overlap' /\ overlap' \subseteq Posts \X Posts
         /\ \A m, n : m \in ToSet(wire) /\ Ahead(wire, m, n) /\ <<m, n>> \notin overlap' =>
                          Ahead(wire', m, n)
<1>1. wire \in Seq(Posts) /\ overlap \subseteq Posts \X Posts
  BY DEF TypeOK
<1>2. CASE wire' = wire /\ gone' = gone \cup {p} /\ UNCHANGED overlap
  BY <1>1, <1>2
<1>3. ASSUME NEW i \in 1..Len(wire) + 1, wire' = InsertAt(wire, i, p), gone' = gone, sock = into[p],
             overlap' = overlap \cup {<<wire[j], p>> : j \in i..Len(wire)}
      PROVE  /\ wire' \in Seq(Posts) /\ ToSet(wire') = ToSet(wire) \cup {p}
             /\ overlap \subseteq overlap' /\ overlap' \subseteq Posts \X Posts
             /\ \A m, n : m \in ToSet(wire) /\ Ahead(wire, m, n) /\ <<m, n>> \notin overlap' =>
                              Ahead(wire', m, n)
  <2>1. Len(wire) \in Nat /\ i \in Nat /\ i >= 1 /\ DOMAIN wire = 1..Len(wire)
    BY <1>1
  <2>2. wire' \in Seq(Posts) /\ ToSet(wire') = ToSet(wire) \cup {p}
    BY <1>1, <1>3, InsertFacts
  <2>3. \A j \in i..Len(wire) : wire[j] \in Posts
    BY <1>1, <2>1
  <2>4. ASSUME NEW m, NEW n, m \in ToSet(wire), Ahead(wire, m, n), <<m, n>> \notin overlap'
        PROVE  Ahead(wire', m, n)
    <3>1. ASSUME n = p PROVE \E h \in 1..i - 1 : wire[h] = m
      <4>1. PICK h \in 1..Len(wire) : wire[h] = m
        BY <2>1, <2>4 DEF ToSet
      <4>2. ~(h >= i)
        BY <1>3, <2>1, <2>4, <3>1, <4>1
      <4> QED BY <2>1, <4>1, <4>2
    <3> QED BY <1>1, <1>3, <2>4, <3>1, InsertFacts
  <2>5. {<<wire[j], p>> : j \in i..Len(wire)} \subseteq Posts \X Posts
    BY <2>3
  <2>6. overlap \subseteq overlap' /\ overlap' \subseteq Posts \X Posts
    BY <1>1, <1>3, <2>5
  <2> QED BY <2>2, <2>4, <2>6
<1>4. \/ wire' = wire /\ gone' = gone \cup {p} /\ UNCHANGED overlap
      \/ /\ sock = into[p] /\ gone' = gone
         /\ \E i \in 1..Len(wire) + 1 :
               /\ wire' = InsertAt(wire, i, p)
               /\ overlap' = overlap \cup {<<wire[j], p>> : j \in i..Len(wire)}
  BY DEF Publish
<1> QED BY <1>2, <1>3, <1>4

LEMMA TypeStep == Base /\ [Next]_vars => TypeOK'
<1> SUFFICES ASSUME Base, [Next]_vars
             PROVE  TypeOK'
  OBVIOUS
<1> USE ListTypes DEF Base
<1>1. ASSUME NEW c \in Convs, Click(c)
      PROVE  TypeOK'
  BY <1>1 DEF Click, TypeOK, socket, server
<1>2. CASE Select
  <2>1. /\ fetch \in [conv : Convs, saw : Nat \cup {None}] /\ fetch # None
        /\ fetch' = [fetch EXCEPT !.saw = Len(saved[fetch.conv])] /\ saved' = saved
    BY <1>2 DEF Select, TypeOK, server
  <2>2. fetch.conv \in Convs /\ Len(saved[fetch.conv]) \in Nat
    BY <2>1
  <2>3. /\ fetch' \in [conv : Convs, saw : Nat \cup {None}]
        /\ fetch'.conv = fetch.conv /\ fetch'.saw = Len(saved[fetch.conv])
    BY <2>1, <2>2
  <2>4. fetch'.saw <= Len(saved'[fetch'.conv])
    BY <2>1, <2>2, <2>3
  <2> QED BY <1>2, <2>3, <2>4 DEF Select, TypeOK, socket, server
<1>3. CASE HistoryArrives
  <2>1. CASE UNCHANGED <<list, gone>>
    BY <1>3, <2>1 DEF HistoryArrives, TypeOK, socket, server
  <2>2. CASE ~UNCHANGED <<list, gone>>
    <3> DEFINE c == fetch.conv
               n == fetch.saw
    <3>1. /\ c \in Convs /\ n \in Nat /\ n <= Len(saved[c])
          /\ list' = [list EXCEPT ![c] = Listed(c, n)]
          /\ gone' = (gone \cup InView(c) \cup ToSet(saved[c])) \ Newest(c, n)
      BY <1>3, <2>2 DEF HistoryArrives, TypeOK, Listed
    <3> HIDE DEF c, n
    <3>2. list' \in [Convs -> Seq(Items)]
      BY <3>1, HistoryList
    <3>3. gone' \subseteq Posts
      <4>1. InView(c) \subseteq Posts
        BY DEF InView
      <4>2. ToSet(saved[c]) \subseteq Posts
        BY <3>1 DEF ToSet
      <4> QED BY <3>1, <4>1, <4>2 DEF TypeOK
    <3> QED BY <1>3, <3>2, <3>3 DEF HistoryArrives, TypeOK, socket, server, Items
  <2> QED BY <2>1, <2>2
<1>4. CASE Leave
  <2>1. gone' \subseteq Posts
    <3>1. \A c \in Convs : InView(c) \subseteq Posts
      BY DEF InView
    <3>2. ToSet(wire) \subseteq Posts
      BY DEF TypeOK, ToSet
    <3> QED BY <1>4, <3>1, <3>2 DEF Leave, TypeOK
  <2> QED BY <1>4, <2>1, EmptyFacts DEF Leave, TypeOK, server
<1>5. CASE Connect
  <2>1. gone' \subseteq Posts
    BY <1>5 DEF Connect, TypeOK, ToSet
  <2>2. wire' \in Seq(Posts) /\ \A m \in ToSet(wire') : into[m] = sock'
    BY <1>5, EmptyFacts DEF Connect
  <2> QED BY <1>5, <2>1, <2>2 DEF Connect, TypeOK, server, page
<1>6. CASE Hear
  <2>1. PICK m \in Posts, k \in Convs : m = Head(wire) /\ k = into[m]
    BY <1>6, HeardPost DEF Hear
  <2>2. list' \in [Convs -> Seq(Items)]
    BY <1>6, <2>1, HearList
  <2>3. wire' \in Seq(Posts) /\ ToSet(wire') \subseteq ToSet(wire)
    BY <1>6, TailFacts DEF Hear, TypeOK
  <2>4. gone' \subseteq Posts
    BY <1>6 DEF Hear, TypeOK, Own
  <2> QED BY <1>6, <2>2, <2>3, <2>4 DEF Hear, TypeOK, server, Items
<1>7. ASSUME NEW p \in Mine, Send(p)
      PROVE  TypeOK'
  <2>1. list' \in [Convs -> Seq(Items)] /\ active \in Convs
    BY <1>7, SendList
  <2>2. p \notin ToSet(wire)
    BY <1>7 DEF Send, WireInv
  <2>3. \A m \in ToSet(wire) : into'[m] = sock
    BY <1>7, <2>2 DEF Send, TypeOK
  <2> QED BY <1>7, <2>1, <2>3 DEF Send, TypeOK, socket, Items
<1>8. ASSUME NEW p \in Mine, SendFailed(p)
      PROVE  TypeOK'
  <2>1. list' \in [Convs -> Seq(Items)]
    BY <1>8, SendFailedList
  <2>2. stuck' \subseteq failed' /\ failed' \subseteq Mine
    <3>1. failed' = failed \cup {p} /\ stuck' \subseteq stuck \cup {p}
      BY <1>8 DEF SendFailed
    <3> QED BY <3>1 DEF TypeOK
  <2> QED BY <1>8, <2>1, <2>2 DEF SendFailed, TypeOK, socket, server, Items
<1>9. ASSUME NEW p \in Posts, NEW c \in Convs, Save(p, c)
      PROVE  TypeOK'
  <2>1. /\ Append(saved[c], p) \in Seq(Posts) /\ Len(Append(saved[c], p)) = Len(saved[c]) + 1
        /\ Len(saved[c]) \in Nat
    BY AppendFacts
  <2>2. saved' \in [Convs -> Seq(Posts)] /\ \A d \in Convs : Len(saved[d]) <= Len(saved'[d])
    BY <1>9, <2>1 DEF Save, TypeOK
  <2>3. p \notin ToSet(wire)
    BY <1>9 DEF Save, WireInv
  <2>4. \A m \in ToSet(wire) : into'[m] = sock
    BY <1>9, <2>3 DEF Save, TypeOK
  <2>5. overlap' \subseteq Posts \X Posts
    BY <1>9 DEF Save, TypeOK
  <2>6. fetch # None /\ fetch.saw # None => fetch.saw <= Len(saved'[fetch.conv])
    <3>1. ASSUME fetch # None, fetch.saw # None
          PROVE  fetch.saw <= Len(saved'[fetch.conv])
      <4>1. /\ fetch.conv \in Convs /\ fetch.saw \in Nat /\ fetch.saw <= Len(saved[fetch.conv])
        BY <3>1 DEF TypeOK
      <4>2. Len(saved[fetch.conv]) <= Len(saved'[fetch.conv])
        BY <2>2, <4>1
      <4>3. Len(saved[fetch.conv]) \in Nat /\ Len(saved'[fetch.conv]) \in Nat
        BY <2>2, <4>1
      <4> QED BY <4>1, <4>2, <4>3
    <3> QED BY <3>1
  <2> QED BY <1>9, <2>2, <2>4, <2>5, <2>6 DEF Save, TypeOK, socket, page
<1>10. ASSUME NEW p \in Posts, Publish(p)
       PROVE  TypeOK'
  <2>1. /\ stage' \in [Posts -> {"new", "sent", "saved", "published"}]
        /\ gone' \subseteq Posts
    BY <1>10 DEF Publish, TypeOK
  <2>2. /\ wire' \in Seq(Posts) /\ \A m \in ToSet(wire') : into[m] = sock
        /\ overlap' \subseteq Posts \X Posts
    BY <1>10, PublishFacts DEF TypeOK
  <2>3. UNCHANGED <<page, sock, into, saved>>
    BY <1>10 DEF Publish
  <2> QED BY <2>1, <2>2, <2>3 DEF TypeOK, page
<1>11. ASSUME NEW p \in Posts, Stray(p)
       PROVE  TypeOK'
  <2>1. wire' \in Seq(Posts) /\ ToSet(wire') = ToSet(wire) \cup {p}
    BY <1>11, AppendFacts DEF Stray, TypeOK
  <2>2. sock = into[p] /\ UNCHANGED <<page, sock, server, gone>>
    BY <1>11 DEF Stray
  <2> QED BY <2>1, <2>2 DEF TypeOK, page, server
<1>12. CASE UNCHANGED vars
  BY <1>12 DEF vars, page, socket, server, TypeOK
<1> QED BY <1>1, <1>2, <1>3, <1>4, <1>5, <1>6, <1>7, <1>8, <1>9, <1>10, <1>11, <1>12 DEF Next

\* What a step may do to the stages: a post that is on its way stays where it is.
LEMMA StageStep == Base /\ [Next]_vars => StageInv'
<1> SUFFICES ASSUME Base, [Next]_vars
             PROVE  StageInv'
  OBVIOUS
<1> USE ListTypes DEF Base
<1> DEFINE N == {q \in Posts : stage[q] # "new"}
           same == UNCHANGED <<stage, into>> /\ failed' \subseteq failed
<1>1. IsFiniteSet(N)
  BY DEF StageInv
<1>2. CASE same
  <2>1. {q \in Posts : stage'[q] # "new"} = N
    BY <1>2
  <2> QED BY <1>1, <1>2, <2>1 DEF StageInv
<1>3. ASSUME NEW p \in Posts, NEW t \in {"sent", "saved", "published"}, NEW c \in Convs,
             stage' = [stage EXCEPT ![p] = t], into' = [into EXCEPT ![p] = c],
             failed' = failed, t = "sent" => p \in Mine
      PROVE  StageInv'
  <2> DEFINE M == {q \in Posts : stage'[q] # "new"}
  <2>1. M = N \cup {p} /\ stage \in [Posts -> {"new", "sent", "saved", "published"}]
                       /\ into \in [Posts -> Convs \cup {None}]
    BY <1>3 DEF TypeOK
  <2>2. IsFiniteSet(N \cup {p})
    <3> HIDE DEF N
    <3> QED BY <1>1, FS_AddElement
  <2>3. IsFiniteSet(M)
    BY <2>1, <2>2
  <2>4. \A q \in Posts : /\ stage'[q] = "new" <=> into'[q] = None
                         /\ stage'[q] = "sent" => q \in Mine
                         /\ q \in failed' => stage'[q] # "new"
    BY <1>3, <2>1 DEF StageInv
  <2> QED BY <2>3, <2>4 DEF StageInv
<1>4. ASSUME NEW p \in Mine, SendFailed(p)
      PROVE  StageInv'
  <2>1. UNCHANGED <<stage, into>> /\ failed' = failed \cup {p} /\ stage[p] # "new"
    BY <1>4 DEF SendFailed, server
  <2>2. {q \in Posts : stage'[q] # "new"} = N
    BY <2>1
  <2> QED BY <1>1, <2>1, <2>2 DEF StageInv
<1>5. ASSUME NEW p \in Mine, Send(p)
      PROVE  StageInv'
  BY <1>3, <1>5, SendList DEF Send
<1>6. ASSUME NEW p \in Posts, NEW c \in Convs, Save(p, c)
      PROVE  StageInv'
  BY <1>3, <1>6 DEF Save, page
<1>7. ASSUME NEW p \in Posts, Publish(p)
      PROVE  StageInv'
  <2>1. into[p] \in Convs
    BY <1>7, Placed DEF Publish
  <2>2. into' = [into EXCEPT ![p] = into[p]]
    BY <1>7 DEF Publish, TypeOK
  <2> QED BY <1>3, <1>7, <2>1, <2>2 DEF Publish, page
<1>8. CASE \/ \E p \in Posts : Stray(p)
           \/ \E c \in Convs : Click(c)
           \/ Select \/ HistoryArrives \/ Leave \/ Connect \/ Hear \/ UNCHANGED vars
  BY <1>2, <1>8 DEF Stray, Click, Select, HistoryArrives, Leave, Connect, Hear, vars, page, server
<1> QED BY <1>4, <1>5, <1>6, <1>7, <1>8 DEF Next

LEMMA SavedStep == Base /\ [Next]_vars => SavedInv'
<1> SUFFICES ASSUME Base, [Next]_vars
             PROVE  SavedInv'
  OBVIOUS
<1> USE ListTypes DEF Base
<1>1. CASE UNCHANGED <<stage, into, saved>>
  BY <1>1 DEF SavedInv
<1>2. ASSUME NEW p \in Mine, Send(p)
      PROVE  SavedInv'
  <2>1. saved' = saved /\ stage[p] = "new" /\ stage'[p] = "sent"
    BY <1>2 DEF Send, TypeOK
  <2>2. \A q \in Posts \ {p} : stage'[q] = stage[q] /\ into'[q] = into[q]
    BY <1>2 DEF Send, TypeOK
  <2> QED BY <2>1, <2>2 DEF SavedInv, Committed
<1>3. ASSUME NEW p \in Posts, NEW c \in Convs, Save(p, c)
      PROVE  SavedInv'
  <2>1. /\ saved' = [saved EXCEPT ![c] = Append(saved[c], p)]
        /\ stage[p] \in {"new", "sent"} /\ stage'[p] = "saved" /\ into'[p] = c
    BY <1>3 DEF Save, TypeOK
  <2>2. \A q \in Posts \ {p} : stage'[q] = stage[q] /\ into'[q] = into[q]
    BY <1>3 DEF Save, TypeOK
  <2>3. \A d \in Convs : p \notin ToSet(saved[d])
    BY <2>1 DEF SavedInv, Committed
  <2>4. /\ ToSet(Append(saved[c], p)) = ToSet(saved[c]) \cup {p}
        /\ OnlyOnce(Append(saved[c], p))
    BY <2>3, AppendFacts DEF SavedInv
  <2>5. ASSUME NEW d \in Convs
        PROVE  /\ OnlyOnce(saved'[d])
               /\ \A q \in Posts : q \in ToSet(saved'[d]) <=> stage'[q] \in Committed /\ into'[q] = d
    <3>1. CASE d = c
      <4>1. saved'[d] = Append(saved[c], p)
        BY <2>1, <3>1 DEF TypeOK
      <4>2. p \in ToSet(saved'[d]) /\ stage'[p] \in Committed /\ into'[p] = d
        BY <2>1, <2>4, <3>1, <4>1 DEF Committed
      <4>3. \A q \in Posts \ {p} : q \in ToSet(saved'[d]) <=> q \in ToSet(saved[d])
        BY <2>4, <3>1, <4>1
      <4> QED BY <2>2, <2>4, <4>1, <4>2, <4>3 DEF SavedInv
    <3>2. CASE d # c
      <4>1. saved'[d] = saved[d]
        BY <2>1, <3>2 DEF TypeOK
      <4> QED BY <2>1, <2>2, <2>3, <3>2, <4>1 DEF SavedInv
    <3> QED BY <3>1, <3>2
  <2> QED BY <2>5 DEF SavedInv
<1>4. ASSUME NEW p \in Posts, Publish(p) \/ Stray(p)
      PROVE  SavedInv'
  <2>1. /\ UNCHANGED <<saved, into>> /\ stage[p] \in Committed /\ stage'[p] \in Committed
        /\ \A q \in Posts \ {p} : stage'[q] = stage[q]
    BY <1>4 DEF Publish, Stray, TypeOK, Committed, server
  <2> QED BY <2>1 DEF SavedInv
<1>5. CASE \/ \E c \in Convs : Click(c)
           \/ \E p \in Mine : SendFailed(p)
           \/ Select \/ HistoryArrives \/ Leave \/ Connect \/ Hear \/ UNCHANGED vars
  BY <1>1, <1>5 DEF Click, SendFailed, Select, HistoryArrives, Leave, Connect, Hear, vars, server
<1> QED BY <1>2, <1>3, <1>4, <1>5 DEF Next

LEMMA WireStep == Base /\ [Next]_vars => WireInv'
<1> SUFFICES ASSUME Base, [Next]_vars
             PROVE  WireInv'
  OBVIOUS
<1> USE ListTypes DEF Base
<1>1. CASE ToSet(wire') \subseteq ToSet(wire) /\ stage' = stage
  BY <1>1 DEF WireInv
<1>2. ASSUME NEW p \in Posts, stage[p] \in {"new", "sent"}, wire' = wire,
             \A q \in Posts \ {p} : stage'[q] = stage[q]
      PROVE  WireInv'
  <2>1. p \notin ToSet(wire)
    BY <1>2 DEF WireInv
  <2>2. ToSet(wire) \subseteq Posts
    BY DEF TypeOK, ToSet
  <2> QED BY <1>2, <2>1, <2>2 DEF WireInv
<1>3. ASSUME NEW p \in Posts, ToSet(wire') \subseteq ToSet(wire) \cup {p},
             \A q \in Posts \ {p} : stage'[q] = stage[q], stage'[p] \in {"saved", "published"}
      PROVE  WireInv'
  <2>1. ToSet(wire) \subseteq Posts
    BY DEF TypeOK, ToSet
  <2> QED BY <1>3, <2>1 DEF WireInv
<1>4. ASSUME NEW p \in Mine, Send(p)
      PROVE  WireInv'
  BY <1>2, <1>4 DEF Send, TypeOK, socket
<1>5. ASSUME NEW p \in Posts, NEW c \in Convs, Save(p, c)
      PROVE  WireInv'
  BY <1>2, <1>5 DEF Save, TypeOK, socket
<1>6. ASSUME NEW p \in Posts, Publish(p)
      PROVE  WireInv'
  <2>1. ToSet(wire') \subseteq ToSet(wire) \cup {p}
    BY <1>6, PublishFacts
  <2>2. stage'[p] = "published" /\ \A q \in Posts \ {p} : stage'[q] = stage[q]
    BY <1>6 DEF Publish, TypeOK
  <2> QED BY <1>3, <2>1, <2>2
<1>7. ASSUME NEW p \in Posts, Stray(p)
      PROVE  WireInv'
  <2>1. ToSet(wire') \subseteq ToSet(wire) \cup {p}
    BY <1>7, AppendFacts DEF Stray, TypeOK
  <2>2. stage'[p] = "saved" /\ \A q \in Posts \ {p} : stage'[q] = stage[q]
    BY <1>7 DEF Stray, server
  <2> QED BY <1>3, <2>1, <2>2
<1>8. CASE Hear
  <2>1. ToSet(wire') \subseteq ToSet(wire)
    BY <1>8, TailFacts DEF Hear, TypeOK
  <2> QED BY <1>1, <1>8, <2>1 DEF Hear, server
<1>9. CASE Leave \/ Connect
  <2>1. ToSet(wire') = {}
    BY <1>9, EmptyFacts DEF Leave, Connect
  <2> QED BY <1>1, <1>9, <2>1 DEF Leave, Connect, server
<1>10. CASE \/ \E c \in Convs : Click(c)
            \/ \E p \in Mine : SendFailed(p)
            \/ Select \/ HistoryArrives \/ UNCHANGED vars
  BY <1>1, <1>10 DEF Click, SendFailed, Select, HistoryArrives, vars, server, socket
<1> QED BY <1>4, <1>5, <1>6, <1>7, <1>8, <1>9, <1>10 DEF Next

LEMMA ListStep == Base /\ [Next]_vars => ListInv'
<1> SUFFICES ASSUME Base, [Next]_vars
             PROVE  ListInv'
  OBVIOUS
<1> USE ListTypes DEF Base
<1> DEFINE Good(d) == /\ OnlyOnce(list'[d])
                      /\ \A m \in Real(d)' : into'[m] = d /\ stage'[m] \in Committed
                      /\ \A m \in Temps(d)' : into'[m] = d /\ m \in Mine
\* Steps that leave the lists and put no listed post elsewhere.
<1>1. ASSUME list' = list,
             \A m \in Posts, d \in Convs :
                 /\ into[m] = d => into'[m] = d
                 /\ stage[m] \in Committed => stage'[m] \in Committed
      PROVE  ListInv'
  <2>1. \A d \in Convs : Real(d)' = Real(d) /\ Temps(d)' = Temps(d) /\ list'[d] = list[d]
    BY <1>1, SameLists
  <2> QED BY <1>1, <2>1 DEF ListInv
<1>2. ASSUME UNCHANGED <<into, stage>>,
             \A d \in Convs : /\ OnlyOnce(list'[d]) /\ Real(d)' \subseteq Real(d)
                              /\ Temps(d)' \subseteq Temps(d)
      PROVE  ListInv'
  BY <1>2 DEF ListInv
<1>3. ASSUME NEW p \in Mine, Send(p)
      PROVE  ListInv'
  <2>1. /\ stage[p] = "new" /\ into[p] = None /\ into'[p] = active /\ active \in Convs
        /\ \A q \in Posts \ {p} : stage'[q] = stage[q] /\ into'[q] = into[q]
    BY <1>3, SendList DEF Send, TypeOK, StageInv
  <2>2. ASSUME NEW d \in Convs
        PROVE  Good(d)
    <3>1. OnlyOnce(list'[d]) /\ Real(d)' = Real(d) /\ Temps(d)' = IF d = active THEN Temps(d) \cup {p} ELSE Temps(d)
      BY <1>3, SendList
    <3>2. p \notin Real(d) /\ p \notin Temps(d)
      BY <2>1 DEF ListInv
    <3>3. \A m \in Real(d)' : into'[m] = d /\ stage'[m] \in Committed
      BY <2>1, <3>1, <3>2 DEF ListInv
    <3>4. \A m \in Temps(d)' : into'[m] = d /\ m \in Mine
      BY <2>1, <3>1, <3>2 DEF ListInv
    <3> QED BY <3>1, <3>3, <3>4
  <2> QED BY <2>2 DEF ListInv
<1>4. ASSUME NEW p \in Mine, SendFailed(p)
      PROVE  ListInv'
  BY <1>2, <1>4, SendFailedList DEF SendFailed, server
<1>5. ASSUME NEW p \in Posts, NEW c \in Convs, Save(p, c)
      PROVE  ListInv'
  <2>1. list' = list /\ stage'[p] = "saved" /\ (into[p] = None \/ into[p] = c) /\ into'[p] = c
    BY <1>5 DEF Save, TypeOK, page, StageInv
  <2>2. \A q \in Posts \ {p} : stage'[q] = stage[q] /\ into'[q] = into[q]
    BY <1>5 DEF Save, TypeOK
  <2> QED BY <1>1, <2>1, <2>2 DEF Committed
<1>6. ASSUME NEW p \in Posts, Publish(p) \/ Stray(p)
      PROVE  ListInv'
  <2>1. list' = list /\ into' = into /\ stage'[p] \in Committed
    BY <1>6 DEF Publish, Stray, TypeOK, page, server, Committed
  <2>2. \A q \in Posts \ {p} : stage'[q] = stage[q]
    BY <1>6 DEF Publish, Stray, TypeOK, server
  <2> QED BY <1>1, <2>1, <2>2
<1>7. CASE HistoryArrives
  <2>1. CASE list' = list
    BY <1>1, <1>7, <2>1 DEF HistoryArrives, server
  <2>2. CASE list' # list
    <3>1. PICK c \in Convs, n \in Nat : n <= Len(saved[c]) /\ list' = [list EXCEPT ![c] = Listed(c, n)]
      <4>1. /\ fetch.conv \in Convs /\ fetch.saw \in Nat /\ fetch.saw <= Len(saved[fetch.conv])
            /\ list' = [list EXCEPT ![fetch.conv] = Listed(fetch.conv, fetch.saw)]
        BY <1>7, <2>2 DEF HistoryArrives, TypeOK, Listed
      <4> QED BY <4>1
    <3>2. /\ Newest(c, n) \subseteq ToSet(saved[c]) /\ OnlyOnce(list'[c])
          /\ Real(c)' = Newest(c, n) /\ Temps(c)' = {}
          /\ \A d \in Convs \ {c} : list'[d] = list[d] /\ Real(d)' = Real(d) /\ Temps(d)' = Temps(d)
      BY <3>1, HistoryList
    <3>3. UNCHANGED <<stage, into>>
      BY <1>7 DEF HistoryArrives, server
    <3>4. \A m \in Newest(c, n) : m \in Posts /\ into[m] = c /\ stage[m] \in Committed
      BY <3>2 DEF SavedInv, ToSet
    <3>5. ASSUME NEW d \in Convs
          PROVE  Good(d)
      <4>1. CASE d = c
        BY <3>2, <3>3, <3>4, <4>1
      <4>2. CASE d # c
        BY <3>2, <3>3, <4>2 DEF ListInv
      <4> QED BY <4>1, <4>2
    <3> QED BY <3>5 DEF ListInv
  <2> QED BY <2>1, <2>2
<1>8. CASE Leave
  <2>1. \A d \in Convs : OnlyOnce(list'[d]) /\ Real(d)' = {} /\ Temps(d)' = {}
    BY <1>8, EmptyFacts DEF Leave, Real, Temps
  <2> QED BY <2>1 DEF ListInv
<1>9. CASE Hear
  <2>1. PICK m \in Posts, k \in Convs : m = Head(wire) /\ k = into[m] /\ m \in ToSet(wire)
    BY <1>9, HeardPost DEF Hear
  <2>2. /\ OnlyOnce(list'[k]) /\ Real(k)' = Real(k) \cup {m} /\ Drops(Temps(k), Temps(k)', m)
        /\ \A d \in Convs \ {k} : list'[d] = list[d] /\ Real(d)' = Real(d) /\ Temps(d)' = Temps(d)
    BY <1>9, <2>1, HearList
  <2>5. Temps(k)' \subseteq Temps(k)
    BY <2>2 DEF Drops
  <2>3. UNCHANGED <<stage, into>> /\ stage[m] \in Committed
    BY <1>9, <2>1 DEF Hear, server, WireInv, Committed
  <2>4. ASSUME NEW d \in Convs
        PROVE  Good(d)
    <3>1. CASE d = k
      BY <2>1, <2>2, <2>3, <2>5, <3>1 DEF ListInv
    <3>2. CASE d # k
      BY <2>2, <2>3, <3>2 DEF ListInv
    <3> QED BY <3>1, <3>2
  <2> QED BY <2>4 DEF ListInv
<1>10. CASE \/ \E c \in Convs : Click(c)
            \/ Select \/ Connect \/ UNCHANGED vars
  BY <1>1, <1>10 DEF Click, Select, Connect, vars, server, page
<1> QED BY <1>3, <1>4, <1>5, <1>6, <1>7, <1>8, <1>9, <1>10 DEF Next

LEMMA BaseStep == Base /\ [Next]_vars => Base'
  BY TypeStep, StageStep, SavedStep, WireStep, ListStep DEF Base

LEMMA ViewBase == Spec => []Base
  BY BaseInit, BaseStep, PTL DEF Spec

\* The type invariant holds in every instance.
THEOREM TypeCorrect == Spec => []TypeOK
<1>1. Base => TypeOK
  BY DEF Base
<1> QED BY <1>1, ViewBase, PTL

\* A list holds a message at most once, and only what was committed to its own
\* conversation, in every instance: whatever frames, histories and answers come,
\* in any order (script.js:449, 743-761).
THEOREM OnceCorrect == Spec => []NoMessageTwice
<1>1. ASSUME Base
      PROVE  NoMessageTwice
  <2>1. ASSUME NEW c \in Convs, NEW m \in Real(c)
        PROVE  into[m] = c /\ m \in ToSet(saved[c])
    BY <1>1, ListTypes DEF Base, ListInv, SavedInv
  <2>2. \A c \in Convs : OnlyOnce(list[c])
    BY <1>1 DEF Base, ListInv
  <2> QED BY <2>1, <2>2 DEF NoMessageTwice, OnlyOnce
<1> QED BY <1>1, ViewBase, PTL

-----------------------------------------------------------------------------
(* Published messages.                                                     *)

\* HistoryArrives either changes no list, or puts the newest rows in one.
LEMMA HistoryCases ==
  ASSUME Base, HistoryArrives
  PROVE  /\ UNCHANGED <<stage, into, saved, overlap, wire, failed, stuck>>
         /\ \/ UNCHANGED <<list, gone>>
            \/ \E c \in Convs, n \in Nat :
                 /\ n <= Len(saved[c]) /\ list' = [list EXCEPT ![c] = Listed(c, n)]
                 /\ gone' = (gone \cup InView(c) \cup ToSet(saved[c])) \ Newest(c, n)
<1>1. UNCHANGED <<stage, into, saved, overlap, wire, failed, stuck>>
  BY DEF HistoryArrives, server, socket
<1>2. CASE ~UNCHANGED <<list, gone>>
  <2>1. /\ fetch.conv \in Convs /\ fetch.saw \in Nat /\ fetch.saw <= Len(saved[fetch.conv])
        /\ list' = [list EXCEPT ![fetch.conv] = Listed(fetch.conv, fetch.saw)]
        /\ gone' = (gone \cup InView(fetch.conv) \cup ToSet(saved[fetch.conv])) \ Newest(fetch.conv, fetch.saw)
    BY <1>2 DEF HistoryArrives, Base, TypeOK, Listed
  <2> QED BY <1>1, <2>1
<1> QED BY <1>1, <1>2

LEMMA MissingStep == Base /\ MissingOnlyInGap /\ [Next]_vars => MissingOnlyInGap'
<1> USE ListTypes DEF Base
<1> SUFFICES ASSUME Base, MissingOnlyInGap, [Next]_vars
             PROVE  MissingOnlyInGap'
  OBVIOUS
<1> SUFFICES ASSUME NEW m \in Posts, NEW k \in Convs, stage'[m] = "published", k = into'[m]
             PROVE  m \in Real(k)' \cup ToSet(wire') \cup gone'
  <2>1. \A m \in Posts : stage'[m] = "published" => into'[m] \in Convs
    <3>1. TypeOK' /\ StageInv'
      BY TypeStep, StageStep
    <3>2. \A m \in Posts : into'[m] \in Convs \cup {None}
      BY <3>1 DEF TypeOK
    <3>3. \A m \in Posts : stage'[m] = "new" <=> into'[m] = None
      BY <3>1 DEF StageInv
    <3> QED BY <3>2, <3>3
  <2> QED BY <2>1 DEF MissingOnlyInGap, Real
\* What m was in before.
<1>1. ASSUME stage[m] = "published", into[m] = k
      PROVE  m \in Real(k) \cup ToSet(wire) \cup gone
  BY <1>1 DEF MissingOnlyInGap
<1>2. CASE /\ stage[m] = "published" /\ into[m] = k /\ Real(k) \subseteq Real(k)'
           /\ ToSet(wire) \cup gone \subseteq ToSet(wire') \cup gone'
  BY <1>1, <1>2
<1>3. CASE HistoryArrives
  <2>1. UNCHANGED <<stage, into, wire>>
    BY <1>3, HistoryCases
  <2>2. CASE UNCHANGED <<list, gone>>
    BY <1>1, <2>1, <2>2, SameLists
  <2>3. ASSUME NEW c \in Convs, NEW n \in Nat,
               n <= Len(saved[c]), list' = [list EXCEPT ![c] = Listed(c, n)],
               gone' = (gone \cup InView(c) \cup ToSet(saved[c])) \ Newest(c, n)
        PROVE  m \in Real(k)' \cup ToSet(wire') \cup gone'
    <3>1. /\ Newest(c, n) \subseteq ToSet(saved[c]) /\ Real(c)' = Newest(c, n)
          /\ \A d \in Convs \ {c} : Real(d)' = Real(d)
      BY <2>3, HistoryList
    <3>2. m \in ToSet(saved[k]) /\ \A d \in Convs \ {k} : m \notin ToSet(saved[d])
      BY <2>1 DEF SavedInv, Committed
    <3>3. CASE k = c
      BY <2>3, <3>1, <3>2, <3>3
    <3>4. CASE k # c
      BY <1>1, <2>1, <2>3, <3>1, <3>2, <3>4
    <3> QED BY <3>3, <3>4
  <2> QED BY <1>3, <2>2, <2>3, HistoryCases
<1>4. CASE Leave
  <2>1. ToSet(wire) \cup Real(k) \cup gone \subseteq gone' /\ stage' = stage /\ into' = into
    BY <1>4 DEF Leave, InView, server
  <2> QED BY <1>1, <2>1
<1>5. CASE Connect
  <2>1. ToSet(wire) \cup gone \subseteq gone' /\ UNCHANGED <<stage, into, list>>
    BY <1>5 DEF Connect, server, page
  <2> QED BY <1>1, <2>1, SameLists
<1>6. CASE Hear
  <2>1. PICK h \in Posts, c \in Convs : h = Head(wire) /\ c = into[h]
    BY <1>6, HeardPost DEF Hear
  <2>2. /\ Real(c)' = Real(c) \cup {h}
        /\ \A d \in Convs \ {c} : Real(d)' = Real(d)
    BY <1>6, <2>1, HearList
  <2>3. /\ UNCHANGED <<stage, into>> /\ gone \subseteq gone'
        /\ ToSet(wire) = ToSet(wire') \cup {h}
    BY <1>6, <2>1, TailFacts DEF Hear, server, TypeOK
  <2>4. Real(k) \subseteq Real(k)'
    BY <2>2
  <2>5. h = m => m \in Real(k)'
    BY <2>1, <2>2, <2>3
  <2> QED BY <1>1, <2>3, <2>4, <2>5
<1>7. ASSUME NEW p \in Mine, Send(p)
      PROVE  m \in Real(k)' \cup ToSet(wire') \cup gone'
  <2>1. m # p /\ stage'[m] = stage[m] /\ into'[m] = into[m]
    BY <1>7 DEF Send, TypeOK
  <2> QED BY <1>2, <1>7, <2>1, SendList DEF Send, socket
<1>8. ASSUME NEW p \in Mine, SendFailed(p)
      PROVE  m \in Real(k)' \cup ToSet(wire') \cup gone'
  BY <1>2, <1>8, SendFailedList DEF SendFailed, socket, server
<1>9. ASSUME NEW p \in Posts, NEW c \in Convs, Save(p, c)
      PROVE  m \in Real(k)' \cup ToSet(wire') \cup gone'
  <2>1. m # p /\ stage'[m] = stage[m] /\ into'[m] = into[m] /\ list' = list
    BY <1>9 DEF Save, TypeOK, page
  <2> QED BY <1>2, <1>9, <2>1, SameLists DEF Save, socket
<1>10. ASSUME NEW p \in Posts, Publish(p)
       PROVE  m \in Real(k)' \cup ToSet(wire') \cup gone'
  <2>1. list' = list /\ into' = into /\ \A q \in Posts \ {p} : stage'[q] = stage[q]
    BY <1>10 DEF Publish, TypeOK, page
  <2>2. ToSet(wire) \cup gone \cup {p} = ToSet(wire') \cup gone'
    BY <1>10, PublishFacts
  <2>3. CASE m = p
    BY <2>2, <2>3
  <2>4. CASE m # p
    BY <1>2, <2>1, <2>2, <2>4, SameLists
  <2> QED BY <2>3, <2>4
<1>11. ASSUME NEW p \in Posts, Stray(p)
       PROVE  m \in Real(k)' \cup ToSet(wire') \cup gone'
  <2>1. /\ list' = list /\ into' = into /\ gone' = gone
        /\ stage' = stage
    BY <1>11 DEF Stray, page, server
  <2>2. ToSet(wire) \subseteq ToSet(wire')
    BY <1>11, AppendFacts DEF Stray, TypeOK
  <2> QED BY <1>2, <2>1, <2>2, SameLists
<1>12. CASE \/ \E c \in Convs : Click(c)
            \/ Select \/ UNCHANGED vars
  BY <1>2, <1>12, SameLists DEF Click, Select, vars, server, socket, page
<1> QED BY <1>3, <1>4, <1>5, <1>6, <1>7, <1>8, <1>9, <1>10, <1>11, <1>12 DEF Next

\* In every instance a published message is missing from its list only while its
\* frame is on the way, or if that passed the page by or a later history took it
\* away (script.js:443-470, repo.go:108-137).
THEOREM MissingCorrect == Spec => []MissingOnlyInGap
<1>1. Init => MissingOnlyInGap
  BY DEF Init, MissingOnlyInGap
<1> QED BY <1>1, MissingStep, ViewBase, PTL DEF Spec

-----------------------------------------------------------------------------
(* The order of messages.                                                  *)

\* Unless posts m and n overlapped, the older one was published before the newer
\* one was saved; from then on, if the page missed nothing of it, it is listed
\* first, and before that its frame is ahead of every frame of the other.
Ordered(c, m, n) ==
    /\ stage[m] = "published"
    /\ m \notin gone => /\ n \in Real(c) => m \in Real(c) /\ ~Above(c, n, m)
                        /\ m \in Real(c) \/ Ahead(wire, m, n)

OrderInv ==
    \A c \in Convs, m, n \in Posts :
        Before(saved[c], m, n) /\ <<m, n>> \notin overlap => Ordered(c, m, n)

LEMMA SavedPair ==
  ASSUME Base, NEW c \in Convs, NEW m \in Posts, NEW n \in Posts, Before(saved[c], m, n)
  PROVE  /\ m # n /\ into[m] = c /\ into[n] = c
         /\ m \in ToSet(saved[c]) /\ n \in ToSet(saved[c])
         /\ stage[m] \in Committed /\ stage[n] \in Committed
<1>1. saved[c] \in Seq(Posts) /\ OnlyOnce(saved[c])
  BY ListTypes DEF Base, SavedInv
<1>2. m \in ToSet(saved[c]) /\ n \in ToSet(saved[c])
  BY <1>1, BeforeIn
<1>3. m # n
  BY <1>1, OneOrder
<1> QED BY <1>2, <1>3 DEF Base, SavedInv

LEMMA AboveIn ==
  ASSUME Base, NEW c \in Convs, NEW m \in Posts, NEW n \in Posts, Above(c, m, n)
  PROVE  m \in Real(c) /\ n \in Real(c)
<1>1. list[c] \in Seq(Items)
  BY ListTypes DEF Base
<1> QED BY <1>1, BeforeIn DEF Above, Real

LEMMA OrderStep == Base /\ MissingOnlyInGap /\ OrderInv /\ [Next]_vars => OrderInv'
<1> USE ListTypes DEF Base
<1> SUFFICES ASSUME Base, MissingOnlyInGap, OrderInv, [Next]_vars,
                    NEW c \in Convs, NEW m \in Posts, NEW n \in Posts,
                    Before(saved'[c], m, n), <<m, n>> \notin overlap'
             PROVE  Ordered(c, m, n)'
  BY DEF OrderInv
<1> DEFINE Old == Before(saved[c], m, n) /\ <<m, n>> \notin overlap
\* Steps that leave the messages listed, their order and that of the frames.
<1>1. CASE /\ Old /\ stage'[m] = stage[m] /\ (m \in gone => m \in gone')
           /\ Real(c)' = Real(c) /\ (Above(c, n, m)' => Above(c, n, m))
           /\ Ahead(wire, m, n) => Ahead(wire', m, n)
  <2>1. Ordered(c, m, n)
    BY <1>1 DEF OrderInv
  <2> QED BY <1>1, <2>1 DEF Ordered
<1>2. CASE HistoryArrives
  <2>1. UNCHANGED <<stage, into, saved, overlap, wire>> /\ Old
    BY <1>2, HistoryCases
  <2>2. Ordered(c, m, n)
    BY <2>1 DEF OrderInv
  <2>3. CASE UNCHANGED <<list, gone>>
    BY <1>1, <2>1, <2>3, SameLists
  <2>4. ASSUME NEW d \in Convs, NEW r \in Nat,
               r <= Len(saved[d]), list' = [list EXCEPT ![d] = Listed(d, r)],
               gone' = (gone \cup InView(d) \cup ToSet(saved[d])) \ Newest(d, r)
        PROVE  Ordered(c, m, n)'
    <3>1. /\ Real(d)' = Newest(d, r) /\ Newest(d, r) \subseteq ToSet(saved[d])
          /\ \A x, y : Above(d, x, y)' => Before(saved[d], x, y)
          /\ \A e \in Convs \ {d} : /\ Real(e)' = Real(e)
                                    /\ \A x, y : Above(e, x, y)' <=> Above(e, x, y)
      BY <2>4, HistoryList
    <3>2. m \in ToSet(saved[c]) /\ into[m] = c /\ saved[c] \in Seq(Posts) /\ OnlyOnce(saved[c])
      BY <2>1, SavedPair DEF SavedInv
    <3>3. CASE c = d
      <4>1. ~Above(c, n, m)'
        BY <2>1, <3>1, <3>2, <3>3, OneOrder
      <4>2. m \notin gone' => m \in Real(c)'
        BY <2>4, <3>1, <3>2, <3>3
      <4> QED BY <2>1, <2>2, <4>1, <4>2 DEF Ordered
    <3>4. CASE c # d
      <4>1. m \notin Newest(d, r)
        BY <3>1, <3>2, <3>4 DEF SavedInv
      <4>2. Real(c)' = Real(c) /\ (Above(c, n, m)' => Above(c, n, m))
        BY <3>1, <3>4
      <4>3. m \in gone => m \in gone'
        BY <2>4, <4>1
      <4> QED BY <1>1, <2>1, <4>2, <4>3
    <3> QED BY <3>3, <3>4
  <2> QED BY <1>2, <2>3, <2>4, HistoryCases
<1>3. CASE Leave
  <2>1. UNCHANGED <<stage, saved, overlap>> /\ Old
    BY <1>3 DEF Leave, server
  <2>2. Real(c)' = {} /\ Ahead(wire', m, n)
    BY <1>3, EmptyFacts DEF Leave, Real
  <2>3. stage'[m] = "published"
    BY <2>1 DEF OrderInv, Ordered
  <2> QED BY <2>2, <2>3 DEF Ordered
<1>4. CASE Connect
  <2>1. UNCHANGED <<stage, saved, overlap, list>> /\ Old /\ gone \subseteq gone' /\ Ahead(wire', m, n)
    BY <1>4, EmptyFacts DEF Connect, server, page
  <2> QED BY <1>1, <2>1, SameLists
<1>5. CASE Hear
  <2>1. PICK h \in Posts, k \in Convs : h = Head(wire) /\ k = into[h]
    BY <1>5, HeardPost DEF Hear
  <2>2. /\ Real(k)' = Real(k) \cup {h}
        /\ \A x, y : Above(k, x, y)' => Above(k, x, y) \/ (y = h /\ h \notin Real(k))
        /\ \A d \in Convs \ {k} : /\ Real(d)' = Real(d)
                                  /\ \A x, y : Above(d, x, y)' <=> Above(d, x, y)
    BY <1>5, <2>1, HearList
  <2>3. UNCHANGED <<stage, saved, overlap>> /\ Old /\ gone \subseteq gone'
    BY <1>5 DEF Hear, server
  <2>4. Ordered(c, m, n) /\ m # n /\ into[m] = c /\ into[n] = c
    BY <2>3, SavedPair DEF OrderInv
  <2>5. /\ ~Ahead(wire, m, h)
        /\ m # h => (Ahead(wire, m, n) => Ahead(wire', m, n))
    BY <1>5, <2>1, TailFacts DEF Hear, TypeOK
  <2>6. CASE c # k
    <3>1. m # h
      BY <2>1, <2>4, <2>6
    <3>2. Real(c)' = Real(c) /\ (Above(c, n, m)' => Above(c, n, m))
      BY <2>2, <2>6
    <3> QED BY <1>1, <2>3, <2>5, <3>1, <3>2
  <2>7. CASE c = k
    <3>1. /\ Real(c)' = Real(c) \cup {h}
          /\ Above(c, n, m)' => Above(c, n, m) \/ (m = h /\ h \notin Real(c))
      BY <2>2, <2>7
    <3>2. Above(c, n, m) => n \in Real(c)
      BY AboveIn
    <3>3. CASE m = h
      BY <2>3, <2>4, <3>1, <3>2, <3>3 DEF Ordered
    <3>4. CASE n = h
      BY <2>3, <2>4, <2>5, <3>1, <3>2, <3>4 DEF Ordered
    <3>5. CASE m # h /\ n # h
      BY <2>3, <2>4, <2>5, <3>1, <3>2, <3>5 DEF Ordered
    <3> QED BY <3>3, <3>4, <3>5
  <2> QED BY <2>6, <2>7
<1>6. ASSUME NEW p \in Mine, Send(p)
      PROVE  Ordered(c, m, n)'
  <2>1. Old /\ wire' = wire /\ gone' = gone
    BY <1>6 DEF Send, socket
  <2>2. m # p
    BY <1>6, <2>1, SavedPair DEF Send, Committed
  <2>3. stage'[m] = stage[m]
    BY <1>6, <2>2 DEF Send, TypeOK
  <2>4. Real(c)' = Real(c) /\ (Above(c, n, m)' => Above(c, n, m))
    BY <1>6, SendList
  <2> QED BY <1>1, <2>1, <2>3, <2>4
<1>7. ASSUME NEW p \in Mine, SendFailed(p)
      PROVE  Ordered(c, m, n)'
  <2>1. Old /\ wire' = wire /\ gone' = gone /\ stage' = stage
    BY <1>7 DEF SendFailed, socket, server
  <2>2. Real(c)' = Real(c) /\ (Above(c, n, m)' => Above(c, n, m))
    BY <1>7, SendFailedList
  <2> QED BY <1>1, <2>1, <2>2
<1>8. ASSUME NEW p \in Posts, NEW d \in Convs, Save(p, d)
      PROVE  Ordered(c, m, n)'
  <2>1. /\ saved' = [saved EXCEPT ![d] = Append(saved[d], p)] /\ UNCHANGED <<list, wire, gone>>
        /\ stage[p] \in {"new", "sent"} /\ \A q \in Posts \ {p} : stage'[q] = stage[q]
        /\ overlap' = overlap \cup {<<q, p>> : q \in {r \in Posts : stage[r] = "saved" /\ into[r] = d}}
    BY <1>8 DEF Save, TypeOK, page, socket
  <2>2. CASE Before(saved[c], m, n)
    <3>1. m # p
      BY <2>1, <2>2, SavedPair DEF Committed
    <3> QED BY <1>1, <2>1, <2>2, <3>1, SameLists
  <2>3. CASE ~Before(saved[c], m, n)
    <3>1. c = d /\ saved'[c] = Append(saved[c], p)
      BY <2>1, <2>3 DEF TypeOK
    <3>2. n = p /\ m \in ToSet(saved[c])
      BY <2>3, <3>1, AppendFacts
    <3>3. stage[m] \in Committed /\ into[m] = c
      BY <3>2 DEF SavedInv
    <3>4. m # p /\ stage'[m] = "published"
      BY <2>1, <3>1, <3>2, <3>3 DEF Committed
    <3>7. p \notin Real(c)
      BY <2>1 DEF ListInv, Committed
    <3>5. p \notin Real(c)' /\ Real(c)' = Real(c)
      BY <2>1, <3>7, SameLists
    <3>6. Ahead(wire', m, p)
      BY <2>1 DEF Ahead, WireInv, ToSet
    <3> QED BY <3>2, <3>4, <3>5, <3>6 DEF Ordered
  <2> QED BY <2>2, <2>3
<1>9. ASSUME NEW p \in Posts, Publish(p)
      PROVE  Ordered(c, m, n)'
  <2>1. Old /\ UNCHANGED list /\ gone \subseteq gone' /\ stage[p] # "published"
    BY <1>9, PublishFacts DEF Publish, page
  <2>2. Ordered(c, m, n) /\ m # p /\ into[m] = c
    BY <2>1, SavedPair DEF OrderInv, Ordered
  <2>3. stage'[m] = stage[m]
    BY <1>9, <2>2 DEF Publish, TypeOK
  <2>4. Real(c)' = Real(c) /\ (Above(c, n, m)' => Above(c, n, m))
    BY <2>1, SameLists
  <2>5. m \in Real(c) \cup ToSet(wire) \cup gone
    BY <2>2 DEF Ordered, MissingOnlyInGap
  <2>6. m \in ToSet(wire) /\ Ahead(wire, m, n) => Ahead(wire', m, n)
    BY <1>9, PublishFacts
  <2> QED BY <2>1, <2>2, <2>3, <2>4, <2>5, <2>6 DEF Ordered
<1>10. ASSUME NEW p \in Posts, Stray(p)
       PROVE  Ordered(c, m, n)'
  <2>1. Old /\ UNCHANGED <<list, gone, stage>>
    BY <1>10 DEF Stray, page, server
  <2>2. Ordered(c, m, n) /\ into[m] = c
    BY <2>1, SavedPair DEF OrderInv
  <2>3. Real(c)' = Real(c) /\ (Above(c, n, m)' => Above(c, n, m))
    BY <2>1, SameLists
  <2>4. m \in Real(c) \cup ToSet(wire) \cup gone
    BY <2>2 DEF Ordered, MissingOnlyInGap
  <2>5. m \in ToSet(wire) /\ Ahead(wire, m, n) => Ahead(wire', m, n)
    BY <1>10, AppendFacts DEF Stray, TypeOK
  <2> QED BY <2>1, <2>2, <2>3, <2>4, <2>5 DEF Ordered
<1>11. CASE \/ \E d \in Convs : Click(d)
            \/ Select \/ UNCHANGED vars
  BY <1>1, <1>11, SameLists DEF Click, Select, vars, server, socket, page
<1> QED BY <1>2, <1>3, <1>4, <1>5, <1>6, <1>7, <1>8, <1>9, <1>10, <1>11 DEF Next

\* In every instance two messages are shown against the order they were saved in
\* only if their posts overlapped, one overtook the other on the way, or the page
\* may have missed the older (main.go:386-403, repo.go:113-123, script.js:761).
THEOREM OrderCorrect == Spec => []OrderOnlyByOverlap
<1>1. Init => OrderInv
  BY EmptyFacts DEF Init, OrderInv
<1>2. ASSUME Base, OrderInv
      PROVE  OrderOnlyByOverlap
  <2> SUFFICES ASSUME NEW c \in Convs, NEW m \in Posts, NEW n \in Posts,
                      Before(saved[c], m, n), Above(c, n, m), <<m, n>> \notin overlap
               PROVE  m \in gone
    BY DEF OrderOnlyByOverlap, Above
  <2>1. n \in Real(c)
    BY <1>2, AboveIn
  <2> QED BY <1>2, <2>1 DEF OrderInv, Ordered
<1>3. Spec => []OrderInv
  BY <1>1, ViewBase, MissingCorrect, OrderStep, PTL DEF Spec
<1> QED BY <1>2, <1>3, ViewBase, PTL
=============================================================================
