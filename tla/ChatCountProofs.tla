--------------------------- MODULE ChatCountProofs ---------------------------
(***************************************************************************)
(* The counting properties of ChatView, TempsAccounted and SentStaysShown: *)
(* temporary messages against what they stand for, for every instance.     *)
(***************************************************************************)
EXTENDS ChatViewProofs

-----------------------------------------------------------------------------
(* Counting.                                                               *)

LEMMA SubsetCount ==
  ASSUME NEW S, NEW R, IsFiniteSet(R), S \subseteq R
  PROVE  /\ IsFiniteSet(S) /\ Cardinality(S) <= Cardinality(R)
         /\ Cardinality(S) \in Nat /\ Cardinality(R) \in Nat
  BY FS_Subset, FS_CardinalityType

LEMMA AddCount ==
  ASSUME NEW S, IsFiniteSet(S), NEW e
  PROVE  /\ IsFiniteSet(S \cup {e}) /\ Cardinality(S) \in Nat
         /\ Cardinality(S \cup {e}) = IF e \in S THEN Cardinality(S) ELSE Cardinality(S) + 1
  BY FS_AddElement, FS_CardinalityType

LEMMA DropCount ==
  ASSUME NEW S, IsFiniteSet(S), NEW e
  PROVE  /\ IsFiniteSet(S \ {e}) /\ Cardinality(S) \in Nat
         /\ Cardinality(S \ {e}) = IF e \in S THEN Cardinality(S) - 1 ELSE Cardinality(S)
  BY FS_RemoveElement, FS_CardinalityType

\* Four ways from sets X and Y to V and W that keep the first the smaller.
Keeps(X, Y, V, W) ==
    \/ V \subseteq W
    \/ V \subseteq X /\ Y \subseteq W
    \/ \E q \in X : \E m : V = X \ {q} /\ Y \ {m} \subseteq W
    \/ \E p, m : m \notin Y /\ V \subseteq X \cup {p} /\ Y \cup {m} \subseteq W

LEMMA KeepsCount ==
  ASSUME NEW X, NEW Y, NEW V, NEW W, IsFiniteSet(X), IsFiniteSet(Y), IsFiniteSet(W),
         Cardinality(X) <= Cardinality(Y), Keeps(X, Y, V, W)
  PROVE  Cardinality(V) <= Cardinality(W)
<1>1. Cardinality(X) \in Nat /\ Cardinality(Y) \in Nat /\ Cardinality(W) \in Nat
  BY FS_CardinalityType
<1>2. CASE V \subseteq W
  BY <1>2, SubsetCount
<1>3. CASE V \subseteq X /\ Y \subseteq W
  <2>1. Cardinality(V) <= Cardinality(X) /\ Cardinality(V) \in Nat
    BY <1>3, SubsetCount
  <2>2. Cardinality(Y) <= Cardinality(W)
    BY <1>3, SubsetCount
  <2> QED BY <1>1, <2>1, <2>2
<1>4. ASSUME NEW q \in X, NEW m, V = X \ {q}, Y \ {m} \subseteq W
      PROVE  Cardinality(V) <= Cardinality(W)
  <2>1. Cardinality(V) = Cardinality(X) - 1
    BY <1>4, DropCount
  <2>4. Cardinality(Y \ {m}) \in {Cardinality(Y), Cardinality(Y) - 1}
    BY DropCount
  <2>2. Cardinality(Y \ {m}) >= Cardinality(Y) - 1
    BY <1>1, <2>4
  <2>3. Cardinality(Y \ {m}) <= Cardinality(W) /\ Cardinality(Y \ {m}) \in Nat
    BY <1>4, SubsetCount
  <2> QED BY <1>1, <2>1, <2>2, <2>3
<1>5. ASSUME NEW p, NEW m, m \notin Y, V \subseteq X \cup {p}, Y \cup {m} \subseteq W
      PROVE  Cardinality(V) <= Cardinality(W)
  <2>1. IsFiniteSet(X \cup {p}) /\ Cardinality(X \cup {p}) <= Cardinality(X) + 1
    BY <1>1, AddCount
  <2>2. Cardinality(V) <= Cardinality(X \cup {p}) /\ Cardinality(V) \in Nat /\ Cardinality(X \cup {p}) \in Nat
    BY <1>5, <2>1, SubsetCount
  <2>3. Cardinality(Y \cup {m}) = Cardinality(Y) + 1
    BY <1>5, AddCount
  <2>4. Cardinality(Y \cup {m}) <= Cardinality(W)
    BY <1>5, SubsetCount
  <2> QED BY <1>1, <2>1, <2>2, <2>3, <2>4
<1> QED BY <1>2, <1>3, <1>4, <1>5 DEF Keeps

-----------------------------------------------------------------------------
(* The posts counted.                                                      *)

\* The temporary messages left in c with a text, and the posts that account for them.
Pending(c, b) == Own(c, b) \cap Temps(c)
Excused(c, b) ==
    {q \in Own(c, b) :
        \/ stage[q] = "sent" /\ q \notin failed
        \/ stage[q] = "saved"
        \/ q \in ToSet(wire) \cup stuck \cup gone}

\* The confirmed messages of a text, and the posts that are owed one: sent, not
\* told failed, not to be missed and without a temporary message.
Confirmed(c, b) == Own(c, b) \cap Real(c)
Owed(c, b) == Own(c, b) \ (Temps(c) \cup failed \cup gone)

LEMMA OwnFinite ==
  ASSUME Base, NEW c \in Convs, NEW b
  PROVE  /\ IsFiniteSet(Own(c, b)) /\ IsFiniteSet(Pending(c, b)) /\ IsFiniteSet(Excused(c, b))
         /\ IsFiniteSet(Confirmed(c, b)) /\ IsFiniteSet(Owed(c, b))
<1> DEFINE N == {p \in Posts : stage[p] # "new"}
<1>1. IsFiniteSet(N)
  BY DEF Base, StageInv
<1>2. Own(c, b) \subseteq N
  BY ListTypes DEF Base, StageInv, Own
<1>3. /\ Pending(c, b) \subseteq Own(c, b) /\ Excused(c, b) \subseteq Own(c, b)
      /\ Confirmed(c, b) \subseteq Own(c, b) /\ Owed(c, b) \subseteq Own(c, b)
  BY DEF Pending, Excused, Confirmed, Owed
<1> HIDE DEF N
<1>4. IsFiniteSet(Own(c, b))
  BY <1>1, <1>2, FS_Subset
<1> QED BY <1>3, <1>4, FS_Subset

LEMMA NextFinite ==
  ASSUME Base, [Next]_vars, NEW c \in Convs, NEW b
  PROVE  IsFiniteSet(Excused(c, b)') /\ IsFiniteSet(Confirmed(c, b)')
<1> DEFINE N == {p \in Posts : stage'[p] # "new"}
<1>1. IsFiniteSet(N) /\ StageInv' /\ TypeOK'
  BY BaseStep DEF Base, StageInv
<1>2. Own(c, b)' \subseteq N
  BY <1>1, ListTypes DEF Base, StageInv, Own
<1>3. Excused(c, b)' \subseteq Own(c, b)' /\ Confirmed(c, b)' \subseteq Own(c, b)'
  BY DEF Excused, Confirmed
<1> HIDE DEF N
<1> QED BY <1>1, <1>2, <1>3, FS_Subset

\* Only the step that sends a post changes whose it is.
LEMMA SameOwn ==
  ASSUME Base, NEW c \in Convs, NEW b,
         \A q \in Mine : into'[q] = into[q]
  PROVE  Own(c, b)' = Own(c, b)
  BY DEF Own

-----------------------------------------------------------------------------
(* Temporary messages against the posts that account for them.             *)

LEMMA TempsStep ==
  ASSUME Base, [Next]_vars, NEW c \in Convs, NEW b
  PROVE  Keeps(Pending(c, b), Excused(c, b), Pending(c, b)', Excused(c, b)')
<1> USE ListTypes DEF Base
<1> DEFINE Goal == Keeps(Pending(c, b), Excused(c, b), Pending(c, b)', Excused(c, b)')
\* What counts for the posts that account for temporary ones.
<1>1. ASSUME \A q \in Mine : into'[q] = into[q],
             NEW S, \A q \in Own(c, b) \ S :
                 /\ stage[q] = "sent" /\ q \notin failed =>
                        (stage'[q] = "sent" /\ q \notin failed') \/ stage'[q] = "saved"
                 /\ stage[q] = "saved" =>
                        stage'[q] = "saved" \/ q \in ToSet(wire') \cup stuck' \cup gone'
                 /\ q \in ToSet(wire) \cup stuck \cup gone => q \in ToSet(wire') \cup stuck' \cup gone'
      PROVE  Excused(c, b) \ S \subseteq Excused(c, b)'
  BY <1>1 DEF Excused, Own
<1>2. CASE Pending(c, b)' = {}
  BY <1>2 DEF Keeps
<1>3. CASE Pending(c, b)' \subseteq Pending(c, b) /\ Excused(c, b) \subseteq Excused(c, b)'
  BY <1>3 DEF Keeps
<1>4. CASE HistoryArrives
  <2>1. UNCHANGED <<stage, into, saved, wire, failed, stuck>>
    BY <1>4, HistoryCases
  <2>2. CASE UNCHANGED <<list, gone>>
    <3>1. Excused(c, b) \ {} \subseteq Excused(c, b)'
      BY <1>1, <2>1, <2>2
    <3>2. Pending(c, b)' = Pending(c, b)
      BY <2>1, <2>2, SameLists, SameOwn DEF Pending
    <3> QED BY <1>3, <3>1, <3>2
  <2>3. ASSUME NEW d \in Convs, NEW n \in Nat,
               n <= Len(saved[d]), list' = [list EXCEPT ![d] = Listed(d, n)],
               gone' = (gone \cup InView(d) \cup ToSet(saved[d])) \ Newest(d, n)
        PROVE  Goal
    <3>1. /\ Newest(d, n) \subseteq ToSet(saved[d]) /\ Temps(d)' = {}
          /\ \A e \in Convs \ {d} : Temps(e)' = Temps(e)
      BY <2>3, HistoryList
    <3>2. CASE c = d
      BY <1>2, <3>1, <3>2 DEF Pending
    <3>3. CASE c # d
      <4>1. \A q \in Own(c, b) : q \notin Newest(d, n)
        BY <3>1, <3>3 DEF SavedInv, Own
      <4>2. Excused(c, b) \ {} \subseteq Excused(c, b)'
        BY <1>1, <2>1, <2>3, <4>1
      <4>3. Pending(c, b)' = Pending(c, b)
        BY <2>1, <3>1, <3>3, SameOwn DEF Pending
      <4> QED BY <1>3, <4>2, <4>3
    <3> QED BY <3>2, <3>3
  <2> QED BY <1>4, <2>2, <2>3, HistoryCases
<1>5. CASE Leave
  <2>1. Temps(c)' = {}
    BY <1>5, EmptyFacts DEF Leave, Temps
  <2> QED BY <1>2, <2>1 DEF Pending
<1>6. CASE Connect
  <2>1. UNCHANGED <<stage, into, failed, stuck, list>> /\ gone' = gone \cup ToSet(wire)
    BY <1>6 DEF Connect, server, page
  <2>2. Excused(c, b) \ {} \subseteq Excused(c, b)'
    BY <1>1, <2>1
  <2>3. Pending(c, b)' = Pending(c, b)
    BY <2>1, SameLists, SameOwn DEF Pending
  <2> QED BY <1>3, <2>2, <2>3
<1>7. CASE Hear
  <2>1. PICK h \in Posts, k \in Convs : h = Head(wire) /\ k = into[h]
    BY <1>7, HeardPost DEF Hear
  <2>2. /\ Drops(Temps(k), Temps(k)', h)
        /\ \A d \in Convs \ {k} : Temps(d)' = Temps(d)
    BY <1>7, <2>1, HearList
  <2>3. UNCHANGED <<stage, into, failed, stuck>> /\ gone \subseteq gone' /\ ToSet(wire) = ToSet(wire') \cup {h}
    BY <1>7, <2>1, TailFacts DEF Hear, server, TypeOK
  <2>4. Excused(c, b) \ {h} \subseteq Excused(c, b)'
    BY <1>1, <2>3
  <2>5. Own(c, b)' = Own(c, b)
    BY <2>3, SameOwn
  <2>6. h \notin Own(c, b) => h \notin Excused(c, b)
    BY DEF Excused
  <2>7. CASE h \notin Own(c, b)
    <3>1. Excused(c, b) \subseteq Excused(c, b)'
      BY <2>4, <2>6, <2>7
    <3>2. Temps(c)' \subseteq Temps(c)
      BY <2>2 DEF Drops
    <3> QED BY <1>3, <2>5, <3>1, <3>2 DEF Pending
  <2>8. CASE h \in Own(c, b)
    <3>1. k = c /\ h \in Mine /\ Body[h] = b
      BY <2>1, <2>8 DEF Own
    <3>2. CASE \A q \in Temps(c) : Body[q] # b
      <4>1. Pending(c, b)' = {}
        BY <2>2, <2>5, <3>1, <3>2 DEF Drops, Pending, Own
      <4> QED BY <1>2, <4>1
    <3>3. ASSUME NEW q \in Temps(c), Body[q] = b, Temps(c)' = Temps(c) \ {q}
          PROVE  Goal
      <4>1. q \in Pending(c, b)
        BY <3>3 DEF Pending, Own, ListInv
      <4>2. Pending(c, b)' = Pending(c, b) \ {q}
        BY <2>5, <3>3 DEF Pending
      <4> QED BY <2>4, <4>1, <4>2 DEF Keeps
    <3> QED BY <2>2, <3>1, <3>2, <3>3 DEF Drops
  <2> QED BY <2>7, <2>8
<1>8. ASSUME NEW p \in Mine, Send(p)
      PROVE  Goal
  <2>1. /\ stage[p] = "new" /\ into[p] = None /\ into'[p] = active /\ active \in Convs
        /\ stage'[p] = "sent" /\ failed' = failed /\ p \notin failed
        /\ UNCHANGED <<stuck, wire, gone>>
        /\ \A q \in Posts \ {p} : stage'[q] = stage[q] /\ into'[q] = into[q]
    BY <1>8, SendList DEF Send, TypeOK, StageInv, socket
  <2>2. Temps(c)' = IF c = active THEN Temps(c) \cup {p} ELSE Temps(c)
    BY <1>8, SendList
  <2>3. p \notin Own(c, b) /\ p \notin Excused(c, b)
    BY <2>1 DEF Own, Excused
  <2>4. Own(c, b)' = IF c = active /\ Body[p] = b THEN Own(c, b) \cup {p} ELSE Own(c, b)
    BY <2>1 DEF Own
  <2>5. Excused(c, b) \subseteq Excused(c, b)'
    BY <2>1, <2>4 DEF Excused, Own
  <2>6. CASE c = active /\ Body[p] = b
    <3>1. p \in Excused(c, b)'
      BY <2>1, <2>4, <2>6 DEF Excused
    <3>2. Pending(c, b)' \subseteq Pending(c, b) \cup {p}
      BY <2>2, <2>4, <2>6 DEF Pending
    <3>3. Excused(c, b) \cup {p} \subseteq Excused(c, b)'
      BY <2>5, <3>1
    <3> QED BY <2>3, <3>2, <3>3 DEF Keeps
  <2>7. CASE ~(c = active /\ Body[p] = b)
    <3>1. Pending(c, b)' \subseteq Pending(c, b)
      BY <2>2, <2>3, <2>4, <2>7 DEF Pending
    <3> QED BY <1>3, <2>5, <3>1
  <2> QED BY <2>6, <2>7
<1>9. ASSUME NEW p \in Mine, SendFailed(p)
      PROVE  Goal
  <2>1. UNCHANGED <<stage, into, wire, gone>> /\ failed' = failed \cup {p} /\ stuck \subseteq stuck'
    BY <1>9 DEF SendFailed, socket, server
  <2>2. Temps(c)' = IF c = active THEN Temps(c) \ {p} ELSE Temps(c)
    BY <1>9, SendFailedList
  <2>3. Own(c, b)' = Own(c, b)
    BY <2>1, SameOwn
  <2>4. Excused(c, b) \ {p} \subseteq Excused(c, b)'
    BY <1>1, <2>1
  <2>5. CASE p \in Pending(c, b) /\ c = active
    <3>1. Pending(c, b)' = Pending(c, b) \ {p}
      BY <2>2, <2>3, <2>5 DEF Pending
    <3>2. \E q \in Pending(c, b) : \E m :
             Pending(c, b)' = Pending(c, b) \ {q} /\ Excused(c, b) \ {m} \subseteq Excused(c, b)'
      BY <2>4, <2>5, <3>1
    <3> QED BY <3>2 DEF Keeps
  <2>6. CASE ~(p \in Pending(c, b) /\ c = active)
    <3>1. Pending(c, b)' \subseteq Pending(c, b)
      BY <2>2, <2>3 DEF Pending
    <3>2. p \in Own(c, b) => p \in stuck'
      <4>1. ASSUME p \in Own(c, b), active # None, p \in Temps(active)
            PROVE  FALSE
        <5>1. active = c
          BY <4>1 DEF ListInv, Own, TypeOK
        <5> QED BY <2>6, <4>1, <5>1 DEF Pending
      <4> QED BY <1>9, <4>1 DEF SendFailed, Temps
    <3>3. Excused(c, b) \subseteq Excused(c, b)'
      BY <2>3, <2>4, <3>2 DEF Excused
    <3> QED BY <1>3, <3>1, <3>3
  <2> QED BY <2>5, <2>6
<1>10. ASSUME NEW p \in Posts, NEW d \in Convs, Save(p, d)
       PROVE  Goal
  <2>1. /\ UNCHANGED <<list, failed, stuck, wire, gone>>
        /\ stage[p] \in {"new", "sent"} /\ stage'[p] = "saved" /\ \A q \in Posts \ {p} : stage'[q] = stage[q]
    BY <1>10 DEF Save, page, socket, TypeOK
  <2>2. \A q \in Mine : into'[q] = into[q]
    BY <1>10, ChatViewAssumption DEF Save, TypeOK
  <2>3. Excused(c, b) \ {} \subseteq Excused(c, b)'
    BY <1>1, <2>1, <2>2 DEF Own
  <2>4. Pending(c, b)' = Pending(c, b)
    BY <2>1, <2>2, SameLists, SameOwn DEF Pending
  <2> QED BY <1>3, <2>3, <2>4
<1>11. ASSUME NEW p \in Posts, Publish(p)
       PROVE  Goal
  <2>1. UNCHANGED <<list, into, failed, stuck>> /\ \A q \in Posts \ {p} : stage'[q] = stage[q]
    BY <1>11 DEF Publish, page, TypeOK
  <2>2. ToSet(wire) \cup gone \cup {p} = ToSet(wire') \cup gone'
    BY <1>11, PublishFacts
  <2>3. Excused(c, b) \ {} \subseteq Excused(c, b)'
    BY <1>1, <1>11, <2>1, <2>2 DEF Own, Publish
  <2>4. Pending(c, b)' = Pending(c, b)
    BY <2>1, SameLists, SameOwn DEF Pending
  <2> QED BY <1>3, <2>3, <2>4
<1>12. ASSUME NEW p \in Posts, Stray(p)
       PROVE  Goal
  <2>1. UNCHANGED <<list, into, stage, failed, stuck, gone>>
    BY <1>12 DEF Stray, page, server
  <2>2. ToSet(wire) \subseteq ToSet(wire')
    BY <1>12, AppendFacts DEF Stray, TypeOK
  <2>3. Excused(c, b) \ {} \subseteq Excused(c, b)'
    BY <1>1, <2>1, <2>2 DEF Own
  <2>4. Pending(c, b)' = Pending(c, b)
    BY <2>1, SameLists, SameOwn DEF Pending
  <2> QED BY <1>3, <2>3, <2>4
<1>13. CASE \/ \E d \in Convs : Click(d)
            \/ Select \/ UNCHANGED vars
  <2>1. UNCHANGED <<list, into, stage, failed, stuck, wire, gone>>
    BY <1>13 DEF Click, Select, vars, server, socket, page
  <2>2. Excused(c, b) \ {} \subseteq Excused(c, b)'
    BY <1>1, <2>1
  <2>3. Pending(c, b)' = Pending(c, b)
    BY <2>1, SameLists, SameOwn DEF Pending
  <2> QED BY <1>3, <2>2, <2>3
<1> QED BY <1>4, <1>5, <1>6, <1>7, <1>8, <1>9, <1>10, <1>11, <1>12, <1>13 DEF Next

-----------------------------------------------------------------------------
(* Confirmed messages against the posts that are owed one.  SentStaysShown *)
(* is not inductive: that the temporary message of a post goes when the    *)
(* frame of another comes is harmless only as that other one is then       *)
(* confirmed beyond what the posts without a temporary message need.       *)

ShownInv == \A c \in Convs, p \in Mine : Cardinality(Owed(c, Body[p])) <= Cardinality(Confirmed(c, Body[p]))

LEMMA ShownStep ==
  ASSUME Base, [Next]_vars, NEW c \in Convs, NEW b
  PROVE  Keeps(Owed(c, b), Confirmed(c, b), Owed(c, b)', Confirmed(c, b)')
<1> USE ListTypes DEF Base
<1> DEFINE Goal == Keeps(Owed(c, b), Confirmed(c, b), Owed(c, b)', Confirmed(c, b)')
<1>1. CASE Owed(c, b)' \subseteq Confirmed(c, b)'
  BY <1>1 DEF Keeps
\* Steps that confirm nothing and take no temporary message but of a failed post.
<1>2. ASSUME Own(c, b)' = Own(c, b), Real(c)' = Real(c),
             \A q \in Own(c, b) : /\ q \in Temps(c) => q \in Temps(c)' \cup failed'
                                  /\ q \in failed \cup gone => q \in failed' \cup gone'
      PROVE  Goal
  <2>1. Owed(c, b)' \subseteq Owed(c, b) /\ Confirmed(c, b)' = Confirmed(c, b)
    BY <1>2 DEF Owed, Confirmed
  <2> QED BY <2>1 DEF Keeps
<1>3. CASE HistoryArrives
  <2>1. UNCHANGED <<stage, into, saved, wire, failed, stuck>> /\ Own(c, b)' = Own(c, b)
    BY <1>3, HistoryCases, SameOwn
  <2>2. CASE UNCHANGED <<list, gone>>
    BY <1>2, <2>1, <2>2, SameLists
  <2>3. ASSUME NEW d \in Convs, NEW n \in Nat,
               n <= Len(saved[d]), list' = [list EXCEPT ![d] = Listed(d, n)],
               gone' = (gone \cup InView(d) \cup ToSet(saved[d])) \ Newest(d, n)
        PROVE  Goal
    <3>1. /\ Newest(d, n) \subseteq ToSet(saved[d]) /\ Real(d)' = Newest(d, n)
          /\ \A e \in Convs \ {d} : Real(e)' = Real(e) /\ Temps(e)' = Temps(e)
      BY <2>3, HistoryList
    <3>2. CASE c = d
      <4>1. \A q \in Own(c, b) : q \in gone' \/ q \in Newest(c, n)
        BY <2>3, <3>2 DEF InView, Own
      <4>2. Owed(c, b)' \subseteq Confirmed(c, b)'
        BY <2>1, <3>1, <3>2, <4>1 DEF Owed, Confirmed
      <4> QED BY <1>1, <4>2
    <3>3. CASE c # d
      <4>1. \A q \in Own(c, b) : q \notin Newest(d, n)
        BY <3>1, <3>3 DEF SavedInv, Own
      <4> QED BY <1>2, <2>1, <2>3, <3>1, <3>3, <4>1
    <3> QED BY <3>2, <3>3
  <2> QED BY <1>3, <2>2, <2>3, HistoryCases
<1>4. CASE Leave
  <2>1. Own(c, b)' = Own(c, b)
    BY <1>4, SameOwn DEF Leave, server
  <2>2. Own(c, b) \subseteq gone'
    BY <1>4 DEF Leave, InView, Own
  <2>3. Owed(c, b)' = {}
    BY <2>1, <2>2 DEF Owed
  <2> QED BY <1>1, <2>3
<1>5. CASE Connect
  <2>1. UNCHANGED <<into, failed, list>> /\ gone \subseteq gone'
    BY <1>5 DEF Connect, server, page
  <2> QED BY <1>2, <2>1, SameLists, SameOwn
<1>6. CASE Hear
  <2>1. PICK h \in Posts, k \in Convs : h = Head(wire) /\ k = into[h]
    BY <1>6, HeardPost DEF Hear
  <2>2. /\ Real(k)' = Real(k) \cup {h}
        /\ \A d \in Convs \ {k} : Real(d)' = Real(d) /\ Temps(d)' = Temps(d)
    BY <1>6, <2>1, HearList
  <2>3. Drops(Temps(k), Temps(k)', h)
    BY <1>6, <2>1, HearList
  <2>4. UNCHANGED <<into, failed>> /\ gone \subseteq gone' /\ Own(c, b)' = Own(c, b)
    BY <1>6, SameOwn DEF Hear, server
  <2>5. CASE c # k
    BY <1>2, <2>2, <2>4, <2>5
  <2>6. CASE c = k /\ h \notin Own(c, b)
    <3>1. Confirmed(c, b)' = Confirmed(c, b)
      BY <2>2, <2>4, <2>6 DEF Confirmed
    <3>2. \A q \in Own(c, b) : q \in Temps(c) => q \in Temps(c)'
      BY <2>1, <2>3, <2>6 DEF Drops, Own
    <3>3. Owed(c, b)' \subseteq Owed(c, b)
      BY <2>4, <3>2 DEF Owed
    <3> QED BY <3>1, <3>3 DEF Keeps
  <2>7. CASE c = k /\ h \in Own(c, b) /\ h \in Real(c)
    <3>1. gone' = gone \cup (Own(c, b) \ Real(c))
      BY <1>6, <2>1, <2>7 DEF Hear, Own
    <3>2. Owed(c, b)' \subseteq Confirmed(c, b)'
      BY <2>2, <2>4, <2>7, <3>1 DEF Owed, Confirmed
    <3> QED BY <1>1, <3>2
  <2>8. CASE c = k /\ h \in Own(c, b) /\ h \notin Real(c)
    <3>1. h \notin Confirmed(c, b) /\ Confirmed(c, b) \cup {h} \subseteq Confirmed(c, b)'
      BY <2>2, <2>4, <2>8 DEF Confirmed
    <3>2. PICK q : Temps(c) \subseteq Temps(c)' \cup {q}
      BY <2>3, <2>8 DEF Drops
    <3>3. Owed(c, b)' \subseteq Owed(c, b) \cup {q}
      BY <2>4, <3>2 DEF Owed
    <3> QED BY <3>1, <3>3 DEF Keeps
  <2> QED BY <2>5, <2>6, <2>7, <2>8
<1>7. ASSUME NEW p \in Mine, Send(p)
      PROVE  Goal
  <2>1. /\ into[p] = None /\ into'[p] = active /\ active \in Convs
        /\ UNCHANGED <<failed, gone>>
        /\ \A q \in Posts \ {p} : into'[q] = into[q]
    BY <1>7, SendList DEF Send, TypeOK, StageInv
  <2>2. Real(c)' = Real(c) /\ Temps(c)' = IF c = active THEN Temps(c) \cup {p} ELSE Temps(c)
    BY <1>7, SendList
  <2>3. Own(c, b) \subseteq Own(c, b)' /\ Own(c, b)' \subseteq Own(c, b) \cup (IF c = active THEN {p} ELSE {})
    BY <2>1 DEF Own
  <2>4. Owed(c, b)' \subseteq Owed(c, b) /\ Confirmed(c, b) \subseteq Confirmed(c, b)'
    BY <2>1, <2>2, <2>3 DEF Owed, Confirmed
  <2> QED BY <2>4 DEF Keeps
<1>8. ASSUME NEW p \in Mine, SendFailed(p)
      PROVE  Goal
  <2>1. UNCHANGED <<into, gone>> /\ failed' = failed \cup {p}
    BY <1>8 DEF SendFailed, server
  <2>2. Real(c)' = Real(c) /\ Temps(c)' = IF c = active THEN Temps(c) \ {p} ELSE Temps(c)
    BY <1>8, SendFailedList
  <2> QED BY <1>2, <2>1, <2>2, SameOwn
<1>9. ASSUME NEW p \in Posts, NEW d \in Convs, Save(p, d)
      PROVE  Goal
  <2>1. UNCHANGED <<list, failed, gone>>
    BY <1>9 DEF Save, page
  <2>2. \A q \in Mine : into'[q] = into[q]
    BY <1>9, ChatViewAssumption DEF Save, TypeOK
  <2> QED BY <1>2, <2>1, <2>2, SameLists, SameOwn
<1>10. ASSUME NEW p \in Posts, Publish(p) \/ Stray(p)
       PROVE  Goal
  <2>1. UNCHANGED <<list, into, failed>> /\ gone \subseteq gone'
    BY <1>10 DEF Publish, Stray, page, server
  <2> QED BY <1>2, <2>1, SameLists, SameOwn
<1>11. CASE \/ \E d \in Convs : Click(d)
            \/ Select \/ UNCHANGED vars
  <2>1. UNCHANGED <<list, into, failed, gone>>
    BY <1>11 DEF Click, Select, vars, server, page
  <2> QED BY <1>2, <2>1, SameLists, SameOwn
<1> QED BY <1>3, <1>4, <1>5, <1>6, <1>7, <1>8, <1>9, <1>10, <1>11 DEF Next

-----------------------------------------------------------------------------
(* The two properties.                                                     *)

\* In every instance each temporary message left stands for a post with its text
\* that is under way, that never reached the list or that failed with nothing of
\* it to remove (script.js:539, 555-567, 746-753).
THEOREM TempsCorrect == Spec => []TempsAccounted
<1>1. Init => TempsAccounted
  <2> SUFFICES ASSUME Init, NEW c \in Convs, NEW p \in Mine
               PROVE  Cardinality(Pending(c, Body[p])) <= Cardinality(Excused(c, Body[p]))
    BY DEF TempsAccounted, Pending, Excused
  <2>1. Pending(c, Body[p]) = {}
    BY EmptyFacts DEF Init, Pending, Temps
  <2>2. IsFiniteSet(Excused(c, Body[p]))
    BY BaseInit, OwnFinite
  <2> QED BY <2>1, <2>2, SubsetCount
<1>2. Base /\ TempsAccounted /\ [Next]_vars => TempsAccounted'
  <2> SUFFICES ASSUME Base, TempsAccounted, [Next]_vars, NEW c \in Convs, NEW b, NEW p \in Mine, b = Body[p]
               PROVE  Cardinality(Pending(c, b)') <= Cardinality(Excused(c, b)')
    BY DEF TempsAccounted, Pending, Excused, Own, Temps
  <2>1. Cardinality(Pending(c, b)) <= Cardinality(Excused(c, b))
    BY DEF TempsAccounted, Pending, Excused
  <2>2. IsFiniteSet(Pending(c, b)) /\ IsFiniteSet(Excused(c, b))
    BY OwnFinite
  <2>3. IsFiniteSet(Excused(c, b)')
    BY NextFinite
  <2>4. Keeps(Pending(c, b), Excused(c, b), Pending(c, b)', Excused(c, b)')
    BY TempsStep
  <2> QED BY <2>1, <2>2, <2>3, <2>4, KeepsCount
<1> QED BY <1>1, <1>2, ViewBase, PTL DEF Spec

\* In every instance what the user sent stays in view, pending or confirmed, until
\* it fails or a history without it replaces the list, or until the frame of a
\* message listed before takes another with its text (script.js:449, 539, 746-761).
THEOREM ShownCorrect == Spec => []SentStaysShown
<1>1. Init => ShownInv
  <2> SUFFICES ASSUME Init, NEW c \in Convs, NEW p \in Mine
               PROVE  Cardinality(Owed(c, Body[p])) <= Cardinality(Confirmed(c, Body[p]))
    BY DEF ShownInv
  <2>1. Owed(c, Body[p]) = {}
    BY ChatViewAssumption DEF Init, Owed, Own, Posts
  <2>2. IsFiniteSet(Confirmed(c, Body[p]))
    BY BaseInit, OwnFinite
  <2> QED BY <2>1, <2>2, SubsetCount
<1>2. Base /\ ShownInv /\ [Next]_vars => ShownInv'
  <2> SUFFICES ASSUME Base, ShownInv, [Next]_vars, NEW c \in Convs, NEW b, NEW p \in Mine, b = Body[p]
               PROVE  Cardinality(Owed(c, b)') <= Cardinality(Confirmed(c, b)')
    BY DEF ShownInv
  <2>1. Cardinality(Owed(c, b)) <= Cardinality(Confirmed(c, b))
    BY DEF ShownInv
  <2>2. IsFiniteSet(Owed(c, b)) /\ IsFiniteSet(Confirmed(c, b))
    BY OwnFinite
  <2>3. IsFiniteSet(Confirmed(c, b)')
    BY NextFinite
  <2>4. Keeps(Owed(c, b), Confirmed(c, b), Owed(c, b)', Confirmed(c, b)')
    BY ShownStep
  <2> QED BY <2>1, <2>2, <2>3, <2>4, KeepsCount
<1>3. ASSUME Base, ShownInv
      PROVE  SentStaysShown
  <2> SUFFICES ASSUME NEW c \in Convs, NEW b, NEW p \in Mine, b = Body[p]
               PROVE  Shown(c, b) >= Cardinality(Own(c, b) \ (failed \cup gone))
    BY DEF SentStaysShown
  <2> DEFINE X == Owed(c, b)
             Y == Own(c, b) \cap Temps(c)
  <2>1. /\ IsFiniteSet(X) /\ IsFiniteSet(Y)
        /\ Cardinality(X) <= Cardinality(Confirmed(c, b))
        /\ Cardinality(Confirmed(c, b)) \in Nat
    BY <1>3, OwnFinite, FS_CardinalityType DEF ShownInv, Pending
  <2>2. Own(c, b) \ (failed \cup gone) \subseteq X \cup Y
    BY DEF Owed
  <2>3. Shown(c, b) = Cardinality(Confirmed(c, b)) + Cardinality(Y)
    BY DEF Shown, Confirmed
  <2> DEFINE Z == Own(c, b) \ (failed \cup gone)
  <2> HIDE DEF X, Y, Z
  <2>4. /\ IsFiniteSet(X \cup Y)
        /\ Cardinality(X \cup Y) = Cardinality(X) + Cardinality(Y) - Cardinality(X \cap Y)
    BY <2>1, FS_Union
  <2>5. Cardinality(X) \in Nat /\ Cardinality(Y) \in Nat /\ Cardinality(X \cap Y) \in Nat
    BY <2>1, SubsetCount
  <2>6. Cardinality(Z) <= Cardinality(X \cup Y) /\ Cardinality(Z) \in Nat
    BY <2>2, <2>4, SubsetCount DEF Z
  <2>7. Shown(c, b) >= Cardinality(Z)
    BY <2>1, <2>3, <2>4, <2>5, <2>6
  <2> QED BY <2>7 DEF Z
<1>4. Spec => []ShownInv
  BY <1>1, <1>2, ViewBase, PTL DEF Spec
<1> QED BY <1>3, <1>4, ViewBase, PTL
=============================================================================
