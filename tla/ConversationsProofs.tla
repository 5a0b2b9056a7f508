------------------------ MODULE ConversationsProofs ------------------------
(***************************************************************************)
(* Theorems about Conversations, for every set of users, requests and      *)
(* bodies, every size of the pool and any number of crashes.               *)
(***************************************************************************)
EXTENDS Conversations, TLAPS

-----------------------------------------------------------------------------
(* What the handler computes from a body.                                  *)

LEMMA ByType ==
  ASSUME NEW r \in Creates
  PROVE  By[r] \in Accounts /\ By[r] # Nil /\ By[r] \in Ids
  BY ConversationsAssumption DEF Requests

LEMMA NamesType ==
  ASSUME body \in [Creates -> Bodies], NEW r \in Creates
  PROVE  ToSet(body[r].named) \subseteq Ids
<1>1. body[r] \in Bodies
  OBVIOUS
<1>2. body[r].named \in Seq(Ids)
  BY <1>1, ConversationsAssumption
<1> QED BY <1>2 DEF ToSet

\* The list of recipients and the list of participants differ by uuid.Nil only.
LEMMA PartyIsRecipients ==
  ASSUME body \in [Creates -> Bodies], NEW r \in Creates
  PROVE  /\ Recipients(r) \subseteq Ids
         /\ Recipients(r) \cap Accounts \subseteq Party(r)
         /\ Party(r) = ({By[r]} \cup ToSet(body[r].named)) \ {Nil}
  BY ByType, NamesType, ConversationsAssumption DEF Recipients, Party

\* No step changes what a request asks for.
LEMMA BodyFixed ==
  ASSUME body' = body
  PROVE  \A r \in Creates : /\ Party(r)' = Party(r)
                            /\ Recipients(r)' = Recipients(r)
                            /\ Direct(r)' = Direct(r)
  BY DEF Party, Recipients, Direct

-----------------------------------------------------------------------------
(* The inductive invariant.                                                *)

\* Where create r has passed its check for a twin.
Looked == {"count", "begin", "conv", "party", "commit"}

\* What the handler of r has established by the time it reaches each statement.
\* Only the transaction in its last two stages has participants.
CreateInv(r) ==
    /\ pc[r] \in Looked \ {"count"} => Party(r) \subseteq Accounts
    /\ pc[r] \in Looked \cup {"exists"} /\ Direct(r) => Cardinality(Party(r)) = 2
    /\ pc[r] \in Looked \cup {"exists", "idle"} => r \notin convs
    /\ tx[r] \subseteq Party(r)
    /\ tx[r] # {} => pc[r] \in {"party", "commit"}
    /\ pc[r] = "commit" => tx[r] = Party(r)
    /\ note[r] # "none" => r \in convs

\* After the look, a conversation of the same pair can only be a rival.
TwinInv(r) ==
    pc[r] \in Looked /\ Direct(r) =>
        \A c \in convs : Direct(c) /\ parts[c] = Party(r) => c \in rivals[r]

PostInv(p) ==
    /\ pc[p] \in {"idle", "member", "save"} => p \notin saved
    /\ pc[p] = "save" => By[p] \in parts[Into[p]]
    /\ pc[p] \in {"author", "publish"} => p \in saved

IInv ==
    /\ TypeOK
    /\ \A r \in Creates : CreateInv(r)
    /\ \A r \in Creates : TwinInv(r)
    /\ \A p \in Posts : PostInv(p)
    /\ ConversationsWhole /\ OnlyPartyTold /\ PostsSound /\ TwinsOnlyByRace

-----------------------------------------------------------------------------
(* Steps of a create's handler.                                            *)

LEMMA Disjoint == \A r \in Creates, p \in Posts : r # p /\ r \in Requests /\ p \in Requests
  BY ConversationsAssumption DEF Requests

\* A step that writes nothing: the checks, and statements others do not see.
LEMMA LookingStep ==
  ASSUME IInv, NEW r \in Creates,
         \/ SendCreate(r) \/ LookForTwin(r) \/ CountUsers(r)
         \/ Begin(r) \/ InsertConversation(r)
  PROVE  IInv'
<1>1. UNCHANGED <<body, tx, convs, parts, saved, published, note, told, rivals, crashes>>
  BY DEF SendCreate, LookForTwin, CountUsers, Begin, InsertConversation, database, announcing
<1>2. PICK to \in {"invalid", "exists", "conflict", "count", "failed", "begin", "conv", "party"} :
        /\ pc' = [pc EXCEPT ![r] = to]
        /\ to \in Looked \cup {"exists"} => pc[r] \in Looked \cup {"exists", "idle"}
        /\ to \in Looked \ {"count"} => Party(r) \subseteq Accounts
        /\ to \in Looked \cup {"exists"} /\ Direct(r) => Cardinality(Party(r)) = 2
        /\ pc[r] \in Looked \/ (to = "count" /\ Direct(r) => ~Twin(r))
        /\ to \in Looked \ {"count"} => pc[r] \in Looked
        /\ pc[r] \notin {"party", "commit"}
  BY DEF IInv, CreateInv, Looked, SendCreate, LookForTwin, CountUsers, Begin, InsertConversation, Goto
<1>3. TypeOK'
  BY <1>1, <1>2, Disjoint DEF IInv, TypeOK, Statements, Replies
<1>4. pc'[r] = to /\ \A q \in Requests : q # r => pc'[q] = pc[q]
  BY <1>2, Disjoint DEF IInv, TypeOK, Requests
<1>5. ASSUME NEW s \in Creates
      PROVE  CreateInv(s)'
  <2>1. CreateInv(s) /\ CreateInv(r) /\ s \in Requests
    BY Disjoint DEF IInv, Requests
  <2>2. CASE s = r
    BY <1>1, <1>2, <1>4, <2>1, <2>2, BodyFixed DEF CreateInv, Looked
  <2>3. CASE s # r
    BY <1>1, <1>4, <2>1, <2>3, BodyFixed DEF CreateInv
  <2> QED BY <2>2, <2>3
<1>6. ASSUME NEW s \in Creates
      PROVE  TwinInv(s)'
  <2>1. TwinInv(s) /\ s \in Requests
    BY DEF IInv, Requests
  <2>2. CASE s = r /\ pc[r] \notin Looked
    <3>1. to = "count" /\ Direct(r) => \A c \in convs : Direct(c) => parts[c] # Party(r)
      BY <1>2, <2>2 DEF Twin, Looked
    <3> QED BY <1>1, <1>2, <1>4, <2>2, <3>1, BodyFixed DEF TwinInv, Looked, Direct
  <2>3. CASE s # r \/ pc[r] \in Looked
    BY <1>1, <1>4, <2>1, <2>3, BodyFixed DEF TwinInv, Direct
  <2> QED BY <2>2, <2>3
<1>7. \A p \in Posts : PostInv(p)'
  BY <1>1, <1>4, Disjoint DEF IInv, PostInv
<1>8. ConversationsWhole' /\ OnlyPartyTold' /\ TwinsOnlyByRace'
  BY <1>1 DEF IInv, ConversationsWhole, OnlyPartyTold, TwinsOnlyByRace, Direct
<1>9. PostsSound'
  BY <1>1, <1>4, Disjoint DEF IInv, PostsSound
<1> QED BY <1>3, <1>5, <1>6, <1>7, <1>8, <1>9 DEF IInv

LEMMA InsertParticipantStep ==
  ASSUME IInv, NEW r \in Creates, InsertParticipant(r)
  PROVE  IInv'
<1>1. UNCHANGED <<body, convs, parts, saved, published, note, told, rivals, crashes>>
  BY DEF InsertParticipant, database, announcing
<1>2. PICK u \in Party(r) \ tx[r] :
        /\ tx' = [tx EXCEPT ![r] = tx[r] \cup {u}]
        /\ pc[r] = "party"
        /\ pc' = [pc EXCEPT ![r] = IF tx'[r] = Party(r) THEN "commit" ELSE "party"]
  BY DEF InsertParticipant, Goto
<1>3. /\ \A q \in Requests : q # r => pc'[q] = pc[q]
      /\ pc'[r] \in {"party", "commit"} /\ (pc'[r] = "commit" => tx'[r] = Party(r))
      /\ tx'[r] = tx[r] \cup {u} /\ \A s \in Creates : s # r => tx'[s] = tx[s]
  BY <1>2, Disjoint DEF IInv, TypeOK, Requests
<1>4. CreateInv(r) /\ Party(r) \subseteq Accounts
  BY <1>2 DEF IInv, CreateInv, Looked
<1>5. TypeOK'
  BY <1>1, <1>2, <1>4, Disjoint DEF IInv, TypeOK, Statements, Replies
<1>6. ASSUME NEW s \in Creates
      PROVE  CreateInv(s)' /\ TwinInv(s)'
  <2>1. CreateInv(s) /\ TwinInv(s) /\ s \in Requests
    BY DEF IInv, Requests
  <2>2. CASE s = r
    BY <1>1, <1>2, <1>3, <1>4, <2>1, <2>2, BodyFixed DEF CreateInv, TwinInv, Looked, Direct
  <2>3. CASE s # r
    BY <1>1, <1>3, <2>1, <2>3, BodyFixed DEF CreateInv, TwinInv, Direct
  <2> QED BY <2>2, <2>3
<1>7. \A p \in Posts : PostInv(p)'
  BY <1>1, <1>3, Disjoint DEF IInv, PostInv
<1>8. ConversationsWhole' /\ OnlyPartyTold' /\ TwinsOnlyByRace'
  BY <1>1 DEF IInv, ConversationsWhole, OnlyPartyTold, TwinsOnlyByRace, Direct
<1>9. PostsSound'
  BY <1>1, <1>3, Disjoint DEF IInv, PostsSound
<1> QED BY <1>5, <1>6, <1>7, <1>8, <1>9 DEF IInv

\* The conversation appears with its whole party; whoever looked for a twin of
\* it before, and has not committed, has it as a rival.
LEMMA CommitStep ==
  ASSUME IInv, NEW r \in Creates, Commit(r)
  PROVE  IInv'
<1>1. UNCHANGED <<body, saved, published, told, crashes>>
  BY DEF Commit
<1>2. /\ pc[r] = "commit" /\ convs' = convs \cup {r}
      /\ \E to \in {"created", "failed"} : pc' = [pc EXCEPT ![r] = to]
      /\ note' \in {note, [note EXCEPT ![r] = "event"]}
      /\ parts' = [parts EXCEPT ![r] = tx[r]]
      /\ tx' = [tx EXCEPT ![r] = {}]
      /\ rivals' = [s \in Creates |-> IF s # r /\ (s \in Open \/ pc[s] \in {"count", "begin"})
                                      THEN rivals[s] \cup {r} ELSE rivals[s]]
  BY DEF Commit, Goto
<1>3. /\ pc'[r] \in {"created", "failed"} /\ \A q \in Requests : q # r => pc'[q] = pc[q]
      /\ \A s \in Creates : s # r => note'[s] = note[s]
      /\ parts'[r] = tx[r] /\ \A s \in Creates : s # r => parts'[s] = parts[s]
      /\ tx'[r] = {} /\ \A s \in Creates : s # r => tx'[s] = tx[s]
      /\ \A s \in Creates : rivals[s] \subseteq rivals'[s]
      /\ \A s \in Creates : s # r /\ pc[s] \in Looked => r \in rivals'[s]
  BY <1>2, Disjoint DEF IInv, TypeOK, Requests, Open, Looked
<1>4. /\ CreateInv(r) /\ tx[r] = Party(r) /\ Party(r) \subseteq Accounts /\ r \notin convs
      /\ Direct(r) => Cardinality(Party(r)) = 2
  BY <1>2 DEF IInv, CreateInv, Looked
<1>5. TypeOK'
  <2>1. pc' \in [Requests -> {"idle", "publish", "lost"} \cup Statements \cup Replies]
    BY <1>2, Disjoint DEF IInv, TypeOK, Statements, Replies
  <2>2. rivals' \in [Creates -> SUBSET Creates]
    BY <1>2 DEF IInv, TypeOK
  <2>3. note' \in [Creates -> {"none", "event", "names", "users"}]
    BY <1>2 DEF IInv, TypeOK
  <2>4. tx' \in [Creates -> SUBSET Accounts] /\ parts' \in [Creates -> SUBSET Accounts] /\ convs' \subseteq Creates
    BY <1>2, <1>4 DEF IInv, TypeOK
  <2> QED BY <1>1, <2>1, <2>2, <2>3, <2>4 DEF IInv, TypeOK
<1>6. ASSUME NEW s \in Creates
      PROVE  CreateInv(s)'
  <2>1. CreateInv(s) /\ s \in Requests
    BY DEF IInv, Requests
  <2>2. CASE s = r
    BY <1>1, <1>2, <1>3, <2>2, BodyFixed DEF CreateInv, Looked
  <2>3. CASE s # r
    BY <1>1, <1>2, <1>3, <2>1, <2>3, BodyFixed DEF CreateInv
  <2> QED BY <2>2, <2>3
<1>7. ASSUME NEW s \in Creates
      PROVE  TwinInv(s)'
  <2>1. TwinInv(s) /\ s \in Requests
    BY DEF IInv, Requests
  <2>2. CASE s = r
    BY <1>3, <2>2 DEF TwinInv, Looked
  <2>3. CASE s # r
    BY <1>1, <1>2, <1>3, <2>1, <2>3, BodyFixed DEF TwinInv, IInv, TypeOK, Direct
  <2> QED BY <2>2, <2>3
<1>8. \A p \in Posts : By[p] \in parts[Into[p]] => By[p] \in parts'[Into[p]]
  <2> SUFFICES ASSUME NEW p \in Posts, By[p] \in parts[Into[p]]
               PROVE  By[p] \in parts'[Into[p]]
    OBVIOUS
  <2>1. Into[p] \in Creates
    BY ConversationsAssumption
  <2>2. Into[p] \in convs
    BY <2>1 DEF IInv, ConversationsWhole
  <2> QED BY <1>3, <1>4, <2>1, <2>2
<1>9. (\A p \in Posts : PostInv(p)') /\ PostsSound'
  BY <1>1, <1>3, <1>8, Disjoint DEF IInv, PostInv, PostsSound, TypeOK
<1>10. ConversationsWhole'
  <2>1. Party(r) = ({By[r]} \cup ToSet(body[r].named)) \ {Nil}
    BY PartyIsRecipients DEF IInv, TypeOK
  <2>2. parts'[r] = ({By[r]} \cup ToSet(body[r].named)) \ {Nil} /\ parts'[r] \subseteq Accounts
    BY <1>3, <1>4, <2>1
  <2>3. Direct(r) => Cardinality(parts'[r]) = 2
    BY <1>3, <1>4
  <2> QED BY <1>1, <1>2, <1>3, <2>2, <2>3 DEF IInv, ConversationsWhole, Direct
<1>11. OnlyPartyTold'
  BY <1>1, <1>2, <1>3, <1>4 DEF IInv, OnlyPartyTold
<1>12. TwinsOnlyByRace'
  <2> SUFFICES ASSUME NEW s \in convs', NEW t \in convs', s # t,
                      Direct(s), Direct(t), parts'[s] = parts'[t]
               PROVE  s \in rivals'[t] \/ t \in rivals'[s]
    BY <1>1, <1>5, BodyFixed DEF TwinsOnlyByRace, TypeOK
  <2>1. s \in Creates /\ t \in Creates
    BY <1>5 DEF TypeOK
  <2>2. CASE s # r /\ t # r
    BY <1>2, <1>3, <2>1, <2>2 DEF IInv, TwinsOnlyByRace
  <2>3. \A c \in convs : Direct(r) /\ Direct(c) /\ parts[c] = Party(r) => c \in rivals[r]
    BY <1>2 DEF IInv, TwinInv, Looked
  <2>4. CASE s = r
    BY <1>2, <1>3, <1>4, <2>1, <2>3, <2>4
  <2>5. CASE t = r
    BY <1>2, <1>3, <1>4, <2>1, <2>3, <2>5
  <2> QED BY <2>2, <2>4, <2>5
<1> QED BY <1>5, <1>6, <1>7, <1>9, <1>10, <1>11, <1>12 DEF IInv

-----------------------------------------------------------------------------
(* Steps of the announcing goroutine, of a post's handler, and faults.     *)

LEMMA NoteStepInv ==
  ASSUME IInv, NEW r \in Creates, NoteStep(r)
  PROVE  IInv'
<1>1. /\ UNCHANGED <<body, pc, tx, convs, parts, saved, published, rivals, crashes>>
      /\ r \in convs
      /\ UNCHANGED note \/ \E to \in {"names", "users"} : note' = [note EXCEPT ![r] = to]
      /\ UNCHANGED told \/ \E u \in Recipients(r) : told' = [told EXCEPT ![r] = told[r] \cup {u}]
  BY DEF NoteStep, AnnounceConversation, LoadNames, TellUser, IInv, CreateInv, database
<1>2. /\ \A s \in Creates : s # r => note'[s] = note[s] /\ told'[s] = told[s]
      /\ told'[r] \subseteq told[r] \cup Recipients(r)
  BY <1>1 DEF IInv, TypeOK
<1>3. Recipients(r) \subseteq Ids /\ Recipients(r) \cap Accounts \subseteq Party(r)
      /\ Party(r) = ({By[r]} \cup ToSet(body[r].named)) \ {Nil}
  BY PartyIsRecipients DEF IInv, TypeOK
<1>4. TypeOK'
  BY <1>1, <1>3 DEF IInv, TypeOK
<1>5. \A s \in Creates : CreateInv(s)' /\ TwinInv(s)'
  BY <1>1, <1>2, BodyFixed DEF IInv, CreateInv, TwinInv, Direct
<1>6. \A p \in Posts : PostInv(p)'
  BY <1>1 DEF IInv, PostInv
<1>7. ConversationsWhole' /\ PostsSound' /\ TwinsOnlyByRace'
  BY <1>1 DEF IInv, ConversationsWhole, PostsSound, TwinsOnlyByRace, Direct
<1>8. OnlyPartyTold'
  <2>1. parts[r] = Party(r)
    BY <1>1, <1>3 DEF IInv, ConversationsWhole
  <2> QED BY <1>1, <1>2, <1>3, <2>1 DEF IInv, OnlyPartyTold
<1> QED BY <1>4, <1>5, <1>6, <1>7, <1>8 DEF IInv

LEMMA PostStepInv ==
  ASSUME IInv, NEW p \in Posts, SendPost(p) \/ PostStep(p)
  PROVE  IInv'
<1>1. UNCHANGED <<body, tx, convs, parts, note, told, rivals, crashes>>
  BY DEF SendPost, PostStep, CheckMember, SaveMessage, LoadAuthor, PublishMessage, database, announcing
<1>2. PICK to \in {"invalid", "member", "save", "forbidden", "author", "failed", "publish", "posted"} :
        /\ pc' = [pc EXCEPT ![p] = to]
        /\ to = "save" => By[p] \in parts[Into[p]]
        /\ to = "publish" => p \in saved
        /\ to = "author" => p \in saved'
        /\ to \in {"member", "save"} => p \notin saved /\ saved' = saved
        /\ to = "posted" => p \in published'
        /\ \/ saved' = saved
           \/ saved' = saved \cup {p} /\ By[p] \in parts[Into[p]]
        /\ \/ published' = published
           \/ published' = published \cup {p} /\ p \in saved
  <2>1. CASE SendPost(p) \/ CheckMember(p) \/ LoadAuthor(p)
    BY <2>1 DEF SendPost, CheckMember, LoadAuthor, Goto, IInv, PostInv, database
  <2>2. CASE SaveMessage(p)
    BY <2>2 DEF SaveMessage, Goto, IInv, PostInv
  <2>3. CASE PublishMessage(p)
    BY <2>3 DEF PublishMessage, Goto, IInv, PostInv, database
  <2> QED BY <2>1, <2>2, <2>3 DEF PostStep
<1>3. pc'[p] = to /\ \A q \in Requests : q # p => pc'[q] = pc[q]
  BY <1>2, Disjoint DEF IInv, TypeOK, Requests
<1>4. TypeOK'
  BY <1>1, <1>2 DEF IInv, TypeOK, Statements, Replies
<1>5. \A s \in Creates : CreateInv(s)' /\ TwinInv(s)'
  BY <1>1, <1>3, Disjoint, BodyFixed DEF IInv, CreateInv, TwinInv, Direct
<1>6. \A q \in Posts : PostInv(q)'
  BY <1>1, <1>2, <1>3, Disjoint DEF IInv, PostInv
<1>7. ConversationsWhole' /\ OnlyPartyTold' /\ TwinsOnlyByRace'
  BY <1>1 DEF IInv, ConversationsWhole, OnlyPartyTold, TwinsOnlyByRace, Direct
<1>8. PostsSound'
  BY <1>1, <1>2, <1>3, Disjoint DEF IInv, PostsSound
<1> QED BY <1>4, <1>5, <1>6, <1>7, <1>8 DEF IInv

\* Handlers that end early, all at once or one, take their transactions along.
LEMMA FaultStep ==
  ASSUME IInv, Crash \/ \E q \in Requests : Fail(q)
  PROVE  IInv'
<1>1. UNCHANGED <<body, convs, parts, saved, published, told, rivals>>
  BY DEF Crash, Fail, database, announcing
<1>2. /\ \A r \in Creates : note'[r] \in {note[r], "none"}
      /\ \A q \in Requests : \/ pc'[q] = pc[q]
                             \/ pc'[q] \in {"lost", "failed"}
                             \/ pc'[q] = "publish" /\ pc[q] = "author"
      /\ \A r \in Creates : \/ tx'[r] = tx[r] /\ pc'[r] = pc[r]
                            \/ tx'[r] = {} /\ pc'[r] \notin Statements
  <2>1. CASE Crash
    BY <2>1 DEF Crash, IInv, TypeOK, InFlight, Requests, Statements
  <2>2. CASE \E q \in Requests : Fail(q)
    BY <2>2 DEF Fail, announcing, IInv, TypeOK, Requests, Statements
  <2> QED BY <2>1, <2>2
<1>3. TypeOK'
  <2>1. CASE Crash
    BY <2>1, ConversationsAssumption DEF Crash, database, IInv, TypeOK, Requests
  <2>2. CASE \E q \in Requests : Fail(q)
    BY <2>2 DEF Fail, database, announcing, IInv, TypeOK, Statements, Replies
  <2> QED BY <2>1, <2>2
<1>4. ASSUME NEW s \in Creates
      PROVE  CreateInv(s)' /\ TwinInv(s)'
  <2>1. CreateInv(s) /\ TwinInv(s) /\ s \in Requests
    BY DEF IInv, Requests
  <2> QED BY <1>1, <1>2, <2>1, BodyFixed DEF CreateInv, TwinInv, Looked, Direct, Statements
<1>5. \A p \in Posts : PostInv(p)'
  BY <1>1, <1>2 DEF IInv, PostInv, Requests
<1>6. ConversationsWhole' /\ OnlyPartyTold' /\ TwinsOnlyByRace'
  BY <1>1 DEF IInv, ConversationsWhole, OnlyPartyTold, TwinsOnlyByRace, Direct
<1>7. PostsSound'
  BY <1>1, <1>2 DEF IInv, PostsSound, Requests
<1> QED BY <1>3, <1>4, <1>5, <1>6, <1>7 DEF IInv

-----------------------------------------------------------------------------
(* Theorems.                                                               *)

LEMMA InitInv == Init => IInv
<1> SUFFICES ASSUME Init PROVE IInv
  OBVIOUS
<1>1. TypeOK
  BY ConversationsAssumption DEF Init, TypeOK
<1>2. \A r \in Creates : CreateInv(r) /\ TwinInv(r)
  BY DEF Init, CreateInv, TwinInv, Looked, Requests
<1>3. \A p \in Posts : PostInv(p)
  BY DEF Init, PostInv, Requests
<1>4. ConversationsWhole /\ OnlyPartyTold /\ PostsSound /\ TwinsOnlyByRace
  BY DEF Init, ConversationsWhole, OnlyPartyTold, PostsSound, TwinsOnlyByRace, Requests
<1> QED BY <1>1, <1>2, <1>3, <1>4 DEF IInv

LEMMA StutterInv == IInv /\ UNCHANGED vars => IInv'
<1> SUFFICES ASSUME IInv, UNCHANGED vars PROVE IInv'
  OBVIOUS
<1>1. UNCHANGED <<body, pc, tx, convs, parts, saved, published, note, told, rivals, crashes>>
  BY DEF vars, database, announcing
<1>2. TypeOK'
  BY <1>1 DEF IInv, TypeOK
<1>3. \A r \in Creates : CreateInv(r)' /\ TwinInv(r)'
  BY <1>1, BodyFixed DEF IInv, CreateInv, TwinInv, Direct
<1>4. \A p \in Posts : PostInv(p)'
  BY <1>1 DEF IInv, PostInv
<1>5. ConversationsWhole' /\ OnlyPartyTold' /\ PostsSound' /\ TwinsOnlyByRace'
  BY <1>1 DEF IInv, ConversationsWhole, OnlyPartyTold, PostsSound, TwinsOnlyByRace, Direct
<1> QED BY <1>2, <1>3, <1>4, <1>5 DEF IInv

LEMMA NextInv == IInv /\ [Next]_vars => IInv'
<1> SUFFICES ASSUME IInv, [Next]_vars PROVE IInv'
  OBVIOUS
<1>1. CASE \E r \in Creates : \/ SendCreate(r) \/ LookForTwin(r) \/ CountUsers(r)
                              \/ Begin(r) \/ InsertConversation(r)
  BY <1>1, LookingStep
<1>2. CASE \E r \in Creates : InsertParticipant(r)
  BY <1>2, InsertParticipantStep
<1>3. CASE \E r \in Creates : Commit(r)
  BY <1>3, CommitStep
<1>4. CASE \E r \in Creates : NoteStep(r)
  BY <1>4, NoteStepInv
<1>5. CASE \E p \in Posts : SendPost(p) \/ PostStep(p)
  BY <1>5, PostStepInv
<1>6. CASE Crash \/ \E q \in Requests : Fail(q)
  BY <1>6, FaultStep
<1>7. CASE UNCHANGED vars
  BY <1>7, StutterInv
<1> QED BY <1>1, <1>2, <1>3, <1>4, <1>5, <1>6, <1>7 DEF Next, CreateStep

\* The invariant from which the theorems follow.
THEOREM Invariant == Spec => []IInv
  BY InitInv, NextInv, PTL DEF Spec

\* Every variable keeps its type: only accounts take part in conversations,
\* although the handler reads the party from the body (repo.go:224-270).
THEOREM TypeCorrect == Spec => []TypeOK
<1>1. IInv => TypeOK
  BY DEF IInv
<1> QED BY <1>1, Invariant, PTL

\* A conversation is committed with its creator and everybody named, two if it is
\* direct, or not at all, whatever statement fails, whose answer is lost and
\* however often the process dies (repo.go:170-277).
THEOREM ConversationsCorrect == Spec => []ConversationsWhole
<1>1. IInv => ConversationsWhole
  BY DEF IInv
<1> QED BY <1>1, Invariant, PTL

\* The recipients the handler computes from the body are never more than the
\* party the store committed, and nobody is told before (main.go:207-297).
THEOREM AnnouncementsCorrect == Spec => []OnlyPartyTold
<1>1. IInv => OnlyPartyTold
  BY DEF IInv
<1> QED BY <1>1, Invariant, PTL

\* What is published is saved, and what is saved has an author who takes part
\* (main.go:378-405).
THEOREM PostsCorrect == Spec => []PostsSound
<1>1. IInv => PostsSound
  BY DEF IInv
<1> QED BY <1>1, Invariant, PTL

\* Two direct conversations of one pair take two handlers that overlap between
\* check and commit, when a COMMIT takes effect before its handler goes on or
\* never (repo.go:205-276).
THEOREM TwinsCorrect == Spec => []TwinsOnlyByRace
<1>1. IInv => TwinsOnlyByRace
  BY DEF IInv
<1> QED BY <1>1, Invariant, PTL


-----------------------------------------------------------------------------
(* The refinement of Ledger.                                               *)

LEMMA RefinementInit == Init => Abstract!Init
<1> SUFFICES ASSUME Init PROVE Abstract!Init
  OBVIOUS
<1>1. body \in [Creates -> Bodies]
  BY DEF Init
<1>2. \A r \in Creates : Party(r) \subseteq Ids /\ By[r] \in Party(r)
  BY <1>1, ByType, NamesType DEF Party
<1>3. \A q \in Requests : Told(q) = "none"
  BY DEF Init, Told
<1> QED BY <1>2, <1>3 DEF Init, Abstract!Init, Abstract!Requests, Requests

\* A step of one handler changes what its own caller knows, and nobody else.
LEMMA AnswerChange ==
  ASSUME TypeOK, NEW q \in Requests, NEW to, pc' = [pc EXCEPT ![q] = to]
  PROVE  \A s \in Requests : s # q => Told(s)' = Told(s)
<1>1. \A s \in Requests : s # q => pc'[s] = pc[s]
  BY DEF TypeOK
<1> QED BY <1>1 DEF Told

\* Steps between two answers are silent.
LEMMA SilentStep ==
  ASSUME UNCHANGED <<body, parts, saved, published, told>>,
         \A q \in Requests : Told(q)' = Told(q)
  PROVE  UNCHANGED Abstract!vars
<1>1. \A r \in Creates : Party(r)' = Party(r)
  BY BodyFixed
<1> QED BY <1>1 DEF Abstract!vars

\* A refusal finds nothing done.
LEMMA RefusalStep ==
  ASSUME TypeOK, UNCHANGED <<body, parts, saved, published, told>>,
         NEW q \in Requests, NEW to \in {"invalid", "conflict", "forbidden"},
         pc' = [pc EXCEPT ![q] = to], Told(q) = "none",
         q \notin saved, q \in Creates => parts[q] = {}
  PROVE  Abstract!Refuse(q)
<1>1. Told(q)' = "refused" /\ \A s \in Requests : s # q => Told(s)' = Told(s)
  BY AnswerChange DEF Told, TypeOK
<1>2. \A r \in Creates : Party(r)' = Party(r)
  BY BodyFixed
<1>3. Abstract!Answer(q, "refused")
  BY <1>1 DEF Abstract!Answer
<1> QED BY <1>2, <1>3 DEF Abstract!Refuse, Abstract!Done

\* The checks of a create refuse it or go on.
LEMMA LookingRefines ==
  ASSUME IInv, NEW r \in Creates,
         SendCreate(r) \/ LookForTwin(r) \/ CountUsers(r) \/ Begin(r)
         \/ InsertConversation(r) \/ InsertParticipant(r)
  PROVE  [Abstract!Next]_Abstract!vars
<1>1. UNCHANGED <<body, parts, saved, published, told>>
  BY DEF SendCreate, LookForTwin, CountUsers, Begin, InsertConversation, InsertParticipant,
         database, announcing
<1>2. r \in Requests /\ TypeOK
  BY DEF Requests, IInv
<1>3. PICK to \in {"invalid", "exists", "conflict", "count", "failed", "begin", "conv", "party", "commit"} :
        /\ pc' = [pc EXCEPT ![r] = to]
        /\ pc[r] \in Looked \cup {"exists", "idle"}
        /\ to \in {"invalid", "conflict"} => pc[r] \in {"exists", "idle"}
  BY DEF Looked, SendCreate, LookForTwin, CountUsers, Begin, InsertConversation, InsertParticipant, Goto
<1>4. Told(r) = "none"
  BY <1>3 DEF Told, Looked
<1>5. CASE to \in {"invalid", "conflict"}
  <2>1. r \notin convs
    BY <1>3, <1>5 DEF IInv, CreateInv
  <2>2. parts[r] = {} /\ r \notin saved
    BY <2>1, Disjoint DEF IInv, ConversationsWhole, TypeOK
  <2>3. Abstract!Refuse(r)
    BY <1>1, <1>2, <1>3, <1>4, <1>5, <2>2, RefusalStep
  <2> QED BY <1>2, <2>3 DEF Abstract!Next, Abstract!Requests, Requests
<1>6. CASE to \notin {"invalid", "conflict"}
  <2>1. Told(r)' = "none"
    BY <1>2, <1>3, <1>6 DEF Told, TypeOK
  <2>2. \A q \in Requests : Told(q)' = Told(q)
    BY <1>2, <1>3, <1>4, <2>1, AnswerChange
  <2> QED BY <1>1, <2>2, SilentStep
<1> QED BY <1>5, <1>6

\* The commit is the moment the conversation is there, answered or not.
LEMMA CommitRefines ==
  ASSUME IInv, NEW r \in Creates, Commit(r)
  PROVE  Abstract!Create(r)
<1>1. UNCHANGED <<body, saved, published, told>> /\ parts' = [parts EXCEPT ![r] = tx[r]]
  BY DEF Commit
<1>2. r \in Requests /\ TypeOK
  BY DEF Requests, IInv
<1>3. PICK to \in {"created", "failed"} : pc' = [pc EXCEPT ![r] = to]
  BY DEF Commit, Goto
<1>4. pc[r] = "commit"
  BY DEF Commit, Goto
<1>5. /\ r \notin convs /\ tx[r] = Party(r) /\ Party(r) \subseteq Accounts
  BY <1>4 DEF IInv, CreateInv, Looked
<1>6. parts[r] = {} /\ r \notin saved
  BY <1>5, Disjoint DEF IInv, ConversationsWhole, TypeOK
<1>7. \A s \in Creates : Party(s)' = Party(s)
  BY <1>1, BodyFixed
<1>8. Told(r) = "none" /\ \A s \in Requests : s # r => Told(s)' = Told(s)
  BY <1>2, <1>3, <1>4, AnswerChange DEF Told
<1>9. Told(r)' = IF to = "created" THEN "ok" ELSE "none"
  BY <1>2, <1>3 DEF Told, TypeOK
<1>10. CASE to = "created"
  <2>1. Abstract!Answer(r, "ok")
    BY <1>2, <1>8, <1>9, <1>10 DEF Abstract!Answer
  <2> QED BY <1>1, <1>5, <1>6, <1>7, <2>1 DEF Abstract!Create, Abstract!Done
<1>11. CASE to = "failed"
  <2>1. \A q \in Requests : Told(q)' = Told(q)
    BY <1>8, <1>9, <1>11
  <2>2. [q \in Requests |-> Told(q)]' = [q \in Requests |-> Told(q)]
    BY <2>1
  <2> QED BY <1>1, <1>2, <1>5, <1>6, <1>7, <1>8, <2>2 DEF Abstract!Create, Abstract!Done
<1> QED BY <1>3, <1>10, <1>11

\* Telling an account is a step of the ledger; telling uuid.Nil is not.
LEMMA NoteRefines ==
  ASSUME IInv, NEW r \in Creates, NoteStep(r)
  PROVE  [Abstract!Next]_Abstract!vars
<1>1. UNCHANGED <<body, pc, parts, saved, published>>
  BY DEF NoteStep, AnnounceConversation, LoadNames, TellUser, database
<1>2. (\A q \in Requests : Told(q)' = Told(q)) /\ \A s \in Creates : Party(s)' = Party(s)
  BY <1>1, BodyFixed DEF Told
<1>3. CASE told' = told
  BY <1>1, <1>2, <1>3, SilentStep
<1>4. CASE TellUser(r)
  <2>1. PICK u \in Recipients(r) : told' = [told EXCEPT ![r] = told[r] \cup {u}]
    BY <1>4 DEF TellUser
  <2>2. r \in convs
    BY <1>4 DEF TellUser, IInv, CreateInv
  <2>3. parts[r] = Recipients(r) \ {Nil} /\ parts[r] \subseteq Accounts
    BY <2>2 DEF IInv, ConversationsWhole, Recipients
  <2> DEFINE heard == [s \in Creates |-> told[s] \ {Nil}]
  <2>4. CASE u = Nil
    <3>1. heard' = heard
      BY <2>1, <2>4 DEF IInv, TypeOK
    <3> QED BY <1>1, <1>2, <3>1 DEF Abstract!vars
  <2>5. CASE u # Nil
    <3>1. u \in parts[r] /\ u \in Accounts
      BY <2>3, <2>5
    <3>2. heard' = [heard EXCEPT ![r] = heard[r] \cup {u}]
      BY <2>1, <2>5 DEF IInv, TypeOK
    <3>3. Abstract!Tell(r, u)
      BY <1>1, <1>2, <3>1, <3>2 DEF Abstract!Tell
    <3> QED BY <3>1, <3>3 DEF Abstract!Next
  <2> QED BY <2>4, <2>5
<1> QED BY <1>3, <1>4 DEF NoteStep, AnnounceConversation, LoadNames

\* A post is refused, kept or sent, or goes on unseen.
LEMMA PostRefines ==
  ASSUME IInv, NEW p \in Posts, SendPost(p) \/ PostStep(p)
  PROVE  [Abstract!Next]_Abstract!vars
<1>1. UNCHANGED <<body, parts, told>> /\ p \in Requests /\ p \notin Creates /\ TypeOK
  BY Disjoint DEF SendPost, PostStep, CheckMember, SaveMessage, LoadAuthor, PublishMessage,
     database, announcing, Requests, IInv
<1>2. \A r \in Creates : Party(r)' = Party(r)
  BY <1>1, BodyFixed
<1>3. ASSUME NEW to \in {"member", "save", "publish"}, pc' = [pc EXCEPT ![p] = to],
             pc[p] \in {"idle", "member", "author"}, UNCHANGED <<saved, published>>
      PROVE  [Abstract!Next]_Abstract!vars
  <2>1. Told(p)' = Told(p)
    BY <1>1, <1>3 DEF Told, TypeOK
  <2>2. \A q \in Requests : Told(q)' = Told(q)
    BY <1>1, <1>3, <2>1, AnswerChange
  <2> QED BY <1>1, <1>3, <2>2, SilentStep
<1>4. ASSUME NEW to \in {"invalid", "forbidden"}, pc' = [pc EXCEPT ![p] = to],
             pc[p] \in {"idle", "member"}, UNCHANGED <<saved, published>>
      PROVE  [Abstract!Next]_Abstract!vars
  <2>1. p \notin saved
    BY <1>4 DEF IInv, PostInv
  <2>2. Told(p) = "none"
    BY <1>4 DEF Told
  <2>3. Abstract!Refuse(p)
    BY <1>1, <1>4, <2>1, <2>2, RefusalStep
  <2> QED BY <1>1, <2>3 DEF Abstract!Next, Abstract!Requests, Requests
<1>5. CASE SendPost(p)
  BY <1>3, <1>4, <1>5 DEF SendPost, Goto, database
<1>6. CASE CheckMember(p)
  BY <1>3, <1>4, <1>6 DEF CheckMember, Goto, database
<1>7. CASE SaveMessage(p)
  <2>1. PICK to \in {"author", "failed"} : pc' = [pc EXCEPT ![p] = to]
    BY <1>7 DEF SaveMessage, Goto
  <2>2. pc[p] = "save" /\ saved' = saved \cup {p} /\ published' = published
    BY <1>7 DEF SaveMessage, Goto
  <2>3. Told(p) = "none" /\ Told(p)' = "none" /\ By[p] \in parts[Into[p]]
    BY <1>1, <2>1, <2>2 DEF Told, IInv, TypeOK, PostInv
  <2>4. \A q \in Requests : Told(q)' = Told(q)
    BY <1>1, <2>1, <2>3, AnswerChange
  <2>5. Abstract!Keep(p)
    BY <1>1, <1>2, <2>2, <2>3, <2>4 DEF Abstract!Keep
  <2> QED BY <2>5 DEF Abstract!Next
<1>8. CASE LoadAuthor(p)
  BY <1>3, <1>8 DEF LoadAuthor, Goto, database
<1>9. CASE PublishMessage(p)
  <2>1. /\ pc[p] = "publish" /\ pc' = [pc EXCEPT ![p] = "posted"]
        /\ saved' = saved /\ published' = published \cup {p}
    BY <1>9 DEF PublishMessage, Goto, database
  <2>2. Told(p) = "none" /\ Told(p)' = "ok" /\ p \in saved
    BY <1>1, <2>1 DEF Told, IInv, TypeOK, PostInv
  <2>3. \A q \in Requests : q # p => Told(q)' = Told(q)
    BY <1>1, <2>1, AnswerChange
  <2>4. Abstract!Answer(p, "ok")
    BY <1>1, <2>2, <2>3 DEF Abstract!Answer
  <2>5. Abstract!Send(p)
    BY <1>1, <1>2, <2>1, <2>2, <2>4 DEF Abstract!Send
  <2> QED BY <2>5 DEF Abstract!Next
<1> QED BY <1>5, <1>6, <1>7, <1>8, <1>9 DEF PostStep

\* Errors and crashes leave the callers in the dark, and no trace.
LEMMA FaultRefines ==
  ASSUME IInv, Crash \/ \E q \in Requests : Fail(q)
  PROVE  UNCHANGED Abstract!vars
<1>1. UNCHANGED <<body, parts, saved, published, told>>
  BY DEF Crash, Fail, database, announcing
<1>2. ASSUME NEW q \in Requests PROVE Told(q)' = Told(q)
  <2>1. \/ pc'[q] = pc[q]
        \/ pc[q] \in Statements \cup {"publish"} /\ pc'[q] \in {"lost", "failed", "publish"}
    BY DEF Crash, Fail, InFlight, IInv, TypeOK
  <2> QED BY <2>1 DEF Told, Statements
<1> QED BY <1>1, <1>2, SilentStep

LEMMA RefinementStep == IInv /\ [Next]_vars => [Abstract!Next]_Abstract!vars
<1> SUFFICES ASSUME IInv, [Next]_vars PROVE [Abstract!Next]_Abstract!vars
  OBVIOUS
<1>1. CASE \E r \in Creates : \/ SendCreate(r) \/ LookForTwin(r) \/ CountUsers(r)
                              \/ Begin(r) \/ InsertConversation(r) \/ InsertParticipant(r)
  BY <1>1, LookingRefines
<1>2. CASE \E r \in Creates : Commit(r)
  BY <1>2, CommitRefines DEF Abstract!Next
<1>3. CASE \E r \in Creates : NoteStep(r)
  BY <1>3, NoteRefines
<1>4. CASE \E p \in Posts : SendPost(p) \/ PostStep(p)
  BY <1>4, PostRefines
<1>5. CASE Crash \/ \E q \in Requests : Fail(q)
  BY <1>5, FaultRefines
<1>6. CASE UNCHANGED vars
  BY <1>6, SilentStep DEF vars, database, announcing, Told
<1> QED BY <1>1, <1>2, <1>3, <1>4, <1>5, <1>6 DEF Next, CreateStep

\* The two handlers, with their statements, transactions, goroutines, errors and
\* crashes, are a Ledger: a conversation is there at once and whole before its
\* party hears of it, a 201 tells of what is there to stay, and a refused
\* request leaves no trace (main.go:153-297, 335-409; repo.go:151-277).
THEOREM ConversationsImplementLedger == Spec => ImplementsLedger
<1>1. Spec => Abstract!Spec
  BY RefinementInit, RefinementStep, Invariant, PTL DEF Spec, Abstract!Spec
<1> QED BY <1>1 DEF ImplementsLedger
=============================================================================
