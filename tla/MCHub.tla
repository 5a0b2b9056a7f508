------------------------------- MODULE MCHub -------------------------------
(***************************************************************************)
(* Instances of Hub for TLC.                                               *)
(***************************************************************************)
EXTENDS Hub, TLC

CONSTANTS s1, s2, c1, c2, c3, m1, n1, u1, u2, k1, k1raw, k2

MCUsers == {u1, u2}
MCKeys == {k1, k1raw, k2}
MCCanon == [k \in MCKeys |-> IF k = k1raw THEN k1 ELSE k]

\* Two processes, each with a connection of one user to one room; handlers of
\* the first publish a message for the room and an event for the user.
FanServers == {s1, s2}
FanClients == {c1, c2}
FanHandlers == {m1, n1}
FanMembers == {<<u1, k1>>}
FanHost == [x \in FanHandlers \cup {c1} |-> s1] @@ (c2 :> s2)
FanOwner == [c \in FanClients |-> u1]
FanOp == [c \in FanClients |-> "event"] @@ (m1 :> "message") @@ (n1 :> "user")
FanTarget == [x \in {c1, c2, m1} |-> k1] @@ (n1 :> u1)

\* One process; two connections of one user in a room, a third in the room
\* that another spelling of the same key makes; a message that may be
\* retried and a user event, whose scan holds the read lock.
ChurnServers == {s1}
ChurnClients == {c1, c2, c3}
ChurnHandlers == {m1, n1}
ChurnMembers == {<<u1, k1>>}
ChurnHost == [x \in ChurnClients \cup ChurnHandlers |-> s1]
ChurnOwner == [c \in ChurnClients |-> u1]
ChurnOp == [c \in ChurnClients |-> "event"] @@ (m1 :> "message") @@ (n1 :> "user")
ChurnTarget == (c1 :> k1) @@ (c2 :> k1) @@ (c3 :> k1raw) @@ (m1 :> k1) @@ (n1 :> u1)
ChurnSymmetry == Permutations({c1, c2})

\* Two processes with a connection each, in rooms of two spellings of a key;
\* the first sends presence and may stop reading; the second process has a
\* handler that publishes a message.
FrameServers == {s1, s2}
FrameClients == {c1, c2}
FrameHandlers == {m1}
FrameMembers == {<<u1, k1>>, <<u2, k1>>}
FrameHost == (c1 :> s1) @@ (c2 :> s2) @@ (m1 :> s2)
FrameOwner == (c1 :> u1) @@ (c2 :> u2)
FrameOp == (c1 :> "presence") @@ (c2 :> "event") @@ (m1 :> "message")
FrameTarget == (c1 :> k1raw) @@ (c2 :> k1) @@ (m1 :> k1)

\* One process with connections of two users in two rooms, and one of the first
\* user for the second room, of which he is no participant.  A handler publishes
\* an event for the first user, who also sends a frame.
ScanMembers == {<<u1, k1>>, <<u2, k2>>}
ScanHandlers == {n1}
ScanHost == [x \in ChurnClients \cup ScanHandlers |-> s1]
ScanOwner == [c \in {c1, c3} |-> u1] @@ (c2 :> u2)
ScanOp == [c \in ChurnClients |-> "event"] @@ (n1 :> "user")
ScanTarget == (c1 :> k1) @@ [c \in {c2, c3} |-> k2] @@ (n1 :> u1)
=============================================================================
