---------------------------- MODULE OwnerRouting ----------------------------
(***************************************************************************)
(* A cluster of nodes (pkg/cluster) and the proxy listeners that bring a   *)
(* connection to the owner of its topic (pkg/rtspsrv/proxy_listener.go).   *)
(*                                                                         *)
(* The list of the nodes is the same everywhere and never changes.  Which  *)
(* of them drain is known to each node for itself: the admin handler tells *)
(* one node, and a restart forgets.  The owner is computed three times for *)
(* one client, at different moments and nodes: by the listener that peeks  *)
(* the first request, by the listener of the node it forwards to, and by   *)
(* OnAnnounce or OnSetup.                                                  *)
(*                                                                         *)
(* The first request of a client names the path that it announces or sets  *)
(* up.  A connection that is forwarded is one conn here with the nodes it  *)
(* came through: when one end of the chain closes, the copy goroutines     *)
(* close the rest.                                                         *)
(***************************************************************************)
EXTENDS Integers, Sequences, FiniteSets

CONSTANTS
  Nodes,      \* the processes
  Members,    \* the list of --cluster-nodes
  Topics,
  Score,      \* Score[t][n]: hash of node n and topic t
  Conns,      \* client connections; a value is used again after it closed
  PubConns,   \* those to the publisher port
  NoNode,
  MaxChanges  \* bound on drain calls and restarts

ASSUME NodesAssumption == IsFiniteSet(Nodes) /\ NoNode \notin Nodes
ASSUME MembersAssumption == Members \in Seq(Nodes)
ASSUME ScoreAssumption == Score \in [Topics -> [Nodes -> Nat]]
ASSUME ConnsAssumption == PubConns \subseteq Conns
ASSUME BoundAssumption == MaxChanges \in Nat

VARIABLES
  draining,   \* draining[n]: the nodes that drain in the eyes of n
  changes,    \* drain calls and restarts so far
  st,         \* what becomes of a connection
  topic,      \* the topic it is for
  at,         \* the node it has reached
  via,        \* the nodes that forward it
  target,     \* the node that is dialled
  steady      \* history: see Connect

viewVars == <<draining, changes>>
connVars == <<st, topic, at, via, target, steady>>
vars == <<viewVars, connVars>>

\* backlog: not accepted yet; peek, dial: in the accept loop of the node;
\* local: handed to the RTSP server; session: the last request was accepted;
\* refused: OnAnnounce or OnSetup did not.
States == {"closed", "backlog", "peek", "dial", "local", "session", "refused"}

Init ==
  /\ draining = [n \in Nodes |-> {}] /\ changes = 0
  /\ st = [c \in Conns |-> "closed"]
  /\ topic \in [Conns -> Topics]
  /\ at = [c \in Conns |-> NoNode]
  /\ via = [c \in Conns |-> {}]
  /\ target = [c \in Conns |-> NoNode]
  /\ steady = [c \in Conns |-> FALSE]

-----------------------------------------------------------------------------
(* pkg/cluster *)

Candidates(view) == {i \in 1..Len(Members) : Members[i] \notin view}

\* The first of two nodes with the same score wins.
Better(t, i, j) ==
  \/ Score[t][Members[i]] > Score[t][Members[j]]
  \/ Score[t][Members[i]] = Score[t][Members[j]] /\ i < j

\* (Mutant: the topic goes to a place in the list of the nodes that are left.)
OwnerByPlace(view, t) ==
  IF Candidates(view) = {} THEN NoNode
  ELSE LET k == Score[t][Members[1]] % Cardinality(Candidates(view))
       IN  Members[CHOOSE i \in Candidates(view) :
                     Cardinality({j \in Candidates(view) : j < i}) = k]

\* Rendezvous hashing without the draining nodes; no node when all drain.
Owner(view, t) ==
  IF Candidates(view) = {} THEN NoNode
  ELSE Members[CHOOSE i \in Candidates(view) :
                 \A j \in Candidates(view) \ {i} : Better(t, i, j)]

\* DrainHandler at node n, which knows the members.  Telling it what it has
\* been told changes nothing.
Drain(n, m, d) ==
  /\ changes < MaxChanges
  /\ \E i \in 1..Len(Members) : Members[i] = m
  /\ d <=> m \notin draining[n]
  /\ draining' = [draining EXCEPT ![n] = IF d THEN @ \cup {m} ELSE @ \ {m}]
  /\ changes' = changes + 1
  /\ steady' = [c \in Conns |-> FALSE]
  /\ UNCHANGED <<st, topic, at, via, target>>

\* A node starts again: its view is empty and its connections are gone.  One
\* reason is DrainHandler itself: it writes a map that Owner reads without a
\* lock, which the runtime may end the process for.
Restart(n) ==
  /\ changes < MaxChanges
  /\ draining' = [draining EXCEPT ![n] = {}]
  /\ changes' = changes + 1
  /\ LET hit == {c \in Conns : n = at[c] \/ n \in via[c]} IN
       /\ st' = [c \in Conns |-> IF c \in hit THEN "closed" ELSE st[c]]
       /\ at' = [c \in Conns |-> IF c \in hit THEN NoNode ELSE at[c]]
       /\ via' = [c \in Conns |-> IF c \in hit THEN {} ELSE via[c]]
       /\ target' = [c \in Conns |-> IF c \in hit THEN NoNode ELSE target[c]]
  /\ steady' = [c \in Conns |-> FALSE]
  /\ UNCHANGED topic

-----------------------------------------------------------------------------
(* Clients and the accept loop *)

\* All nodes see the same nodes drain.
Agreed == \A n, m \in Nodes : draining[n] = draining[m]

\* A connection is steady as long as the views stay as they were, and agreed,
\* from its first moment on.
Connect(c, n, t) ==
  /\ st[c] = "closed"
  /\ st' = [st EXCEPT ![c] = "backlog"]
  /\ at' = [at EXCEPT ![c] = n]
  /\ topic' = [topic EXCEPT ![c] = t]
  /\ steady' = [steady EXCEPT ![c] = Agreed]
  /\ UNCHANGED <<viewVars, via, target>>

SameListener(c, d) == at[c] = at[d] /\ (c \in PubConns <=> d \in PubConns)

\* (Mutant: the loop copies the bytes of what it forwards itself.)
AcceptAfterCopy(c) ==
  /\ st[c] = "backlog"
  /\ \A d \in Conns : st[d] \in {"peek", "dial"} => ~SameListener(c, d)
  /\ \A d \in Conns : at[c] \notin via[d]
  /\ st' = [st EXCEPT ![c] = "peek"]
  /\ UNCHANGED <<viewVars, topic, at, via, target, steady>>

\* The accept loop peeks at and dials for one connection at a time.
Accept(c) ==
  /\ st[c] = "backlog"
  /\ \A d \in Conns : st[d] \in {"peek", "dial"} => ~SameListener(c, d)
  /\ st' = [st EXCEPT ![c] = "peek"]
  /\ UNCHANGED <<viewVars, topic, at, via, target, steady>>

\* (Mutants: a node dials itself; a node dials nobody.)
KeepsUnowned(n, o) == o = NoNode
KeepsOwn(n, o) == o = n

\* The listener hands the connection to the RTSP server of its node.
Keeps(n, o) == o = NoNode \/ o = n

\* The first request has been read.
Peeked(c) ==
  /\ st[c] = "peek"
  /\ LET o == Owner(draining[at[c]], topic[c]) IN
       IF Keeps(at[c], o)
       THEN st' = [st EXCEPT ![c] = "local"] /\ UNCHANGED target
       ELSE st' = [st EXCEPT ![c] = "dial"] /\ target' = [target EXCEPT ![c] = o]
  /\ UNCHANGED <<viewVars, topic, at, via, steady>>

\* Nothing was read in two seconds: kept without a look at the topic.
PeekTimeout(c) ==
  /\ st[c] = "peek"
  /\ st' = [st EXCEPT ![c] = "local"]
  /\ UNCHANGED <<viewVars, topic, at, via, target, steady>>

\* The owner accepts; it may be a node that came through already.
Dialled(c) ==
  /\ st[c] = "dial"
  /\ st' = [st EXCEPT ![c] = "backlog"]
  /\ via' = [via EXCEPT ![c] = @ \cup {at[c]}]
  /\ at' = [at EXCEPT ![c] = target[c]]
  /\ target' = [target EXCEPT ![c] = NoNode]
  /\ UNCHANGED <<viewVars, topic, steady>>

\* (Mutant: the handler trusts the listener.)
IsSelfUnchecked(n, o) == TRUE

IsSelf(n, o) == o = n

\* OnAnnounce, OnSetup: the owner is computed again, by every request of the
\* session.
Request(c) ==
  /\ st[c] \in {"local", "session", "refused"}
  /\ st' = [st EXCEPT ![c] =
       IF IsSelf(at[c], Owner(draining[at[c]], topic[c])) THEN "session" ELSE "refused"]
  /\ UNCHANGED <<viewVars, topic, at, via, target, steady>>

Disconnect(c) ==
  /\ st' = [st EXCEPT ![c] = "closed"]
  /\ at' = [at EXCEPT ![c] = NoNode]
  /\ via' = [via EXCEPT ![c] = {}]
  /\ target' = [target EXCEPT ![c] = NoNode]
  /\ steady' = [steady EXCEPT ![c] = FALSE]
  /\ UNCHANGED <<viewVars, topic>>

\* The client is answered 503 by the listener and disconnected.
DialFails(c) == st[c] = "dial" /\ Disconnect(c)

\* The client leaves, or its end of the chain breaks, at any time.
CloseConn(c) == st[c] # "closed" /\ Disconnect(c)

Next ==
  \/ \E n, m \in Nodes, d \in BOOLEAN : Drain(n, m, d)
  \/ \E n \in Nodes : Restart(n)
  \/ \E c \in Conns, n \in Nodes, t \in Topics : Connect(c, n, t)
  \/ \E c \in Conns :
       \/ Accept(c) \/ Peeked(c) \/ PeekTimeout(c) \/ Dialled(c) \/ DialFails(c)
       \/ Request(c) \/ CloseConn(c)

Spec == Init /\ [][Next]_vars

\* The deadline of the peek and the timeout of the dial end each of them, and
\* the backlog of a listener is first in, first out (strong fairness: others
\* keep the loop busy).
Fairness ==
  \A c \in Conns : /\ SF_vars(Accept(c))
                   /\ WF_vars(Peeked(c) \/ PeekTimeout(c))
                   /\ WF_vars(Dialled(c) \/ DialFails(c))

FairSpec == Spec /\ Fairness

-----------------------------------------------------------------------------
(* Properties *)

\* Every variable has its type, a connection is at a node until it is closed,
\* and a listener dials only a node that there is.
TypeOK ==
  /\ draining \in [Nodes -> SUBSET Nodes] /\ changes \in 0..MaxChanges
  /\ st \in [Conns -> States]
  /\ topic \in [Conns -> Topics]
  /\ at \in [Conns -> Nodes \cup {NoNode}] /\ via \in [Conns -> SUBSET Nodes]
  /\ target \in [Conns -> Nodes \cup {NoNode}]
  /\ \A c \in Conns : /\ st[c] = "closed" <=> at[c] = NoNode
                      /\ st[c] = "dial" <=> target[c] # NoNode
  /\ steady \in [Conns -> BOOLEAN]

\* The owner of the topic where the connection is now.
Home(c) == Owner(draining[at[c]], topic[c])

\* The owner is computed three times, and while the views agree and rest the
\* three agree: a client is forwarded once at most, never to a node it came
\* through, and OnAnnounce and OnSetup refuse only clients that connected to
\* them directly (the comment of server.go:279), slow ones or when all drain.
SteadyOneHop ==
  \A c \in Conns : steady[c] =>
    /\ Cardinality(via[c]) <= 1 /\ at[c] \notin via[c]
    /\ via[c] # {} => at[c] = Home(c)
    /\ st[c] = "session" => at[c] = Home(c)
    /\ st[c] = "refused" => via[c] = {}

\* Publishers and subscribers that enter the cluster at any two nodes, slow
\* ones included, meet at one node, so that the subscriber finds the stream.
ReadersMeetPublisher ==
  \A c, d \in Conns :
    steady[c] /\ steady[d] /\ st[c] = "session" /\ st[d] = "session"
      /\ topic[c] = topic[d] => at[c] = at[d]

\* SetDraining "ignored for new owner selection" (cluster.go:80): a node that
\* drains gives its topics away and the others keep theirs; one that stops to
\* drain takes topics only for itself.
DrainMovesOnlyOwn ==
  [][\A n, m \in Nodes, d \in BOOLEAN, t \in Topics :
       LET before == Owner(draining[n], t)
           after == Owner(draining'[n], t)
       IN  Drain(n, m, d) /\ before # after => (IF d THEN before ELSE after) = m]_vars

Travelling(c) == st[c] \in {"backlog", "peek", "dial"}

\* Once the views agree for good, every connection gets to a server or is
\* answered, whatever loop it was in and whoever shares its listeners.
SettlesWhenAgreed ==
  <>[]Agreed => \A c \in Conns : Travelling(c) ~> ~Travelling(c)

-----------------------------------------------------------------------------
\* contrib/docker-compose/README.md:93 "the node you connect to will proxy the
\* TCP connection to the owner": nodes that disagree about who drains forward
\* a connection to each other for ever.
Settles == \A c \in Conns : Travelling(c) ~> ~Travelling(c)
=============================================================================
