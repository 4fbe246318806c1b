------------------------- MODULE OwnerRoutingProofs -------------------------
(***************************************************************************)
(* Proofs about OwnerRouting, for any number of nodes and connections,     *)
(* every list of members, every hash and all views.                        *)
(*                                                                         *)
(* Better orders the places of the list, so that of the nodes that do not  *)
(* drain exactly one is the best.  It stays the best when another leaves,  *)
(* and it is the same wherever it is computed from the same view: this is  *)
(* what draining and forwarding rest on.                                   *)
(***************************************************************************)
EXTENDS OwnerRouting, FiniteSetTheorems, WellFoundedInduction, SequenceTheorems, TLAPS

-----------------------------------------------------------------------------
(* Rendezvous hashing *)

\* Better orders the places of the list.
LEMMA BetterOrder ==
  ASSUME NEW t \in Topics, NEW i \in 1..Len(Members), NEW j \in 1..Len(Members),
         NEW k \in 1..Len(Members)
  PROVE  /\ ~Better(t, i, i)
         /\ ~(Better(t, i, j) /\ Better(t, j, i))
         /\ i # j => Better(t, i, j) \/ Better(t, j, i)
         /\ Better(t, i, j) /\ Better(t, j, k) => Better(t, i, k)
<1>1. \A x \in 1..Len(Members) : Score[t][Members[x]] \in Nat
  BY MembersAssumption, ScoreAssumption, ElementOfSeq
<1>2. /\ Score[t][Members[i]] \in Nat /\ Score[t][Members[j]] \in Nat
      /\ Score[t][Members[k]] \in Nat
  BY <1>1
<1>3. i \in Int /\ j \in Int /\ k \in Int
  OBVIOUS
<1> QED  BY <1>2, <1>3 DEF Better

Best(view, t, i) ==
  i \in Candidates(view) /\ \A j \in Candidates(view) \ {i} : Better(t, i, j)

\* One of the nodes that do not drain is better than the others: the list is
\* finite, so that a place with the fewest better ones exists, and it has none.
LEMMA BestExists ==
  ASSUME NEW view, NEW t \in Topics, Candidates(view) # {}
  PROVE  \E i \in Candidates(view) : Best(view, t, i)
<1> DEFINE C == Candidates(view)
           U(i) == {j \in C : Better(t, j, i)}
           T == {U(i) : i \in C}
<1>1. C \subseteq 1..Len(Members)
  BY DEF Candidates
<1>2. IsFiniteSet(C)
  <2>1. Len(Members) \in Nat
    BY MembersAssumption, LenProperties
  <2>2. IsFiniteSet(1..Len(Members))
    BY <2>1, FS_Interval
  <2> QED  BY <1>1, <2>2, FS_Subset
<1>3. T \subseteq FiniteSubsetsOf(C) /\ T # {}
  <2>1. FiniteSubsetsOf(C) = SUBSET C
    BY <1>2, FS_FiniteSubsetsOfFinite
  <2>2. \A i \in C : U(i) \in SUBSET C
    OBVIOUS
  <2>3. T \subseteq SUBSET C
    BY <2>2
  <2>4. PICK i : i \in C
    OBVIOUS
  <2>5. U(i) \in T
    BY <2>4
  <2> QED  BY <2>1, <2>3, <2>5
<1>4. PICK x \in T : \A y \in T : <<y, x>> \notin StrictSubsetOrdering(C)
  <2>1. IsWellFoundedOn(StrictSubsetOrdering(C), FiniteSubsetsOf(C))
    BY FS_StrictSubsetOrderingWellFounded
  <2> HIDE DEF T, C
  <2> QED  BY <1>3, <2>1, WFMin
<1>5. PICK i \in C : x = U(i)
  OBVIOUS
<1>6. U(i) = {}
  <2> SUFFICES ASSUME NEW j \in U(i) PROVE FALSE
    OBVIOUS
  <2>1. j \in C /\ Better(t, j, i)
    OBVIOUS
  <2>2. U(j) \subseteq U(i) /\ j \notin U(j)
    BY <1>1, <2>1, BetterOrder
  <2>3. <<U(j), U(i)>> \in StrictSubsetOrdering(C)
    BY <2>2 DEF StrictSubsetOrdering
  <2> QED  BY <1>4, <1>5, <2>1, <2>3
<1> QED  BY <1>1, <1>5, <1>6, BetterOrder DEF Best

LEMMA BestUnique ==
  ASSUME NEW view, NEW t \in Topics, NEW i, NEW j, Best(view, t, i), Best(view, t, j)
  PROVE  i = j
BY BetterOrder DEF Best, Candidates

LEMMA BestOwns ==
  ASSUME NEW view, NEW t \in Topics, NEW i, Best(view, t, i)
  PROVE  Owner(view, t) = Members[i]
<1> DEFINE w == CHOOSE k \in Candidates(view) :
                  \A j \in Candidates(view) \ {k} : Better(t, k, j)
<1>1. Best(view, t, w)
  BY DEF Best
<1>2. w = i
  BY <1>1, BestUnique
<1>3. Candidates(view) # {}
  BY DEF Best
<1> QED  BY <1>2, <1>3 DEF Owner

\* The owner is a member that does not drain, or nobody when all drain.
LEMMA OwnerOK ==
  ASSUME NEW view, NEW t \in Topics
  PROVE  /\ Owner(view, t) \in Nodes \cup {NoNode}
         /\ Owner(view, t) # NoNode => Owner(view, t) \notin view
<1>1. CASE Candidates(view) = {}
  BY <1>1 DEF Owner
<1>2. CASE Candidates(view) # {}
  <2>1. PICK i : Best(view, t, i)
    BY <1>2, BestExists
  <2>2. i \in 1..Len(Members) /\ Members[i] \notin view
    BY <2>1 DEF Best, Candidates
  <2>3. Members[i] \in Nodes
    BY <2>2, MembersAssumption, ElementOfSeq
  <2> QED  BY <2>1, <2>2, <2>3, BestOwns
<1> QED  BY <1>1, <1>2

\* Taking m out of the nodes that are left moves the topics of m alone.
LEMMA OwnerMoves ==
  ASSUME NEW view, NEW m, NEW t \in Topics,
         Owner(view, t) # Owner(view \cup {m}, t)
  PROVE  Owner(view, t) = m
<1>1. Candidates(view \cup {m}) \subseteq Candidates(view)
  BY DEF Candidates
<1>2. Candidates(view) # {}
  BY <1>1 DEF Owner
<1>3. PICK i : Best(view, t, i)
  BY <1>2, BestExists
<1>4. Owner(view, t) = Members[i]
  BY <1>3, BestOwns
<1>5. ASSUME Members[i] # m PROVE FALSE
  <2>1. i \in Candidates(view \cup {m})
    BY <1>3, <1>5 DEF Best, Candidates
  <2>2. Best(view \cup {m}, t, i)
    BY <1>1, <1>3, <2>1 DEF Best
  <2> QED  BY <1>4, <2>2, BestOwns
<1> QED  BY <1>4, <1>5

-----------------------------------------------------------------------------
(* Types *)

LEMMA RoutingInit == Init => TypeOK
BY NodesAssumption, BoundAssumption DEF Init, TypeOK, States

LEMMA RoutingNext == TypeOK /\ [Next]_vars => TypeOK'
<1> SUFFICES ASSUME TypeOK, [Next]_vars PROVE TypeOK'
  OBVIOUS
<1> USE NodesAssumption, BoundAssumption DEF TypeOK, States, viewVars, connVars
<1>0. ASSUME NEW c \in Conns
      PROVE  /\ st[c] = "closed" <=> at[c] = NoNode
             /\ st[c] = "dial" <=> target[c] # NoNode
  OBVIOUS
<1>1. ASSUME NEW n \in Nodes, NEW m \in Nodes, NEW d \in BOOLEAN, Drain(n, m, d) PROVE TypeOK'
  <2>1. draining' \in [Nodes -> SUBSET Nodes]
    BY <1>1 DEF Drain
  <2>2. changes' \in 0..MaxChanges
    BY <1>1 DEF Drain
  <2>3. steady' \in [Conns -> BOOLEAN]
    BY <1>1 DEF Drain
  <2> QED  BY <1>1, <2>1, <2>2, <2>3 DEF Drain
<1>2. ASSUME NEW n \in Nodes, Restart(n) PROVE TypeOK'
  <2>1. changes' \in 0..MaxChanges
    BY <1>2 DEF Restart
  <2>2. draining' \in [Nodes -> SUBSET Nodes] /\ steady' \in [Conns -> BOOLEAN]
    BY <1>2 DEF Restart
  <2> DEFINE hit == {c \in Conns : n = at[c] \/ n \in via[c]}
  <2>3. /\ st' = [c \in Conns |-> IF c \in hit THEN "closed" ELSE st[c]]
        /\ at' = [c \in Conns |-> IF c \in hit THEN NoNode ELSE at[c]]
        /\ via' = [c \in Conns |-> IF c \in hit THEN {} ELSE via[c]]
        /\ target' = [c \in Conns |-> IF c \in hit THEN NoNode ELSE target[c]]
    BY <1>2 DEF Restart
  <2> HIDE DEF hit
  <2>4. /\ st' \in [Conns -> States] /\ at' \in [Conns -> Nodes \cup {NoNode}]
        /\ via' \in [Conns -> SUBSET Nodes] /\ target' \in [Conns -> Nodes \cup {NoNode}]
    BY <2>3
  <2>5. \A c \in Conns : /\ st'[c] = "closed" <=> at'[c] = NoNode
                         /\ st'[c] = "dial" <=> target'[c] # NoNode
    BY <2>3
  <2>6. topic' = topic
    BY <1>2 DEF Restart
  <2> QED  BY <2>1, <2>2, <2>4, <2>5, <2>6
<1>3. ASSUME NEW c \in Conns, NEW n \in Nodes, NEW t \in Topics, Connect(c, n, t) PROVE TypeOK'
  <2>1. steady' \in [Conns -> BOOLEAN]
    BY <1>3 DEF Connect, Agreed
  <2> QED  BY <1>3, <2>1 DEF Connect
<1>4. ASSUME NEW c \in Conns, Accept(c) PROVE TypeOK'
  BY <1>4 DEF Accept
<1>5. ASSUME NEW c \in Conns, Peeked(c) PROVE TypeOK'
  <2> DEFINE o == Owner(draining[at[c]], topic[c])
  <2>1. o \in Nodes \cup {NoNode}
    BY OwnerOK
  <2> HIDE DEF o
  <2>2. CASE Keeps(at[c], o)
    BY <1>5, <2>2 DEF Peeked, o
  <2>3. CASE ~Keeps(at[c], o)
    <3>1. /\ st' = [st EXCEPT ![c] = "dial"] /\ target' = [target EXCEPT ![c] = o]
          /\ UNCHANGED <<viewVars, topic, at, via, steady>> /\ st[c] = "peek"
      BY <1>5, <2>3 DEF Peeked, o
    <3>2. o \in Nodes
      BY <2>1, <2>3 DEF Keeps
    <3>3. st' \in [Conns -> States] /\ target' \in [Conns -> Nodes \cup {NoNode}]
      BY <3>1, <3>2
    <3>4. ASSUME NEW u \in Conns
          PROVE  /\ st'[u] = "closed" <=> at[u] = NoNode
                 /\ st'[u] = "dial" <=> target'[u] # NoNode
      <4>1. CASE u = c
        <5>1. st'[u] = "dial" /\ target'[u] = o /\ at[u] # NoNode
          BY <1>0, <3>1, <4>1
        <5> QED  BY <3>2, <5>1
      <4>2. CASE u # c
        BY <1>0, <3>1, <4>2
      <4> QED  BY <4>1, <4>2
    <3> QED  BY <3>1, <3>3, <3>4
  <2> QED  BY <2>2, <2>3
<1>6. ASSUME NEW c \in Conns, PeekTimeout(c) PROVE TypeOK'
  BY <1>6 DEF PeekTimeout
<1>7. ASSUME NEW c \in Conns, Dialled(c) PROVE TypeOK'
  <2>0. st[c] = "dial"
    BY <1>7 DEF Dialled
  <2>1. target[c] \in Nodes /\ at[c] \in Nodes
    <3>1. target[c] \in Nodes \cup {NoNode} /\ at[c] \in Nodes \cup {NoNode}
      OBVIOUS
    <3>2. target[c] # NoNode /\ at[c] # NoNode
      BY ONLY <1>0, <2>0, c \in Conns
    <3> QED  BY <3>1, <3>2
  <2> QED  BY <1>7, <2>1 DEF Dialled
<1>8. ASSUME NEW c \in Conns, Request(c) PROVE TypeOK'
  <2>1. CASE IsSelf(at[c], Owner(draining[at[c]], topic[c]))
    BY <1>8, <2>1 DEF Request
  <2>2. CASE ~IsSelf(at[c], Owner(draining[at[c]], topic[c]))
    BY <1>8, <2>2 DEF Request
  <2> QED  BY <2>1, <2>2
<1>9. ASSUME NEW c \in Conns, DialFails(c) \/ CloseConn(c) PROVE TypeOK'
  <2>1. steady' \in [Conns -> BOOLEAN]
    BY <1>9 DEF DialFails, CloseConn, Disconnect
  <2> QED  BY <1>9, <2>1 DEF DialFails, CloseConn, Disconnect
<1>10. CASE UNCHANGED vars
  BY <1>10 DEF vars
<1> QED
  BY <1>1, <1>2, <1>3, <1>4, <1>5, <1>6, <1>7, <1>8, <1>9, <1>10 DEF Next

\* A connection is at a node until it is closed, and a listener dials only a
\* node of the list that it does not know to drain.
THEOREM RoutingTypes == Spec => []TypeOK
BY RoutingInit, RoutingNext, PTL DEF Spec

-----------------------------------------------------------------------------
(* Draining *)

\* cluster.go:80: draining moves the topics of the node that drains, and of
\* no other, for every list of nodes and every hash.
THEOREM DrainCorrect == Spec => DrainMovesOnlyOwn
<1>1. TypeOK /\ [Next]_vars =>
        [\A n, m \in Nodes, d \in BOOLEAN, t \in Topics :
           LET before == Owner(draining[n], t)
               after == Owner(draining'[n], t)
           IN  Drain(n, m, d) /\ before # after => (IF d THEN before ELSE after) = m]_vars
  <2> SUFFICES ASSUME TypeOK, NEW n \in Nodes, NEW m \in Nodes, NEW d \in BOOLEAN,
                      NEW t \in Topics, Drain(n, m, d),
                      Owner(draining[n], t) # Owner(draining'[n], t)
               PROVE  (IF d THEN Owner(draining[n], t) ELSE Owner(draining'[n], t)) = m
    BY ZenonT(60)
  <2>1. CASE d
    <3>1. draining'[n] = draining[n] \cup {m}
      BY <2>1 DEF Drain, TypeOK
    <3>2. Owner(draining[n], t) # Owner(draining[n] \cup {m}, t)
      BY <3>1
    <3>3. Owner(draining[n], t) = m
      BY <3>2, OwnerMoves
    <3> QED  BY <2>1, <3>3
  <2>2. CASE ~d
    <3>1. draining'[n] = draining[n] \ {m} /\ m \in draining[n]
      BY <2>2 DEF Drain, TypeOK
    <3>2. draining[n] = draining'[n] \cup {m}
      BY <3>1
    <3>3. Owner(draining'[n], t) # Owner(draining'[n] \cup {m}, t)
      BY <3>2
    <3>4. Owner(draining'[n], t) = m
      BY <3>3, OwnerMoves
    <3> QED  BY <2>2, <3>4
  <2> QED  BY <2>1, <2>2
<1> QED  BY <1>1, RoutingInit, RoutingNext, PTL DEF Spec, DrainMovesOnlyOwn

-----------------------------------------------------------------------------
(* Connections while the views rest *)

\* A steady connection sees one view everywhere.  What is dialled for it is
\* the owner, at another node, and where it was forwarded to is the owner.
SteadyConn(c) ==
  /\ Agreed /\ st[c] # "closed"
  /\ st[c] = "dial" => target[c] = Home(c) /\ target[c] # at[c]
  /\ \E n \in Nodes : via[c] \subseteq {n}
  /\ at[c] \notin via[c]
  /\ via[c] # {} => at[c] = Home(c)
  /\ st[c] = "session" => at[c] = Home(c)
  /\ st[c] = "refused" => via[c] = {}

SteadyOK ==
  \A c \in Conns : /\ st[c] = "closed" => via[c] = {}
                   /\ steady[c] => SteadyConn(c)

\* A connection that the step leaves alone.
LEMMA SameConn ==
  ASSUME NEW c, UNCHANGED draining, st'[c] = st[c], topic'[c] = topic[c], at'[c] = at[c],
         via'[c] = via[c], target'[c] = target[c], SteadyConn(c)
  PROVE  SteadyConn(c)'
<1>1. Home(c)' = Home(c) /\ Agreed' = Agreed
  BY DEF Home, Owner, Candidates, Better, Agreed
<1> QED  BY <1>1 DEF SteadyConn

LEMMA SteadyNext == TypeOK /\ SteadyOK /\ [Next]_vars => SteadyOK'
<1> SUFFICES ASSUME TypeOK, SteadyOK, [Next]_vars PROVE SteadyOK'
  OBVIOUS
<1> USE DEF viewVars, connVars
<1>0. /\ st \in [Conns -> States] /\ topic \in [Conns -> Topics]
      /\ at \in [Conns -> Nodes \cup {NoNode}] /\ via \in [Conns -> SUBSET Nodes]
      /\ target \in [Conns -> Nodes \cup {NoNode}] /\ steady \in [Conns -> BOOLEAN]
      /\ \A c \in Conns : /\ st[c] = "closed" <=> at[c] = NoNode
                          /\ st[c] = "dial" <=> target[c] # NoNode
  BY DEF TypeOK
<1>1. ASSUME NEW n \in Nodes, NEW m \in Nodes, NEW d \in BOOLEAN, Drain(n, m, d) PROVE SteadyOK'
  BY <1>1 DEF Drain, SteadyOK
<1>2. ASSUME NEW n \in Nodes, Restart(n) PROVE SteadyOK'
  <2>1. \A c \in Conns : ~steady'[c]
    BY <1>2 DEF Restart
  <2>2. ASSUME NEW c \in Conns, st'[c] = "closed" PROVE via'[c] = {}
    <3>1. CASE n = at[c] \/ n \in via[c]
      BY <1>2, <3>1 DEF Restart
    <3>2. CASE ~(n = at[c] \/ n \in via[c])
      BY <1>2, <2>2, <3>2 DEF Restart, SteadyOK
    <3> QED  BY <3>1, <3>2
  <2> QED  BY <2>1, <2>2 DEF SteadyOK
\* A step of one connection.
<1>3. ASSUME NEW c \in Conns, UNCHANGED draining,
             \A u \in Conns \ {c} :
               /\ st'[u] = st[u] /\ topic'[u] = topic[u] /\ at'[u] = at[u]
               /\ via'[u] = via[u] /\ target'[u] = target[u] /\ steady'[u] = steady[u],
             st'[c] = "closed" => via'[c] = {},
             steady'[c] => SteadyConn(c)'
      PROVE  SteadyOK'
  <2>1. ASSUME NEW u \in Conns \ {c}
        PROVE  (st'[u] = "closed" => via'[u] = {}) /\ (steady'[u] => SteadyConn(u)')
    BY <1>3, SameConn DEF SteadyOK
  <2> QED  BY <1>3, <2>1 DEF SteadyOK
<1>4. ASSUME NEW c \in Conns, NEW n \in Nodes, NEW t \in Topics, Connect(c, n, t) PROVE SteadyOK'
  <2>1. /\ st'[c] = "backlog" /\ at'[c] = n /\ via'[c] = via[c] /\ via[c] = {}
        /\ steady'[c] = Agreed /\ UNCHANGED draining
    BY <1>0, <1>4 DEF Connect, SteadyOK
  <2>2. steady'[c] => SteadyConn(c)'
    BY <2>1 DEF SteadyConn, Agreed
  <2> QED  BY <1>0, <1>3, <1>4, <2>1, <2>2 DEF Connect
\* A step that moves a connection to where the conditions ask for nothing.
<1>5. ASSUME NEW c \in Conns, Accept(c) \/ PeekTimeout(c) PROVE SteadyOK'
  <2>1. /\ st'[c] \in {"peek", "local"} /\ UNCHANGED <<draining, topic, at, via, target, steady>>
        /\ \A u \in Conns \ {c} : st'[u] = st[u]
    BY <1>0, <1>5 DEF Accept, PeekTimeout
  <2>2. Home(c)' = Home(c) /\ Agreed' = Agreed
    BY <2>1 DEF Home, Owner, Candidates, Better, Agreed
  <2>3. steady'[c] => SteadyConn(c)'
    BY <2>1, <2>2 DEF SteadyConn, SteadyOK
  <2> QED  BY <1>3, <2>1, <2>3
<1>6. ASSUME NEW c \in Conns, Peeked(c) PROVE SteadyOK'
  <2>0. st[c] = "peek" /\ UNCHANGED <<draining, topic, at, via, steady>>
    BY <1>6 DEF Peeked
  <2>1. Home(c)' = Home(c) /\ Agreed' = Agreed
    BY <2>0 DEF Home, Owner, Candidates, Better, Agreed
  <2>2. CASE Keeps(at[c], Home(c))
    <3>1. st' = [st EXCEPT ![c] = "local"] /\ UNCHANGED target
      BY <1>6, <2>2 DEF Peeked, Home
    <3>2. st'[c] = "local" /\ \A u \in Conns \ {c} : st'[u] = st[u]
      BY <1>0, <3>1
    <3>3. steady'[c] => SteadyConn(c)'
      BY <2>0, <2>1, <3>2 DEF SteadyConn, SteadyOK
    <3> QED  BY <1>3, <2>0, <3>1, <3>2, <3>3
  <2>3. CASE ~Keeps(at[c], Home(c))
    <3>1. st' = [st EXCEPT ![c] = "dial"] /\ target' = [target EXCEPT ![c] = Home(c)]
      BY <1>6, <2>3 DEF Peeked, Home
    <3>2. /\ st'[c] = "dial" /\ target'[c] = Home(c) /\ Home(c) # at[c]
          /\ \A u \in Conns \ {c} : st'[u] = st[u] /\ target'[u] = target[u]
      BY <1>0, <2>3, <3>1 DEF Keeps
    <3>3. steady'[c] => SteadyConn(c)'
      BY <2>0, <2>1, <3>2 DEF SteadyConn, SteadyOK
    <3> QED  BY <1>3, <2>0, <3>2, <3>3
  <2> QED  BY <2>2, <2>3
<1>7. ASSUME NEW c \in Conns, Dialled(c) PROVE SteadyOK'
  <2>1. /\ st[c] = "dial" /\ st'[c] = "backlog" /\ at'[c] = target[c]
        /\ via'[c] = via[c] \cup {at[c]} /\ UNCHANGED <<draining, topic, steady>>
        /\ \A u \in Conns \ {c} :
             st'[u] = st[u] /\ at'[u] = at[u] /\ via'[u] = via[u] /\ target'[u] = target[u]
    BY <1>0, <1>7 DEF Dialled
  <2>2. at[c] \in Nodes /\ target[c] \in Nodes
    BY <1>0, <2>1
  <2>3. ASSUME steady'[c] PROVE SteadyConn(c)'
    <3>1. SteadyConn(c)
      BY <2>1, <2>3 DEF SteadyOK
    <3>2. target[c] = Home(c) /\ target[c] # at[c] /\ via[c] = {}
      BY <2>1, <3>1 DEF SteadyConn
    <3>3. draining[target[c]] = draining[at[c]] /\ Agreed'
      BY <2>1, <2>2, <3>1 DEF SteadyConn, Agreed
    <3>4. Home(c)' = Home(c)
      BY <2>1, <3>3 DEF Home, Owner, Candidates, Better
    <3> QED  BY <2>1, <2>2, <3>2, <3>3, <3>4 DEF SteadyConn
  <2> QED  BY <1>3, <2>1, <2>3
<1>8. ASSUME NEW c \in Conns, Request(c) PROVE SteadyOK'
  <2>0. UNCHANGED <<draining, topic, at, via, target, steady>>
    BY <1>8 DEF Request
  <2>1. Home(c)' = Home(c) /\ Agreed' = Agreed
    BY <2>0 DEF Home, Owner, Candidates, Better, Agreed
  <2>2. CASE at[c] = Home(c)
    <3>1. st' = [st EXCEPT ![c] = "session"]
      BY <1>8, <2>2 DEF Request, IsSelf, Home
    <3>2. st'[c] = "session" /\ \A u \in Conns \ {c} : st'[u] = st[u]
      BY <1>0, <3>1
    <3>3. steady'[c] => SteadyConn(c)'
      BY <2>0, <2>1, <2>2, <3>2 DEF SteadyConn, SteadyOK
    <3> QED  BY <1>3, <2>0, <3>2, <3>3
  <2>3. CASE at[c] # Home(c)
    <3>1. st' = [st EXCEPT ![c] = "refused"]
      BY <1>8, <2>3 DEF Request, IsSelf, Home
    <3>2. st'[c] = "refused" /\ \A u \in Conns \ {c} : st'[u] = st[u]
      BY <1>0, <3>1
    <3>3. steady'[c] => SteadyConn(c)'
      BY <2>0, <2>1, <2>3, <3>2 DEF SteadyConn, SteadyOK
    <3> QED  BY <1>3, <2>0, <3>2, <3>3
  <2> QED  BY <2>2, <2>3
<1>9. ASSUME NEW c \in Conns, DialFails(c) \/ CloseConn(c) PROVE SteadyOK'
  <2>1. /\ st'[c] = "closed" /\ via'[c] = {} /\ ~steady'[c] /\ UNCHANGED <<draining, topic>>
        /\ \A u \in Conns \ {c} :
             /\ st'[u] = st[u] /\ at'[u] = at[u] /\ via'[u] = via[u]
             /\ target'[u] = target[u] /\ steady'[u] = steady[u]
    BY <1>0, <1>9 DEF DialFails, CloseConn, Disconnect
  <2> QED  BY <1>3, <2>1
<1>10. CASE UNCHANGED vars
  BY <1>10, SameConn DEF vars, SteadyOK
<1> QED
  BY <1>1, <1>2, <1>4, <1>5, <1>6, <1>7, <1>8, <1>9, <1>10 DEF Next

LEMMA SteadyAlways == Spec => [](TypeOK /\ SteadyOK)
<1>1. Init => SteadyOK
  BY DEF Init, SteadyOK
<1> QED  BY <1>1, RoutingInit, RoutingNext, SteadyNext, PTL DEF Spec

\* The listeners and the handlers agree while the views do: one hop at most,
\* no loop, and nobody is refused where a listener has sent it, for every
\* number of nodes and connections, every list and every hash.
THEOREM SteadyOneHopCorrect == Spec => []SteadyOneHop
<1>1. TypeOK /\ SteadyOK => SteadyOneHop
  <2> SUFFICES ASSUME TypeOK, SteadyOK, NEW c \in Conns, steady[c]
               PROVE  /\ Cardinality(via[c]) <= 1 /\ at[c] \notin via[c]
                      /\ via[c] # {} => at[c] = Home(c)
                      /\ st[c] = "session" => at[c] = Home(c)
                      /\ st[c] = "refused" => via[c] = {}
    BY DEF SteadyOneHop
  <2>1. SteadyConn(c)
    BY DEF SteadyOK
  <2>2. PICK n \in Nodes : via[c] \subseteq {n}
    BY <2>1 DEF SteadyConn
  <2>3. IsFiniteSet({n}) /\ Cardinality({n}) = 1
    BY FS_Singleton
  <2>4. Cardinality(via[c]) <= 1
    BY <2>2, <2>3, FS_Subset
  <2> QED  BY <2>1, <2>4 DEF SteadyConn
<1> QED  BY <1>1, SteadyAlways, PTL

\* Publishers and subscribers of a topic that enter anywhere meet at one node.
THEOREM ReadersMeetCorrect == Spec => []ReadersMeetPublisher
<1>1. TypeOK /\ SteadyOK => ReadersMeetPublisher
  <2> SUFFICES ASSUME TypeOK, SteadyOK, NEW c \in Conns, NEW d \in Conns,
                      steady[c], steady[d], st[c] = "session", st[d] = "session",
                      topic[c] = topic[d]
               PROVE  at[c] = at[d]
    BY DEF ReadersMeetPublisher
  <2>1. at[c] = Home(c) /\ at[d] = Home(d) /\ Agreed
    BY DEF SteadyOK, SteadyConn
  <2>2. at[c] \in Nodes /\ at[d] \in Nodes
    BY DEF TypeOK
  <2>3. draining[at[c]] = draining[at[d]]
    BY <2>1, <2>2 DEF Agreed
  <2> QED  BY <2>1, <2>3 DEF Home
<1> QED  BY <1>1, SteadyAlways, PTL
=============================================================================
