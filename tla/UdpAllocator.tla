---------------------------- MODULE UdpAllocator ----------------------------
(***************************************************************************)
(* The allocator of RTP/RTCP port pairs in pkg/udpalloc, its callers, the  *)
(* RTSP servers that use the bound sockets (rtspsrv Server.Start), and     *)
(* other programs of the host, which take and give back ports at any time. *)
(*                                                                         *)
(* ReservePair holds the allocator's mutex over the whole scan, but the    *)
(* host does not wait for it: between its two binds a port may be taken.   *)
(* A caller calls the release function it was given once.                  *)
(***************************************************************************)
EXTENDS Integers

CONSTANTS
  Callers,
  Start, End,      \* the range, as given to NewAllocator
  NoOne, Foreign   \* nobody; a program outside

ASSUME RangeAssumption == Start \in Nat \ {0} /\ End \in Nat /\ Start + (Start % 2) <= End
ASSUME CallersAssumption == NoOne \notin Callers /\ Foreign \notin Callers /\ NoOne # Foreign

VARIABLES
  mu,         \* who is in ReservePair
  cur,        \* the base port it tries
  half,       \* it has bound cur and not yet cur + 1
  reserved,   \* reserved[p]: whose connection the map holds for port p
  sock,       \* sock[p]: who has port p bound
  pair,       \* pair[h]: base port that h holds, 0 for none
  inUse       \* inUse[h]: the sockets of h have not been closed by a server

scanVars == <<mu, cur, half>>
vars == <<scanVars, reserved, sock, pair, inUse>>

\* (Mutant: an odd start is taken as it is.)
FirstAsGiven == Start

\* NewAllocator makes the start even.
First == IF Start % 2 = 0 THEN Start ELSE Start + 1

\* RTCP of the last pair may be one beyond the end.
Ports == First..(End + 1)

Init ==
  /\ mu = NoOne /\ cur = First /\ half = FALSE
  /\ reserved = [p \in Ports |-> NoOne]
  /\ sock \in [Ports -> {NoOne, Foreign}]
  /\ pair = [h \in Callers |-> 0]
  /\ inUse = [h \in Callers |-> FALSE]

-----------------------------------------------------------------------------
(* ReservePair *)

Reserve(h) ==
  /\ mu = NoOne /\ pair[h] = 0
  /\ mu' = h /\ cur' = First /\ half' = FALSE
  /\ UNCHANGED <<reserved, sock, pair, inUse>>

\* The next turn of the loop; after the last one ReservePair returns an error.
NextPair ==
  /\ half' = FALSE
  /\ IF cur + 2 <= End THEN cur' = cur + 2 /\ UNCHANGED mu
                       ELSE mu' = NoOne /\ UNCHANGED cur

BindRTP(h) ==
  /\ mu = h /\ ~half
  /\ IF reserved[cur] = NoOne /\ sock[cur] = NoOne
     THEN sock' = [sock EXCEPT ![cur] = h] /\ half' = TRUE /\ UNCHANGED <<mu, cur>>
     ELSE NextPair /\ UNCHANGED sock
  /\ UNCHANGED <<reserved, pair, inUse>>

\* (Mutant: RTP stays bound when RTCP cannot be.)
KeepRTP == sock

CloseRTP == [sock EXCEPT ![cur] = NoOne]

BindRTCP(h) ==
  /\ mu = h /\ half
  /\ IF sock[cur + 1] = NoOne
     THEN /\ sock' = [sock EXCEPT ![cur + 1] = h]
          /\ reserved' = [reserved EXCEPT ![cur] = h, ![cur + 1] = h]
          /\ pair' = [pair EXCEPT ![h] = cur]
          /\ inUse' = [inUse EXCEPT ![h] = TRUE]
          /\ mu' = NoOne /\ half' = FALSE /\ UNCHANGED cur
     ELSE NextPair /\ sock' = CloseRTP /\ UNCHANGED <<reserved, pair, inUse>>

-----------------------------------------------------------------------------
(* release, and the use of the sockets *)

\* Closing a connection unbinds its port, unless it was closed before.
Closed(S) == [p \in Ports |-> IF p \in S /\ sock[p] = reserved[p] THEN NoOne ELSE sock[p]]

\* (Mutant: release goes one port too far.)
MineAndNext(h) == {p \in pair[h]..(pair[h] + 2) : p \in Ports /\ reserved[p] # NoOne}

\* What release closes: the connections that the map now has for its ports.
Mine(h) == {p \in {pair[h], pair[h] + 1} : reserved[p] # NoOne}

Release(h) ==
  /\ mu = NoOne /\ pair[h] # 0
  /\ sock' = Closed(Mine(h))
  /\ reserved' = [p \in Ports |-> IF p \in Mine(h) THEN NoOne ELSE reserved[p]]
  /\ pair' = [pair EXCEPT ![h] = 0]
  /\ inUse' = [inUse EXCEPT ![h] = FALSE]
  /\ UNCHANGED scanVars

\* A server that was given the connections of h (GetConn) closes them when it
\* is closed, before h calls release; the map does not hear of it.
ServerClose(h) ==
  /\ pair[h] # 0 /\ inUse[h]
  /\ sock' = Closed({pair[h], pair[h] + 1})
  /\ inUse' = [inUse EXCEPT ![h] = FALSE]
  /\ UNCHANGED <<scanVars, reserved, pair>>

Outside(p) ==
  /\ sock[p] \in {NoOne, Foreign}
  /\ sock' = [sock EXCEPT ![p] = IF @ = NoOne THEN Foreign ELSE NoOne]
  /\ UNCHANGED <<scanVars, reserved, pair, inUse>>

Next ==
  \/ \E h \in Callers :
       Reserve(h) \/ BindRTP(h) \/ BindRTCP(h) \/ Release(h) \/ ServerClose(h)
  \/ \E p \in Ports : Outside(p)

Spec == Init /\ [][Next]_vars

-----------------------------------------------------------------------------
(* Properties *)

\* A base port is even and in the range.
BasePorts == {p \in Start..End : p % 2 = 0}

TypeOK ==
  /\ mu \in Callers \cup {NoOne} /\ cur \in BasePorts /\ half \in BOOLEAN
  /\ reserved \in [Ports -> Callers \cup {NoOne}]
  /\ sock \in [Ports -> Callers \cup {NoOne, Foreign}]
  /\ pair \in [Callers -> BasePorts \cup {0}]
  /\ inUse \in [Callers -> BOOLEAN]

\* Who holds a pair has both its ports in the map, and bound until its server
\* is closed, whatever other callers and programs do meanwhile.
HoldersHaveTheirPair ==
  \A h \in Callers, p \in Ports :
    /\ reserved[p] = h <=> pair[h] # 0 /\ p \in {pair[h], pair[h] + 1}
    /\ inUse[h] /\ p \in {pair[h], pair[h] + 1} => sock[p] = h

\* No socket is forgotten: a port is bound by the allocator only while it is
\* in the map or between the two binds of the pair that is tried.
NoSocketLeak ==
  \A h \in Callers, p \in Ports :
    sock[p] = h => reserved[p] = h \/ (mu = h /\ half /\ p = cur)
=============================================================================
