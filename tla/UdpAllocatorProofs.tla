------------------------- MODULE UdpAllocatorProofs -------------------------
(***************************************************************************)
(* Proofs about UdpAllocator, for every number of callers and every range. *)
(* The properties are inductive together with what a scan in progress has  *)
(* bound and with what its caller does not hold yet.                       *)
(***************************************************************************)
EXTENDS UdpAllocator, TLAPS

\* A scan belongs to a caller without a pair and has bound RTP of the pair it
\* tries, which the map does not have; sockets in use are those of a pair.
ScanOK ==
  /\ mu = NoOne => ~half
  /\ mu # NoOne => pair[mu] = 0
  /\ half => sock[cur] = mu /\ reserved[cur] = NoOne
  /\ \A h \in Callers : inUse[h] => pair[h] # 0

AllocInv == TypeOK /\ ScanOK /\ HoldersHaveTheirPair /\ NoSocketLeak

\* The first port of the scan is a base port.
LEMMA FirstIsBase == First \in BasePorts
BY RangeAssumption DEF First, BasePorts

\* Base ports and the ports after them are in the range; two pairs do not
\* overlap; the scan goes from one base port to another.
LEMMA BasePairs ==
  ASSUME NEW b \in BasePorts
  PROVE  /\ b \in Int /\ b # 0 /\ b \in Ports /\ b + 1 \in Ports /\ b + 1 # 0 /\ b # b + 1
         /\ \A c \in BasePorts : b # c + 1 /\ c # b + 1 /\ (b # c => b + 1 # c + 1)
         /\ b + 2 <= End => b + 2 \in BasePorts
<1>1. b \in Nat /\ b % 2 = 0 /\ Start <= b /\ b <= End
  BY RangeAssumption DEF BasePorts
<1>2. First <= b /\ First \in Nat
  BY <1>1, RangeAssumption DEF First
<1>3. b \in Ports /\ b + 1 \in Ports
  BY <1>1, <1>2, RangeAssumption DEF Ports
<1>4. ASSUME NEW c \in BasePorts
      PROVE  b # c + 1 /\ c # b + 1 /\ (b # c => b + 1 # c + 1)
  BY <1>1, RangeAssumption DEF BasePorts
<1>5. b + 2 <= End => b + 2 \in BasePorts
  BY <1>1, RangeAssumption DEF BasePorts
<1> QED  BY <1>1, <1>3, <1>4, <1>5, RangeAssumption

LEMMA AllocInit == Init => AllocInv
<1> SUFFICES ASSUME Init PROVE AllocInv
  OBVIOUS
<1> USE DEF Init
<1>1. TypeOK
  BY FirstIsBase DEF TypeOK
<1>2. ScanOK /\ HoldersHaveTheirPair /\ NoSocketLeak
  BY CallersAssumption DEF ScanOK, HoldersHaveTheirPair, NoSocketLeak
<1> QED  BY <1>1, <1>2 DEF AllocInv

LEMMA ReserveStep ==
  ASSUME AllocInv, NEW h \in Callers, Reserve(h)
  PROVE  AllocInv'
<1> USE CallersAssumption DEF AllocInv, Reserve
<1>1. TypeOK'
  BY FirstIsBase DEF TypeOK
<1>2. ScanOK'
  BY DEF ScanOK, TypeOK
<1>3. HoldersHaveTheirPair'
  BY DEF HoldersHaveTheirPair
<1>4. NoSocketLeak'
  BY DEF NoSocketLeak, ScanOK
<1> QED  BY <1>1, <1>2, <1>3, <1>4

LEMMA BindRTPStep ==
  ASSUME AllocInv, NEW h \in Callers, BindRTP(h)
  PROVE  AllocInv'
<1> USE CallersAssumption DEF AllocInv, BindRTP
<1>0. cur \in BasePorts /\ cur \in Ports /\ (cur + 2 <= End => cur + 2 \in BasePorts)
  BY BasePairs DEF TypeOK
<1>1. CASE reserved[cur] = NoOne /\ sock[cur] = NoOne
  <2>1. TypeOK'
    BY <1>0, <1>1 DEF TypeOK
  <2>2. ScanOK'
    BY <1>0, <1>1 DEF ScanOK, TypeOK
  <2>3. HoldersHaveTheirPair'
    BY <1>0, <1>1 DEF HoldersHaveTheirPair, TypeOK
  <2>4. NoSocketLeak'
    BY <1>0, <1>1 DEF NoSocketLeak, TypeOK
  <2> QED  BY <2>1, <2>2, <2>3, <2>4
<1>2. CASE ~(reserved[cur] = NoOne /\ sock[cur] = NoOne)
  <2> USE DEF NextPair
  <2>1. TypeOK'
    BY <1>0, <1>2 DEF TypeOK
  <2>2. ScanOK'
    BY <1>2 DEF ScanOK, TypeOK
  <2>3. HoldersHaveTheirPair'
    BY <1>2 DEF HoldersHaveTheirPair
  <2>4. NoSocketLeak'
    BY <1>2 DEF NoSocketLeak
  <2> QED  BY <2>1, <2>2, <2>3, <2>4
<1> QED  BY <1>1, <1>2

LEMMA BindRTCPStep ==
  ASSUME AllocInv, NEW h \in Callers, BindRTCP(h)
  PROVE  AllocInv'
<1> USE CallersAssumption DEF AllocInv, BindRTCP
<1>0. /\ cur \in BasePorts /\ cur \in Ports /\ cur + 1 \in Ports /\ cur # 0 /\ cur # cur + 1
      /\ \A b \in BasePorts : cur # b + 1 /\ cur + 1 # b /\ (cur # b => cur + 1 # b + 1)
      /\ cur + 2 <= End => cur + 2 \in BasePorts
  BY BasePairs DEF TypeOK
<1>1. CASE sock[cur + 1] = NoOne
  <2>1. TypeOK'
    BY <1>0, <1>1 DEF TypeOK
  <2>2. ScanOK'
    BY <1>0, <1>1 DEF ScanOK, TypeOK
  <2>3. HoldersHaveTheirPair'
    <3> SUFFICES ASSUME NEW g \in Callers, NEW p \in Ports
                 PROVE  /\ reserved'[p] = g <=> pair'[g] # 0 /\ p \in {pair'[g], pair'[g] + 1}
                        /\ inUse'[g] /\ p \in {pair'[g], pair'[g] + 1} => sock'[p] = g
      BY DEF HoldersHaveTheirPair
    <3>1. CASE g = h
      BY <1>0, <1>1, <3>1 DEF HoldersHaveTheirPair, ScanOK, TypeOK
    <3>2. CASE g # h
      <4>1. pair'[g] = pair[g] /\ inUse'[g] = inUse[g] /\ pair[g] \in BasePorts \cup {0}
        BY <1>1, <3>2 DEF TypeOK
      <4>2. pair[g] # cur
        BY <1>0, <3>2 DEF HoldersHaveTheirPair, ScanOK
      <4>3. pair[g] # 0 => cur \notin {pair[g], pair[g] + 1} /\ cur + 1 \notin {pair[g], pair[g] + 1}
        BY <1>0, <4>1, <4>2
      <4>4. p \notin {cur, cur + 1} => reserved'[p] = reserved[p] /\ sock'[p] = sock[p]
        BY <1>0, <1>1 DEF TypeOK
      <4>5. p \in {cur, cur + 1} => reserved'[p] = h
        BY <1>0, <1>1 DEF TypeOK
      <4> QED  BY <3>2, <4>1, <4>3, <4>4, <4>5 DEF HoldersHaveTheirPair, ScanOK
    <3> QED  BY <3>1, <3>2
  <2>4. NoSocketLeak'
    BY <1>0, <1>1 DEF NoSocketLeak, TypeOK, ScanOK
  <2> QED  BY <2>1, <2>2, <2>3, <2>4
<1>2. CASE sock[cur + 1] # NoOne
  <2> USE DEF NextPair, CloseRTP
  <2>1. TypeOK'
    BY <1>0, <1>2 DEF TypeOK
  <2>2. ScanOK'
    BY <1>0, <1>2 DEF ScanOK, TypeOK
  <2>3. HoldersHaveTheirPair'
    BY <1>0, <1>2 DEF HoldersHaveTheirPair, ScanOK, TypeOK
  <2>4. NoSocketLeak'
    BY <1>0, <1>2 DEF NoSocketLeak, TypeOK
  <2> QED  BY <2>1, <2>2, <2>3, <2>4
<1> QED  BY <1>1, <1>2

LEMMA ReleaseStep ==
  ASSUME AllocInv, NEW h \in Callers, Release(h)
  PROVE  AllocInv'
<1> USE CallersAssumption DEF AllocInv, Release, Closed, Mine, scanVars
<1>1. TypeOK'
  BY DEF TypeOK
<1>2. ScanOK'
  BY DEF ScanOK, TypeOK
<1>3. HoldersHaveTheirPair'
  BY DEF HoldersHaveTheirPair, TypeOK
<1>4. NoSocketLeak'
  BY DEF NoSocketLeak, HoldersHaveTheirPair, TypeOK, ScanOK
<1> QED  BY <1>1, <1>2, <1>3, <1>4

LEMMA ServerCloseStep ==
  ASSUME AllocInv, NEW h \in Callers, ServerClose(h)
  PROVE  AllocInv'
<1> USE CallersAssumption DEF AllocInv, ServerClose, Closed, scanVars
<1>1. TypeOK'
  BY DEF TypeOK
<1>2. ScanOK'
  BY BasePairs DEF ScanOK, TypeOK, HoldersHaveTheirPair
<1>3. HoldersHaveTheirPair'
  BY DEF HoldersHaveTheirPair, TypeOK
<1>4. NoSocketLeak'
  BY DEF NoSocketLeak, TypeOK
<1> QED  BY <1>1, <1>2, <1>3, <1>4

LEMMA OutsideStep ==
  ASSUME AllocInv, NEW p \in Ports, Outside(p)
  PROVE  AllocInv'
<1> USE CallersAssumption DEF AllocInv, Outside, scanVars
<1>1. TypeOK'
  BY DEF TypeOK
<1>2. ScanOK'
  BY BasePairs DEF ScanOK, TypeOK
<1>3. HoldersHaveTheirPair'
  BY DEF HoldersHaveTheirPair, TypeOK
<1>4. NoSocketLeak'
  BY DEF NoSocketLeak, TypeOK
<1> QED  BY <1>1, <1>2, <1>3, <1>4

\* The invariant of the allocator holds whatever its callers, the servers and
\* the other programs of the host do.
THEOREM AllocatorInvariant == Spec => []AllocInv
<1>1. Init => AllocInv
  BY AllocInit
<1>2. AllocInv /\ [Next]_vars => AllocInv'
  <2> SUFFICES ASSUME AllocInv, [Next]_vars PROVE AllocInv'
    OBVIOUS
  <2>1. CASE \E h \in Callers : Reserve(h)
    BY <2>1, ReserveStep
  <2>2. CASE \E h \in Callers : BindRTP(h)
    BY <2>2, BindRTPStep
  <2>3. CASE \E h \in Callers : BindRTCP(h)
    BY <2>3, BindRTCPStep
  <2>4. CASE \E h \in Callers : Release(h)
    BY <2>4, ReleaseStep
  <2>5. CASE \E h \in Callers : ServerClose(h)
    BY <2>5, ServerCloseStep
  <2>6. CASE \E p \in Ports : Outside(p)
    BY <2>6, OutsideStep
  <2>7. CASE UNCHANGED vars
    BY <2>7 DEF AllocInv, TypeOK, ScanOK, HoldersHaveTheirPair, NoSocketLeak, vars, scanVars
  <2> QED  BY <2>1, <2>2, <2>3, <2>4, <2>5, <2>6, <2>7 DEF Next
<1> QED  BY <1>1, <1>2, PTL DEF Spec

\* ReservePair, release: who holds a pair has its ports in the map, and bound
\* until its server is closed, for every number of callers and every range.
THEOREM HoldersCorrect == Spec => []HoldersHaveTheirPair
<1>1. AllocInv => HoldersHaveTheirPair
  BY DEF AllocInv
<1> QED  BY <1>1, AllocatorInvariant, PTL

\* ReservePair, release: no way through the scan forgets a socket.
THEOREM LeakFree == Spec => []NoSocketLeak
<1>1. AllocInv => NoSocketLeak
  BY DEF AllocInv
<1> QED  BY <1>1, AllocatorInvariant, PTL
=============================================================================
