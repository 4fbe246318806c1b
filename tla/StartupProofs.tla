--------------------------- MODULE StartupProofs ----------------------------
(***************************************************************************)
(* Proofs about Startup, for every configuration and every range of ports: *)
(* main uses the allocator as UdpAllocator allows, so that the theorems of *)
(* UdpAllocatorProofs hold of the process, and with what each place of     *)
(* main says of pairs and servers they show that nothing stays reserved    *)
(* and that the servers find their sockets (MainInv).  ServeOK adds the    *)
(* types, the attempts of InitOTLP, the gauges and the quota.              *)
(***************************************************************************)
EXTENDS Startup, UdpAllocatorProofs, FiniteSetTheorems, SequenceTheorems

Early == {"reserve1", "scan1", "reserve2", "scan2", "undo", "otlp", "otlpwait", "quota",
          "admin", "start"}
Holding == {"otlp", "otlpwait", "quota", "admin", "start", "wait", "stop", "close1",
            "close2", "release1"}

\* What main has reserved when it is at pc.
PairsOK ==
  /\ ~cfg.udp => pair[Pub] = 0 /\ pair[Sub] = 0 /\ mu = NoOne
  /\ pc \in {"reserve1", "scan1", "reserve2", "scan2", "undo"} => cfg.udp
  /\ pc \notin {"scan1", "scan2", "crashed"} => mu = NoOne
  /\ pc \in {"reserve1", "scan1"} => pair[Sub] = 0 /\ mu # Sub
  /\ pc \in {"reserve2", "undo"} => pair[Pub] # 0 /\ pair[Sub] = 0
  /\ pc = "scan2" => pair[Pub] # 0 /\ mu # Pub
  /\ pc \in Holding /\ cfg.udp => pair[Pub] # 0 /\ pair[Sub] # 0
  /\ pc = "release2" => pair[Pub] = 0
  /\ pc \in {"exit", "failed"} => pair[Pub] = 0 /\ pair[Sub] = 0

\* A server has a pair from its start to its end, and its sockets until then.
ServersOK ==
  /\ srv \in [Callers -> {"off", "starting", "up", "failed", "closing", "closed"}]
  /\ pc \in Early => \A s \in Callers : srv[s] = "off"
  /\ pc \in {"close2", "release1", "release2"} => srv[Pub] = "closed"
  /\ pc \in {"release1", "release2"} => srv[Sub] = "closed"
  /\ \A s \in Callers :
       /\ cfg.udp /\ srv[s] \in {"starting", "up", "closing"} => pair[s] # 0
       /\ pair[s] # 0 /\ srv[s] \in {"off", "starting", "up", "closing"} => inUse[s]

MainInv == AllocInv /\ PairsOK /\ ServersOK

-----------------------------------------------------------------------------
(* main is a legal caller of the allocator *)

LEMMA MainIsCaller == ASSUME MainNext PROVE [Next]_vars
<1> USE DEF Next
<1>1. CASE Main
  <2>1. ASSUME NEW h \in Callers, NEW from, NEW to, CallReserve(h, from, to)
        PROVE  Next
    BY <2>1 DEF CallReserve
  <2>2. ASSUME NEW h \in Callers, Scan(h) PROVE Next
    BY <2>2 DEF Scan
  <2>3. ASSUME NEW h, NEW from, NEW to, NEW fail, Reserved(h, from, to, fail)
        PROVE  UNCHANGED vars
    BY <2>3 DEF Reserved
  <2>4. ASSUME NEW s \in Callers, NEW at, NEW to, ServerClosed(s, at, to)
        PROVE  [Next]_vars
    BY <2>4 DEF ServerClosed, CloseSockets
  <2>5. ASSUME NEW s \in Callers, NEW at, NEW to,
               CloseServer(s, at) \/ CloseStopped(s, at, to)
        PROVE  UNCHANGED vars
    BY <2>5 DEF CloseServer, CloseStopped
  <2>6. ASSUME NEW h \in Callers, NEW from, NEW to, ReleasePair(h, from, to)
        PROVE  [Next]_vars
    BY <2>6 DEF ReleasePair
  <2>7. CASE Undo
    BY <2>7, ServersAssumption DEF Undo
  <2>8. CASE CallInitOTLP \/ InitOTLPReturns \/ SetQuota \/ StartAdmin \/ StartServers \/ StopAdmin
    BY <2>8 DEF CallInitOTLP, InitOTLPReturns, SetQuota, StartAdmin, StartServers, StopAdmin
  <2>9. Pub \in Callers /\ Sub \in Callers
    BY ServersAssumption
  <2> HIDE DEF Next
  <2> QED  BY <1>1, <2>1, <2>2, <2>3, <2>4, <2>5, <2>6, <2>7, <2>8, <2>9 DEF Main
<1>2. CASE Metrics \/ Publishers \/ Signal \/ Halt \/ AdminListens
  BY <1>2 DEF Metrics, Publishers, Arrive, Leave, Session, Signal, Halt, AdminListens, allVars
<1>3. CASE Servers
  <2>1. ASSUME NEW s \in Callers, ServerUp(s) \/ ServerFails(s) PROVE [Next]_vars
    BY <2>1 DEF ServerUp, ServerFails, CloseSockets
  <2> QED  BY <1>2, <1>3, <2>1 DEF Servers
<1>4. CASE World
  BY <1>4 DEF World
<1> QED  BY <1>1, <1>2, <1>3, <1>4 DEF MainNext

\* cmd/rtsper/main.go: main, the servers and the signal use the allocator as
\* UdpAllocator allows its callers to, so that all that is proved of the
\* allocator holds of the process.
THEOREM UsesAllocator == MainSpec => Spec
<1>1. MainInit => Init
  BY DEF MainInit
<1>2. [MainNext]_allVars => [Next]_vars
  BY MainIsCaller DEF allVars
<1> QED  BY <1>1, <1>2, PTL DEF MainSpec, Spec

-----------------------------------------------------------------------------
(* Pairs and servers *)

LEMMA MainInitOK == ASSUME MainInit PROVE MainInv
<1>1. AllocInv
  BY AllocInit DEF MainInit
<1>2. PairsOK
  BY ServersAssumption, CallersAssumption DEF MainInit, Init, PairsOK, Holding
<1>3. ServersOK
  BY DEF MainInit, Init, ServersOK, Early
<1> QED  BY <1>1, <1>2, <1>3 DEF MainInv

\* A step that leaves pairs, main and the servers alone.
LEMMA OtherStep ==
  ASSUME MainInv, UNCHANGED <<mu, pair, inUse, cfg, pc, srv>>
  PROVE  PairsOK' /\ ServersOK'
BY DEF MainInv, PairsOK, ServersOK

LEMMA ReservingStep ==
  ASSUME MainInv,
         \/ CallReserve(Pub, "reserve1", "scan1") \/ Reserved(Pub, "scan1", "reserve2", "failed")
         \/ CallReserve(Sub, "reserve2", "scan2") \/ Reserved(Sub, "scan2", "otlp", "undo")
         \/ Undo
  PROVE  PairsOK' /\ ServersOK'
<1> USE ServersAssumption, CallersAssumption
    DEF MainInv, AllocInv, TypeOK, Goto, PairsOK, ServersOK, Early, Holding
<1>1. CASE CallReserve(Pub, "reserve1", "scan1")
  BY <1>1 DEF CallReserve, Reserve
<1>2. CASE CallReserve(Sub, "reserve2", "scan2")
  BY <1>2 DEF CallReserve, Reserve
<1>3. CASE Reserved(Pub, "scan1", "reserve2", "failed")
  BY <1>3 DEF Reserved, vars, scanVars
<1>4. CASE Reserved(Sub, "scan2", "otlp", "undo")
  BY <1>4 DEF Reserved, vars, scanVars
<1>5. CASE Undo
  BY <1>5 DEF Undo, Release, scanVars
<1> QED  BY <1>1, <1>2, <1>3, <1>4, <1>5

LEMMA ScanStep ==
  ASSUME MainInv, NEW h \in Callers, Scan(h)
  PROVE  PairsOK' /\ ServersOK'
<1> USE ServersAssumption, CallersAssumption
    DEF MainInv, AllocInv, TypeOK, Scan, mainVars, PairsOK, ServersOK
<1>1. mu = h /\ mu' \in {h, NoOne}
  BY DEF BindRTP, BindRTCP, NextPair
<1>2. CASE UNCHANGED <<pair, inUse>>
  BY <1>1, <1>2 DEF Early, Holding
<1>3. CASE ~UNCHANGED <<pair, inUse>>
  <2>1. /\ pair' = [pair EXCEPT ![h] = cur] /\ inUse' = [inUse EXCEPT ![h] = TRUE]
        /\ mu' = NoOne /\ cur # 0
    BY <1>3, BasePairs DEF BindRTP, BindRTCP
  <2> QED  BY <1>1, <2>1 DEF Early, Holding
<1> QED  BY <1>2, <1>3

\* main between the reservations and the wait for the signal, and the signal.
LEMMA StartingStep ==
  ASSUME MainInv,
         CallInitOTLP \/ InitOTLPReturns \/ SetQuota \/ StartAdmin \/ StartServers
           \/ Signal \/ StopAdmin
  PROVE  PairsOK' /\ ServersOK'
<1> USE ServersAssumption
    DEF MainInv, Goto, PairsOK, ServersOK, Early, Holding, vars, scanVars
<1>1. CASE CallInitOTLP
  BY <1>1 DEF CallInitOTLP
<1>2. CASE InitOTLPReturns
  BY <1>2 DEF InitOTLPReturns
<1>3. CASE SetQuota
  BY <1>3 DEF SetQuota, Die
<1>4. CASE StartAdmin
  BY <1>4 DEF StartAdmin
<1>5. CASE StartServers
  BY <1>5 DEF StartServers
<1>6. CASE Signal \/ StopAdmin
  BY <1>6 DEF Signal, StopAdmin
<1> QED  BY <1>1, <1>2, <1>3, <1>4, <1>5, <1>6

\* Server s begins, ends or fails; main may go from one place to the next.
LEMMA ServerStep ==
  ASSUME MainInv, NEW s \in Callers,
         \/ ServerUp(s) \/ ServerFails(s)
         \/ s = Pub /\ \/ CloseServer(s, "close1") \/ ServerClosed(s, "close1", "close2")
                       \/ CloseStopped(s, "close1", "close2")
         \/ s = Sub /\ \/ CloseServer(s, "close2") \/ ServerClosed(s, "close2", "release1")
                       \/ CloseStopped(s, "close2", "release1")
  PROVE  PairsOK' /\ ServersOK'
<1> USE ServersAssumption
    DEF MainInv, AllocInv, TypeOK, SetServer, PairsOK, ServersOK, Early, Holding
<1>0. /\ UNCHANGED <<mu, pair, cfg>>
      /\ \A g \in Callers : g # s => inUse'[g] = inUse[g]
  BY DEF ServerUp, ServerFails, CloseServer, ServerClosed, CloseStopped, CloseSockets,
         ServerClose, vars, scanVars
<1>1. CASE ServerUp(s)
  BY <1>0, <1>1 DEF ServerUp, vars
<1>2. CASE ServerFails(s)
  BY <1>0, <1>2 DEF ServerFails
<1>3. CASE \E at : CloseServer(s, at)
  BY <1>0, <1>3 DEF CloseServer, vars
<1>4. CASE s = Pub /\ (ServerClosed(s, "close1", "close2") \/ CloseStopped(s, "close1", "close2"))
  BY <1>0, <1>4 DEF ServerClosed, CloseStopped
<1>5. CASE s = Sub /\ (ServerClosed(s, "close2", "release1") \/ CloseStopped(s, "close2", "release1"))
  BY <1>0, <1>5 DEF ServerClosed, CloseStopped
<1> QED  BY <1>1, <1>2, <1>3, <1>4, <1>5

LEMMA ReleasingStep ==
  ASSUME MainInv,
         ReleasePair(Pub, "release1", "release2") \/ ReleasePair(Sub, "release2", "exit")
  PROVE  PairsOK' /\ ServersOK'
<1> USE ServersAssumption
    DEF MainInv, AllocInv, TypeOK, Goto, PairsOK, ServersOK, Early, Holding,
        ReleasePair, Release, vars, scanVars
<1>1. CASE ReleasePair(Pub, "release1", "release2")
  BY <1>1
<1>2. CASE ReleasePair(Sub, "release2", "exit")
  BY <1>2
<1> QED  BY <1>1, <1>2

\* A publisher that comes or goes may end the process, and nothing else of it.
LEMMA SessionStep ==
  ASSUME MainInv, NEW s, NEW d, Session(s, d)
  PROVE  PairsOK' /\ ServersOK'
<1>1. UNCHANGED <<mu, pair, inUse, cfg, srv>> /\ pc' \in {pc, "crashed"}
  BY DEF Session, vars, scanVars
<1> QED  BY <1>1 DEF MainInv, PairsOK, ServersOK, Early, Holding

LEMMA MainStep ==
  ASSUME MainInv, MainNext
  PROVE  PairsOK' /\ ServersOK'
<1>1. CASE Main
  <2>1. ASSUME NEW h \in Callers, Scan(h) PROVE PairsOK' /\ ServersOK'
    BY <2>1, ScanStep
  <2>2. Pub \in Callers /\ Sub \in Callers
    BY ServersAssumption
  <2> QED  BY <1>1, <2>1, <2>2, ReservingStep, StartingStep, ServerStep, ReleasingStep DEF Main
<1>2. CASE Servers
  <2>1. CASE AdminListens
    BY <2>1, OtherStep DEF AdminListens, vars, scanVars
  <2> QED  BY <1>2, <2>1, ServerStep DEF Servers
<1>3. CASE Publishers
  BY <1>3, SessionStep DEF Publishers, Arrive, Leave
<1>4. CASE Signal
  BY <1>4, StartingStep
<1>5. CASE Metrics \/ World \/ Halt
  BY <1>5, OtherStep DEF Metrics, World, Outside, Halt, allVars, mainVars, vars, scanVars
<1> QED  BY <1>1, <1>2, <1>3, <1>4, <1>5 DEF MainNext

\* cmd/rtsper/main.go: at every place of main the pairs and servers are as
\* MainInv says, for every configuration and every range of ports.
THEOREM MainInvariant == MainSpec => []MainInv
<1>1. MainInit => MainInv
  BY MainInitOK
<1>2. AllocInv /\ AllocInv' /\ MainInv /\ [MainNext]_allVars => MainInv'
  <2> SUFFICES ASSUME AllocInv', MainInv, [MainNext]_allVars PROVE MainInv'
    OBVIOUS
  <2>1. CASE MainNext
    BY <2>1, MainStep DEF MainInv
  <2>2. CASE UNCHANGED allVars
    BY <2>2, OtherStep DEF MainInv, allVars, mainVars, vars, scanVars
  <2> QED  BY <2>1, <2>2
<1> QED  BY <1>1, <1>2, UsesAllocator, AllocatorInvariant, PTL DEF MainSpec

\* main.go:206-255 and 345-352: on every way out of main but a panic all ports
\* are free again and the map of the allocator is empty.
THEOREM ExitCorrect == MainSpec => []ExitReleases
<1>1. MainInv => ExitReleases
  <2> SUFFICES ASSUME MainInv, pc \in {"exit", "failed"}, NEW p \in Ports
               PROVE  reserved[p] = NoOne /\ sock[p] \notin Callers
    BY DEF ExitReleases
  <2>1. mu = NoOne /\ ~half /\ \A h \in Callers : pair[h] = 0
    BY ServersAssumption DEF MainInv, PairsOK, AllocInv, ScanOK
  <2>2. \A h \in Callers : reserved[p] # h
    <3>1. HoldersHaveTheirPair
      BY DEF MainInv, AllocInv
    <3>2. \A h \in Callers : reserved[p] = h => pair[h] # 0
      BY ONLY <3>1, p \in Ports, Zenon DEF HoldersHaveTheirPair
    <3> QED  BY ONLY <2>1, <3>2
  <2>3. reserved[p] = NoOne
    BY <2>2 DEF MainInv, AllocInv, TypeOK
  <2>4. \A h \in Callers : sock[p] # h
    BY <2>1, <2>2 DEF MainInv, AllocInv, NoSocketLeak
  <2> QED  BY <2>3, <2>4
<1> QED  BY <1>1, MainInvariant, PTL

\* server.go:72-94: GetConn finds the sockets of a server that starts, bound
\* and its own, for every configuration and every range of ports.
THEOREM SocketsFound == MainSpec => []ServersFindSockets
<1>1. MainInv => ServersFindSockets
  <2> SUFFICES ASSUME MainInv, NEW s \in Callers, cfg.udp, srv[s] \in {"starting", "up"}
               PROVE  /\ pair[s] # 0
                      /\ \A p \in {pair[s], pair[s] + 1} : reserved[p] = s /\ sock[p] = s
    BY DEF ServersFindSockets
  <2>1. pair[s] # 0 /\ inUse[s]
    BY DEF MainInv, ServersOK
  <2>2. pair[s] \in BasePorts
    BY <2>1 DEF MainInv, AllocInv, TypeOK
  <2>3. pair[s] \in Ports /\ pair[s] + 1 \in Ports
    BY <2>2, BasePairs
  <2> QED  BY <2>1, <2>3 DEF MainInv, AllocInv, HoldersHaveTheirPair
<1> QED  BY <1>1, MainInvariant, PTL

-----------------------------------------------------------------------------
(* Gauges, the export of metrics and the quota *)

MetricTypes ==
  /\ prom \in [Otlp!Names -> Int] /\ otlp \in [Otlp!Names -> Int]
  /\ created \in [Otlp!Names -> {"no", "half", "yes", "dud"}]
  /\ attempt \in {"none", "try", "wait", "create", "done"}
  /\ next \in 1..(Len(Order) + 1) /\ faults \in 0..MaxFaults

MainTypes ==
  /\ cfg \in Configs /\ quota \in Int
  /\ pubs \in [Callers -> Nat] /\ count \in 0..MaxSessions
  /\ admin \in {"off", "starting", "up", "failed", "down"}

\* An attempt that is main's own is over before main goes on, and has created
\* every instrument; no instrument is there before InitOTLP.
ExportOK ==
  /\ attempt = "none" => /\ \A i \in Otlp!Names : created[i] = "no" /\ otlp[i] = 0
                         /\ ~inBack
  /\ pc \in {"reserve1", "scan1", "reserve2", "scan2", "undo", "otlp"} => attempt = "none"
  /\ ~inBack /\ attempt = "create" => \A k \in 1..(next - 1) : created[Order[k]] = "yes"
  /\ ~inBack /\ attempt = "done" => \A i \in Otlp!Names : created[i] = "yes"
  /\ ~inBack /\ attempt \in {"try", "create"} => pc = "otlpwait"
  /\ attempt = "wait" => inBack
  /\ attempt \in {"none", "try", "wait"} => next = 1
  /\ torn => pc = "crashed" /\ inBack

\* The gauges of the publishers, here and at the collector.
CountOK ==
  /\ pc \in Early => count = 0
  /\ ~torn => prom[Active] = count
  /\ ~inBack /\ attempt # "none" => otlp[Active] = prom[Active]

\* The gauge of the pairs rises with ReservePair and never falls; while the
\* admin server can be asked main has not released anything.
GaugeOK ==
  /\ ~cfg.udp \/ pc = "reserve1" => prom[Pairs] = 0
  /\ pc = "scan1" /\ pair[Pub] = 0 => prom[Pairs] = 0
  /\ pc = "scan1" /\ pair[Pub] # 0 => prom[Pairs] = 1
  /\ pc = "reserve2" \/ (pc = "scan2" /\ pair[Sub] = 0) => prom[Pairs] = 1
  /\ pc = "scan2" /\ pair[Sub] # 0 => prom[Pairs] = 2
  /\ pc \in Holding /\ cfg.udp => prom[Pairs] = 2
  /\ admin \in {"starting", "up"} =>
       /\ pc \in {"start", "wait", "stop", "crashed"}
       /\ cfg.udp => pair[Pub] # 0 /\ pair[Sub] # 0 /\ prom[Pairs] = 2

Sized ==
  /\ quota >= 1 /\ count <= quota
  /\ quota = 1 \/ (quota <= cfg.cpus * cfg.perCPU /\ quota * cfg.perMB <= cfg.memMB)

QuotaOK ==
  cfg.auto /\ (pc \in {"admin", "start", "wait", "stop"} \/ admin # "off") => Sized

ServeOK == MetricTypes /\ MainTypes /\ ExportOK /\ CountOK /\ GaugeOK /\ QuotaOK

LEMMA NamesOK == Len(Order) \in Nat /\ Pairs \in Otlp!Names /\ Active \in Otlp!Names /\ Pairs # Active
BY OrderAssumption, LenProperties DEF Otlp!Names, Pairs, Active

LEMMA ServeInit == ASSUME MainInit PROVE ServeOK
<1> USE NamesOK, BoundsAssumption DEF MainInit, Otlp!Init
<1>1. MetricTypes
  BY DEF MetricTypes
<1>0. pubs = [s \in Callers |-> 0] /\ count = 0
  BY ServersAssumption DEF count
<1>2. MainTypes
  BY <1>0 DEF MainTypes
<1>3. ExportOK
  BY DEF ExportOK
<1>4. CountOK
  BY <1>0 DEF CountOK
<1>5. GaugeOK
  BY DEF GaugeOK, Holding, Init
<1>6. QuotaOK
  BY DEF QuotaOK
<1> QED  BY <1>1, <1>2, <1>3, <1>4, <1>5, <1>6 DEF ServeOK

\* One Inc, Dec or Add of gauge i.
LEMMA CountStep ==
  ASSUME MetricTypes, NEW i \in Otlp!Names, NEW d \in Int, Otlp!Count(i, d)
  PROVE  /\ MetricTypes' /\ UNCHANGED <<created, attempt, next, inBack, faults>>
         /\ torn' <=> created[i] = "half"
         /\ \A j \in Otlp!Names \ {i} : prom'[j] = prom[j] /\ otlp'[j] = otlp[j]
         /\ created[i] # "yes" => otlp' = otlp
         /\ created[i] = "yes" => otlp'[i] = otlp[i] + d
         /\ ~torn' => prom'[i] = prom[i] + d
<1> USE DEF Otlp!Count, Otlp!tryVars
<1>1. UNCHANGED <<created, attempt, next, inBack, faults>>
  OBVIOUS
<1>2. torn' <=> created[i] = "half"
  OBVIOUS
<1>3. /\ otlp' \in [Otlp!Names -> Int]
      /\ \A j \in Otlp!Names \ {i} : otlp'[j] = otlp[j]
      /\ created[i] # "yes" => otlp' = otlp
      /\ created[i] = "yes" => otlp'[i] = otlp[i] + d
  BY DEF MetricTypes
<1>4. /\ prom' \in [Otlp!Names -> Int]
      /\ \A j \in Otlp!Names \ {i} : prom'[j] = prom[j]
      /\ ~torn' => prom'[i] = prom[i] + d
  BY DEF MetricTypes
<1>5. MetricTypes'
  BY <1>1, <1>3, <1>4 DEF MetricTypes
<1> QED  BY <1>1, <1>2, <1>3, <1>4, <1>5

\* A step of InitOTLP or of its goroutine.
LEMMA ExportStep ==
  ASSUME ServeOK, ~Ended, Otlp!Try \/ Otlp!Retry, UNCHANGED <<vars, mainVars>>
  PROVE  ServeOK'
<1> USE NamesOK, BoundsAssumption DEF Otlp!countVars
<1>0. ~torn
  BY DEF ServeOK, ExportOK, Ended
<1>1. MetricTypes'
  <2> USE DEF ServeOK, MetricTypes, Otlp!Fail
  <2>1. CASE Otlp!Unreachable
    BY <2>1 DEF Otlp!Unreachable
  <2>2. CASE Otlp!Exporter \/ Otlp!Retry \/ Otlp!Created
    BY <2>2 DEF Otlp!Exporter, Otlp!Retry, Otlp!Created
  <2>3. CASE Otlp!Create
    <3>1. next' \in 1..(Len(Order) + 1)
      BY <2>3 DEF Otlp!Create
    <3>2. created' \in [Otlp!Names -> {"no", "half", "yes", "dud"}]
      BY <2>3 DEF Otlp!Create
    <3>3. UNCHANGED <<prom, otlp, attempt, faults>>
      BY <2>3 DEF Otlp!Create
    <3> QED  BY <3>1, <3>2, <3>3
  <2>4. CASE Otlp!CreateFails
    <3>1. faults' \in 0..MaxFaults
      BY <2>4 DEF Otlp!CreateFails
    <3>2. created' \in [Otlp!Names -> {"no", "half", "yes", "dud"}]
      BY <2>4 DEF Otlp!CreateFails
    <3> QED  BY <2>4, <3>1, <3>2 DEF Otlp!CreateFails
  <2> QED  BY <2>1, <2>2, <2>3, <2>4 DEF Otlp!Try
<1>2. UNCHANGED <<prom, otlp, torn, cfg, pc, quota, admin, pubs, count, pair>>
  BY DEF Otlp!Try, Otlp!Retry, Otlp!Unreachable, Otlp!Exporter, Otlp!Create, Otlp!CreateFails,
     Otlp!Created, mainVars, vars, count
<1>3. MainTypes' /\ GaugeOK'
  BY <1>2 DEF ServeOK, MainTypes, GaugeOK
<1>4. QuotaOK'
  BY <1>2 DEF ServeOK, QuotaOK, Sized
<1>5. attempt # "none" /\ attempt' # "none" /\ (inBack => inBack')
  BY DEF Otlp!Try, Otlp!Retry, Otlp!Unreachable, Otlp!Exporter, Otlp!Create, Otlp!CreateFails,
     Otlp!Created, Otlp!Fail
<1>6. CountOK'
  BY <1>2, <1>5 DEF ServeOK, CountOK
<1>7. ExportOK'
  <2> USE DEF ServeOK, ExportOK, Otlp!Fail
  <2>1. CASE Otlp!Unreachable
    BY <1>0, <1>2, <1>5, <2>1 DEF Otlp!Unreachable
  <2>2. CASE Otlp!CreateFails
    BY <1>0, <1>2, <1>5, <2>2 DEF Otlp!CreateFails
  <2>3. CASE Otlp!Exporter \/ Otlp!Retry
    <3>1. ASSUME ~inBack', attempt' = "create" PROVE next = 1
      BY <2>3, <3>1 DEF Otlp!Exporter, Otlp!Retry
    <3> QED  BY <1>0, <1>2, <1>5, <2>3, <3>1 DEF Otlp!Exporter, Otlp!Retry
  <2>4. CASE Otlp!Created
    <3>1. ASSUME ~inBack, NEW i \in Otlp!Names PROVE created[i] = "yes"
      <4>1. PICK k \in 1..Len(Order) : i = Order[k]
        BY DEF Otlp!Names
      <4>2. k \in 1..(next - 1)
        BY <2>4, <4>1 DEF Otlp!Created, MetricTypes
      <4> QED  BY <2>4, <3>1, <4>1, <4>2 DEF Otlp!Created
    <3> QED  BY <1>0, <1>2, <1>5, <2>4, <3>1 DEF Otlp!Created
  <2>5. CASE Otlp!Create
    <3>1. ASSUME ~inBack, NEW k \in 1..(next' - 1) PROVE created'[Order[k]] = "yes"
      <4>1. next \in 1..Len(Order) /\ Order[next] \in Otlp!Names /\ attempt = "create"
        BY <2>5 DEF Otlp!Create, Otlp!Names, MetricTypes
      <4>2. created[Order[next]] = "no" => k \in 1..(next - 1) /\ Order[k] # Order[next]
        BY <2>5, <3>1 DEF Otlp!Create
      <4>3. created[Order[next]] # "no" => k \in 1..(next - 1) \/ k = next
        BY <2>5, <4>1 DEF Otlp!Create
      <4>4. k \in 1..Len(Order) /\ Order[k] \in Otlp!Names
        BY <4>1, <4>2, <4>3 DEF Otlp!Names
      <4>5. CASE created[Order[next]] = "no"
        BY <2>5, <3>1, <4>1, <4>2, <4>4, <4>5 DEF Otlp!Create, MetricTypes
      <4>6. CASE created[Order[next]] # "no"
        BY <2>5, <3>1, <4>1, <4>3, <4>4, <4>6 DEF Otlp!Create, MetricTypes
      <4> QED  BY <4>5, <4>6
    <3> QED  BY <1>0, <1>2, <1>5, <2>5, <3>1 DEF Otlp!Create
  <2> QED  BY <2>1, <2>2, <2>3, <2>4, <2>5 DEF Otlp!Try
<1> QED  BY <1>1, <1>3, <1>4, <1>6, <1>7 DEF ServeOK

\* A step that counts nothing and leaves the quota and the admin server alone:
\* where main is now says as much of pairs and attempts as it did before.
LEMMA QuietStep ==
  ASSUME ServeOK, UNCHANGED <<metricVars, cfg, quota, admin, pubs, count>>, ExportOK', GaugeOK',
         pc' \in Early => pc \in Early,
         pc' \in {"admin", "start", "wait", "stop"} => pc \in {"admin", "start", "wait", "stop"}
  PROVE  ServeOK'
<1> USE DEF metricVars
<1>1. MetricTypes' /\ MainTypes'
  BY DEF ServeOK, MetricTypes, MainTypes
<1>2. CountOK'
  BY DEF ServeOK, CountOK
<1>3. QuotaOK'
  BY DEF ServeOK, QuotaOK, Sized
<1> QED  BY <1>1, <1>2, <1>3 DEF ServeOK

LEMMA ServeReserving ==
  ASSUME MainInv, ServeOK, ~Ended,
         \/ CallReserve(Pub, "reserve1", "scan1") \/ Reserved(Pub, "scan1", "reserve2", "failed")
         \/ CallReserve(Sub, "reserve2", "scan2") \/ Reserved(Sub, "scan2", "otlp", "undo")
         \/ Undo
  PROVE  ServeOK'
<1> USE ServersAssumption DEF Goto
<1>0. /\ UNCHANGED <<metricVars, cfg, quota, admin, pubs, count>>
      /\ pc \in {"reserve1", "scan1", "reserve2", "scan2", "undo"}
      /\ pc' \notin {"admin", "start", "wait", "stop"}
  BY DEF CallReserve, Reserved, Undo, count
<1>1. ExportOK'
  <2>1. attempt = "none" /\ ~torn /\ UNCHANGED <<created, otlp, next, attempt, inBack, torn>>
    BY <1>0 DEF ServeOK, ExportOK, metricVars, Ended
  <2> QED  BY <2>1 DEF ServeOK, ExportOK
<1>2. GaugeOK'
  <2> USE DEF MainInv, AllocInv, TypeOK, PairsOK, ServeOK, GaugeOK, Holding, metricVars
  <2>0. cfg.udp /\ admin \notin {"starting", "up"}
    BY <1>0
  <2>1. CASE CallReserve(Pub, "reserve1", "scan1")
    BY <1>0, <2>0, <2>1 DEF CallReserve, Reserve
  <2>2. CASE Reserved(Pub, "scan1", "reserve2", "failed")
    BY <1>0, <2>0, <2>2 DEF Reserved, vars
  <2>3. CASE CallReserve(Sub, "reserve2", "scan2")
    BY <1>0, <2>0, <2>3 DEF CallReserve, Reserve
  <2>4. CASE Reserved(Sub, "scan2", "otlp", "undo")
    BY <1>0, <2>0, <2>4 DEF Reserved, vars
  <2>5. CASE Undo
    BY <1>0, <2>0, <2>5 DEF Undo
  <2> QED  BY <2>1, <2>2, <2>3, <2>4, <2>5
<1> QED  BY <1>0, <1>1, <1>2, QuietStep DEF Early

LEMMA ServeScan ==
  ASSUME MainInv, ServeOK, ~Ended, NEW h \in Callers, Scan(h)
  PROVE  ServeOK'
<1> USE ServersAssumption, CallersAssumption, NamesOK
<1>0. /\ mu = h /\ UNCHANGED mainVars /\ h \in {Pub, Sub}
      /\ pc \in {"scan1", "scan2"} /\ cfg.udp
      /\ pc = "scan1" => h = Pub
      /\ pc = "scan2" => h = Sub
  BY DEF Scan, BindRTP, BindRTCP, MainInv, PairsOK, Ended
<1>1. UNCHANGED <<cfg, pc, quota, admin, pubs, count>>
  BY <1>0 DEF mainVars, count
<1>2. admin \notin {"starting", "up"} /\ attempt = "none" /\ count = 0 /\ ~torn /\ created[Pairs] = "no"
  BY <1>0 DEF ServeOK, GaugeOK, ExportOK, CountOK, Early
<1>3. CASE pair' = pair
  <2>1. pair[h] = 0
    BY <1>0 DEF MainInv, AllocInv, ScanOK
  <2>2. UNCHANGED metricVars
    BY <1>3, <2>1 DEF Scan
  <2>3. ExportOK' /\ GaugeOK'
    BY <1>1, <1>3, <2>2 DEF ServeOK, ExportOK, GaugeOK, metricVars
  <2> QED  BY <1>1, <2>2, <2>3, QuietStep
<1>4. CASE pair' # pair
  <2>1. pair' = [pair EXCEPT ![h] = cur] /\ cur # 0 /\ pair[h] = 0
    BY <1>0, <1>4, BasePairs DEF Scan, BindRTP, BindRTCP, MainInv, AllocInv, TypeOK, ScanOK
  <2>2. pair'[h] # 0 /\ \A g \in Callers \ {h} : pair'[g] = pair[g]
    BY <2>1 DEF MainInv, AllocInv, TypeOK
  <2>3. Otlp!Count(Pairs, 1)
    BY <2>2 DEF Scan
  <2>4. /\ MetricTypes' /\ UNCHANGED <<created, attempt, next, inBack, faults>>
        /\ ~torn' /\ prom'[Active] = prom[Active] /\ otlp' = otlp
        /\ prom'[Pairs] = prom[Pairs] + 1
    BY <1>2, <2>3, CountStep DEF ServeOK
  <2>5. MainTypes' /\ ExportOK'
    BY <1>1, <1>2, <2>4 DEF ServeOK, MainTypes, ExportOK
  <2>6. CountOK'
    BY <1>1, <1>2, <2>4 DEF ServeOK, CountOK
  <2>7. GaugeOK'
    BY <1>0, <1>1, <1>2, <2>1, <2>2, <2>4 DEF ServeOK, GaugeOK, Holding
  <2>8. QuotaOK'
    BY <1>1 DEF ServeOK, QuotaOK, Sized
  <2> QED  BY <2>4, <2>5, <2>6, <2>7, <2>8 DEF ServeOK
<1> QED  BY <1>3, <1>4

\* A quotient times its divisor is no more than what was divided.
LEMMA QuotientOK ==
  ASSUME NEW a \in Nat, NEW b \in Int \ {0}, NEW x \in Nat \ {0}, x <= Quotient(a, b)
  PROVE  x * b <= a
<1>1. CASE b > 0
  <2> DEFINE q == a \div b
  <2>1. q \in Int /\ q * b <= a /\ x <= q
    BY <1>1 DEF Quotient
  <2> HIDE DEF q
  <2>2. x * b <= q * b
    BY <1>1, <2>1
  <2> QED  BY <2>1, <2>2
<1>2. CASE b < 0
  BY <1>2 DEF Quotient
<1> QED  BY <1>1, <1>2

LEMMA AutoMaxOK ==
  ASSUME NEW c \in Configs, c.perMB # 0
  PROVE  /\ AutoMax(c) \in Int /\ AutoMax(c) >= 1
         /\ AutoMax(c) = 1 \/ (AutoMax(c) <= c.cpus * c.perCPU /\ AutoMax(c) * c.perMB <= c.memMB)
<1> DEFINE x == Least(c.cpus * c.perCPU, Quotient(c.memMB, c.perMB))
<1>1. c.cpus \in Nat /\ c.perCPU \in Int /\ c.memMB \in Nat /\ c.perMB \in Int \ {0}
  BY ConfigsAssumption
<1>2. c.cpus * c.perCPU \in Int
  BY <1>1
<1>3. Quotient(c.memMB, c.perMB) \in Int
  BY <1>1 DEF Quotient
<1>4. x \in Int /\ x <= c.cpus * c.perCPU /\ x <= Quotient(c.memMB, c.perMB)
  BY <1>2, <1>3 DEF Least
<1>5. AutoMax(c) = IF x < 1 THEN 1 ELSE x
  BY DEF AutoMax
<1> HIDE DEF x
<1>6. CASE x < 1
  BY <1>5, <1>6
<1>7. CASE ~(x < 1)
  <2>1. x \in Nat \ {0}
    BY <1>4, <1>7
  <2>2. x * c.perMB <= c.memMB
    BY <1>1, <1>4, <2>1, QuotientOK
  <2> QED  BY <1>4, <1>5, <1>7, <2>1, <2>2
<1> QED  BY <1>6, <1>7

LEMMA ServeStarting ==
  ASSUME MainInv, ServeOK, ~Ended,
         CallInitOTLP \/ InitOTLPReturns \/ SetQuota \/ StartAdmin \/ StartServers
           \/ Signal \/ StopAdmin
  PROVE  ServeOK'
<1> USE NamesOK DEF Goto, metricVars
<1>0. ~torn /\ UNCHANGED <<cfg, pubs, count, pair, prom, otlp, created, next, inBack, faults, torn>>
  BY DEF ServeOK, ExportOK, Ended, CallInitOTLP, Otlp!InitOTLP, Otlp!countVars, InitOTLPReturns,
     SetQuota, Die, StartAdmin, StartServers, Signal, StopAdmin, vars, count
<1>1. CASE CallInitOTLP
  <2>1. /\ pc = "otlp" /\ pc' \in {"otlpwait", "quota"} /\ UNCHANGED <<quota, admin>>
        /\ attempt = "none" /\ attempt' \in {"none", "try"}
        /\ pc' = "quota" => attempt' = "none"
    BY <1>1 DEF CallInitOTLP, Otlp!InitOTLP, ServeOK, ExportOK
  <2>2. MetricTypes' /\ MainTypes'
    BY <1>0, <2>1 DEF ServeOK, MetricTypes, MainTypes
  <2>3. ExportOK'
    BY <1>0, <2>1 DEF ServeOK, ExportOK
  <2>4. CountOK'
    BY <1>0, <2>1 DEF ServeOK, ExportOK, CountOK, Early
  <2>5. GaugeOK'
    BY <1>0, <2>1 DEF ServeOK, GaugeOK, Holding
  <2>6. QuotaOK'
    BY <1>0, <2>1 DEF ServeOK, QuotaOK, Sized
  <2> QED  BY <2>2, <2>3, <2>4, <2>5, <2>6 DEF ServeOK
<1>2. CASE InitOTLPReturns
  <2>1. /\ pc = "otlpwait" /\ pc' = "quota" /\ UNCHANGED <<quota, admin, attempt>>
        /\ attempt = "done" \/ inBack
    BY <1>2 DEF InitOTLPReturns
  <2>2. ExportOK'
    BY <1>0, <2>1 DEF ServeOK, ExportOK
  <2>3. GaugeOK'
    BY <1>0, <2>1 DEF ServeOK, GaugeOK, Holding
  <2> QED  BY <1>0, <2>1, <2>2, <2>3, QuietStep DEF Early
<1>3. CASE SetQuota
  <2>1. /\ pc = "quota" /\ pc' \in {"admin", "crashed"} /\ UNCHANGED <<admin, attempt>>
    BY <1>3 DEF SetQuota, Die
  <2>2. MetricTypes'
    BY <1>0, <2>1 DEF ServeOK, MetricTypes
  <2>3. ExportOK'
    BY <1>0, <2>1 DEF ServeOK, ExportOK
  <2>4. CountOK'
    BY <1>0, <2>1 DEF ServeOK, CountOK, Early
  <2>5. GaugeOK'
    BY <1>0, <2>1 DEF ServeOK, GaugeOK, Holding
  <2>6. MainTypes' /\ QuotaOK'
    <3>1. cfg \in Configs /\ count = 0 /\ quota \in Int
      BY <2>1 DEF ServeOK, MainTypes, CountOK, Early
    <3>2. CASE cfg.auto /\ cfg.perMB = 0
      <4>1. pc' = "crashed" /\ quota' = quota
        BY <1>3, <3>2 DEF SetQuota, Die
      <4> QED  BY <1>0, <2>1, <4>1 DEF ServeOK, MainTypes, QuotaOK, Sized
    <3>3. CASE cfg.auto /\ cfg.perMB # 0
      <4>1. quota' = AutoMax(cfg)
        BY <1>3, <3>3 DEF SetQuota
      <4>2. quota' \in Int /\ Sized'
        BY <1>0, <3>1, <3>3, <4>1, AutoMaxOK DEF Sized
      <4> QED  BY <1>0, <2>1, <4>2 DEF ServeOK, MainTypes, QuotaOK
    <3>4. CASE ~cfg.auto
      <4>1. quota' = Merge(cfg.file, cfg.flag) /\ cfg.file \in Int /\ cfg.flag \in Int
        BY <1>3, <3>1, <3>4, ConfigsAssumption DEF SetQuota
      <4>2. quota' \in Int
        BY <4>1 DEF Merge
      <4> QED  BY <1>0, <2>1, <3>4, <4>2 DEF ServeOK, MainTypes, QuotaOK
    <3> QED  BY <3>2, <3>3, <3>4
  <2> QED  BY <2>2, <2>3, <2>4, <2>5, <2>6 DEF ServeOK
<1>4. CASE StartAdmin \/ StopAdmin
  <2>1. /\ \/ pc = "admin" /\ pc' = "start" /\ admin' = "starting"
           \/ pc = "stop" /\ pc' = "close1" /\ admin' = "down"
        /\ UNCHANGED <<quota, attempt>>
    BY <1>4 DEF StartAdmin, StopAdmin
  <2>2. MetricTypes' /\ MainTypes'
    BY <1>0, <2>1 DEF ServeOK, MetricTypes, MainTypes
  <2>3. ExportOK'
    BY <1>0, <2>1 DEF ServeOK, ExportOK
  <2>4. CountOK'
    BY <1>0, <2>1 DEF ServeOK, CountOK, Early
  <2>5. GaugeOK'
    BY <1>0, <2>1 DEF ServeOK, GaugeOK, Holding, MainInv, PairsOK
  <2>6. QuotaOK'
    BY <1>0, <2>1 DEF ServeOK, QuotaOK, Sized
  <2> QED  BY <2>2, <2>3, <2>4, <2>5, <2>6 DEF ServeOK
<1>5. CASE StartServers \/ Signal
  <2>1. /\ pc \in {"start", "wait"} /\ pc' \in {"wait", "stop"}
        /\ UNCHANGED <<quota, admin, attempt>>
    BY <1>5 DEF StartServers, Signal
  <2>2. ExportOK'
    BY <1>0, <2>1 DEF ServeOK, ExportOK
  <2>3. GaugeOK'
    BY <1>0, <2>1 DEF ServeOK, GaugeOK, Holding
  <2> QED  BY <1>0, <2>1, <2>2, <2>3, QuietStep DEF Early
<1> QED  BY <1>1, <1>2, <1>3, <1>4, <1>5

\* A server or its end, and the release of its pair.
LEMMA ServeServers ==
  ASSUME MainInv, ServeOK, ~Ended, NEW s \in Callers,
         \/ ServerUp(s) \/ ServerFails(s)
         \/ s = Pub /\ \/ CloseServer(s, "close1") \/ ServerClosed(s, "close1", "close2")
                       \/ CloseStopped(s, "close1", "close2")
         \/ s = Sub /\ \/ CloseServer(s, "close2") \/ ServerClosed(s, "close2", "release1")
                       \/ CloseStopped(s, "close2", "release1")
         \/ ReleasePair(Pub, "release1", "release2") \/ ReleasePair(Sub, "release2", "exit")
  PROVE  ServeOK'
<1> USE DEF Goto, metricVars
<1>0. ~torn
  BY DEF ServeOK, ExportOK, Ended
<1>1. CASE ServerUp(s) \/ ServerFails(s) \/ \E at : CloseServer(s, at)
  <2>1. UNCHANGED <<metricVars, cfg, quota, admin, pubs, count, pc, pair>>
    BY <1>1 DEF ServerUp, ServerFails, CloseServer, CloseSockets, ServerClose, vars, count
  <2>2. ExportOK' /\ GaugeOK'
    BY <2>1 DEF ServeOK, ExportOK, GaugeOK
  <2> QED  BY <2>1, <2>2, QuietStep
<1>2. CASE ~(ServerUp(s) \/ ServerFails(s) \/ \E at : CloseServer(s, at))
  <2>1. /\ UNCHANGED <<metricVars, cfg, quota, admin, pubs, count>>
        /\ pc \in {"close1", "close2", "release1", "release2"}
        /\ pc' \in {"close2", "release1", "release2", "exit", "crashed"}
        /\ pc' \in Holding => pc \in Holding
    BY <1>2 DEF ServerClosed, CloseStopped, ReleasePair, Holding, count
  <2>2. ExportOK'
    BY <1>0, <2>1 DEF ServeOK, ExportOK
  <2>3. GaugeOK'
    BY <2>1 DEF ServeOK, GaugeOK
  <2> QED  BY <2>1, <2>2, <2>3, QuietStep DEF Early
<1> QED  BY <1>1, <1>2

\* A publisher comes or goes.
LEMMA ServeSession ==
  ASSUME MainInv, ServeOK, ~Ended, NEW s \in Callers, NEW d \in {1, -1}, Session(s, d),
         pubs[s] + d \in Nat,
         pc \notin Early, count + d \in 0..MaxSessions,
         Sized => count + d <= quota
  PROVE  ServeOK'
<1> USE NamesOK
<1>0. /\ ~torn /\ count \in Int /\ prom[Active] = count /\ quota \in Int
      /\ Otlp!Count(Active, d) /\ UNCHANGED <<cfg, quota, admin, pair>>
      /\ pc' = IF torn' THEN "crashed" ELSE pc
  BY DEF ServeOK, ExportOK, CountOK, MainTypes, Ended, Session, vars
<1>9. pubs' \in [Callers -> Nat] /\ count' = count + d
  <2>1. /\ pubs \in [Callers -> Nat] /\ pubs' = [pubs EXCEPT ![s] = @ + d]
    BY DEF ServeOK, MainTypes, Session
  <2>2. pubs' \in [Callers -> Nat] /\ pubs[Pub] \in Nat /\ pubs[Sub] \in Nat
    BY <2>1, ServersAssumption
  <2>3. CASE s = Pub
    BY <2>1, <2>2, <2>3, ServersAssumption DEF count
  <2>4. CASE s = Sub
    BY <2>1, <2>2, <2>4, ServersAssumption DEF count
  <2> QED  BY <2>2, <2>3, <2>4, ServersAssumption
<1>1. /\ MetricTypes' /\ UNCHANGED <<created, attempt, next, inBack, faults>>
      /\ torn' <=> created[Active] = "half"
      /\ prom'[Pairs] = prom[Pairs]
      /\ created[Active] # "yes" => otlp' = otlp
      /\ created[Active] = "yes" => otlp'[Active] = otlp[Active] + d
      /\ ~torn' => prom'[Active] = prom[Active] + d
  BY <1>0, CountStep DEF ServeOK
<1>2. /\ attempt = "none" => created[Active] = "no"
      /\ ~inBack /\ attempt # "none" => attempt = "done" /\ created[Active] = "yes"
  BY DEF ServeOK, ExportOK, MetricTypes, Early
<1>3. MainTypes'
  BY <1>0, <1>9 DEF ServeOK, MainTypes
<1>4. torn' => inBack
  BY <1>1, <1>2
<1>5. ExportOK'
  BY <1>0, <1>1, <1>2, <1>4 DEF ServeOK, ExportOK
<1>6. CountOK'
  <2>1. ~torn' => prom'[Active] = count'
    BY <1>0, <1>1, <1>9
  <2>2. ~inBack' /\ attempt' # "none" => otlp'[Active] = prom'[Active]
    <3> SUFFICES ASSUME ~inBack, attempt # "none" PROVE otlp'[Active] = prom'[Active]
      BY <1>1
    <3>1. created[Active] = "yes" /\ otlp[Active] = prom[Active] /\ ~torn'
      BY <1>1, <1>2 DEF ServeOK, CountOK
    <3> QED  BY <1>1, <3>1
  <2>3. pc' \notin Early
    BY <1>0 DEF Early
  <2> QED  BY <2>1, <2>2, <2>3 DEF CountOK
<1>7. GaugeOK'
  BY <1>0, <1>1 DEF ServeOK, GaugeOK, Holding
<1>8. QuotaOK'
  BY <1>0, <1>9 DEF ServeOK, QuotaOK, Sized
<1> QED  BY <1>1, <1>3, <1>5, <1>6, <1>7, <1>8 DEF ServeOK

LEMMA ServeNext ==
  ASSUME MainInv, ServeOK, MainNext
  PROVE  ServeOK'
<1> USE ServersAssumption
<1>1. CASE ~Ended /\ Main
  BY <1>1, ServeReserving, ServeScan, ServeStarting, ServeServers DEF Main
<1>2. CASE ~Ended /\ Metrics
  BY <1>2, ExportStep DEF Metrics
<1>3. CASE AdminListens /\ ~Ended
  <2>1. /\ UNCHANGED <<metricVars, cfg, pc, quota, pubs, count, pair>>
        /\ admin = "starting" /\ admin' \in {"up", "failed"}
    BY <1>3 DEF AdminListens, vars, count
  <2>2. MetricTypes' /\ MainTypes'
    BY <2>1 DEF ServeOK, MetricTypes, MainTypes, metricVars
  <2>3. ExportOK' /\ CountOK'
    BY <2>1 DEF ServeOK, ExportOK, CountOK, metricVars
  <2>4. GaugeOK'
    BY <2>1 DEF ServeOK, GaugeOK, metricVars
  <2>5. QuotaOK'
    BY <2>1 DEF ServeOK, QuotaOK, Sized
  <2> QED  BY <2>2, <2>3, <2>4, <2>5 DEF ServeOK
<1>4. CASE ~Ended /\ Servers
  BY <1>3, <1>4, ServeServers DEF Servers
<1>5. ASSUME ~Ended, NEW s \in Callers, Arrive(s) PROVE ServeOK'
  <2>1. pc \notin Early
    BY <1>5 DEF Arrive, MainInv, ServersOK
  <2>2. /\ count \in Int /\ quota \in Int /\ count + 1 \in 0..MaxSessions
        /\ pubs[s] + 1 \in Nat
    BY <1>5, BoundsAssumption DEF Arrive, ServeOK, MainTypes
  <2>3. Sized => count + 1 <= quota
    BY <1>5, <2>2 DEF Arrive, Sized
  <2> QED  BY <1>5, <2>1, <2>2, <2>3, ServeSession DEF Arrive
<1>6. ASSUME ~Ended, NEW s \in Callers, Leave(s) PROVE ServeOK'
  <2>1. /\ pubs[s] \in Nat /\ pubs[s] > 0 /\ pubs[Pub] \in Nat /\ pubs[Sub] \in Nat
        /\ count \in 0..MaxSessions /\ quota \in Int
    BY <1>6 DEF Leave, ServeOK, MainTypes
  <2>2. count > 0
    BY <2>1 DEF count
  <2>3. count + -1 \in 0..MaxSessions /\ pubs[s] + -1 \in Nat
    BY <2>1, <2>2, BoundsAssumption
  <2>4. pc \notin Early
    BY <2>2 DEF ServeOK, CountOK
  <2>5. Sized => count + -1 <= quota
    BY <2>1 DEF Sized
  <2> QED  BY <1>6, <2>3, <2>4, <2>5, ServeSession DEF Leave
<1>7. CASE ~Ended /\ Signal
  BY <1>7, ServeStarting
<1>8. CASE World \/ Halt
  <2>1. UNCHANGED <<metricVars, cfg, pc, quota, admin, pubs, count, pair>>
    BY <1>8 DEF World, Outside, Halt, allVars, mainVars, vars, count
  <2>2. ExportOK' /\ GaugeOK'
    BY <2>1 DEF ServeOK, ExportOK, GaugeOK, metricVars
  <2> QED  BY <2>1, <2>2, QuietStep
<1> QED  BY <1>1, <1>2, <1>4, <1>5, <1>6, <1>7, <1>8 DEF MainNext, Publishers

LEMMA ServeAlways == MainSpec => [](MainInv /\ ServeOK)
<1>1. MainInit => ServeOK
  BY ServeInit
<1>2. MainInv /\ ServeOK /\ [MainNext]_allVars => ServeOK'
  <2> SUFFICES ASSUME MainInv, ServeOK, [MainNext]_allVars PROVE ServeOK'
    OBVIOUS
  <2>1. CASE UNCHANGED allVars
    <3>1. UNCHANGED <<metricVars, cfg, pc, quota, admin, pubs, count, pair>>
      BY <2>1 DEF allVars, mainVars, vars, count
    <3>2. ExportOK' /\ GaugeOK'
      BY <3>1 DEF ServeOK, ExportOK, GaugeOK, metricVars
    <3> QED  BY <3>1, <3>2, QuietStep
  <2> QED  BY <2>1, ServeNext
<1> QED  BY <1>1, <1>2, MainInvariant, PTL DEF MainSpec

\* The variables of the process have their types, and half an instrument is
\* used only in the moment the process ends.
THEOREM StartupTypes == MainSpec => []MainTypeOK
<1>1. MainInv /\ ServeOK => MainTypeOK
  BY DEF MainInv, AllocInv, ServersOK, ServeOK, MetricTypes, MainTypes, ExportOK, MainTypeOK
<1> QED  BY <1>1, ServeAlways, PTL

\* metrics.go:53 and :85: what the gauges say while the admin server can be
\* asked is true, although a release does not lower the one of the pairs.
THEOREM GaugesCorrect == MainSpec => []GaugesWhileServing
<1>1. MainInv /\ ServeOK => GaugesWhileServing
  <2> SUFFICES ASSUME MainInv, ServeOK, admin = "up"
               PROVE  /\ prom[Pairs] = (IF cfg.udp THEN 2 ELSE 0)
                      /\ prom[Pairs] = Cardinality({h \in Callers : pair[h] # 0})
                      /\ ~torn => prom[Active] = count
    BY DEF GaugesWhileServing
  <2>1. CASE cfg.udp
    <3>1. prom[Pairs] = 2 /\ pair[Pub] # 0 /\ pair[Sub] # 0
      BY <2>1 DEF ServeOK, GaugeOK
    <3>2. {h \in Callers : pair[h] # 0} = {Pub} \cup {Sub}
      BY <3>1, ServersAssumption
    <3>3. IsFiniteSet({Pub}) /\ Cardinality({Pub}) = 1 /\ Sub \notin {Pub}
      BY FS_Singleton, ServersAssumption
    <3>4. Cardinality({Pub} \cup {Sub}) = 2
      BY <3>3, FS_AddElement
    <3> QED  BY <2>1, <3>1, <3>2, <3>4 DEF ServeOK, CountOK
  <2>2. CASE ~cfg.udp
    <3>1. prom[Pairs] = 0 /\ pair[Pub] = 0 /\ pair[Sub] = 0
      BY <2>2 DEF ServeOK, GaugeOK, MainInv, PairsOK
    <3>2. {h \in Callers : pair[h] # 0} = {}
      BY <3>1, ServersAssumption
    <3> QED  BY <2>2, <3>1, <3>2, FS_EmptySet DEF ServeOK, CountOK
  <2> QED  BY <2>1, <2>2
<1> QED  BY <1>1, ServeAlways, PTL

\* metrics.go:223-232: an InitOTLP that succeeds at once has the collector told
\* of every publisher, on whichever server, whatever the number of instruments.
THEOREM MirroredCorrect == MainSpec => []PublishersMirrored
<1>1. ServeOK => PublishersMirrored
  BY DEF ServeOK, CountOK, PublishersMirrored
<1> QED  BY <1>1, ServeAlways, PTL

\* Only the goroutine of InitOTLP can bring the process down.
THEOREM TornCorrect == MainSpec => []TornOnlyInBackground
<1>1. ServeOK => TornOnlyInBackground
  BY DEF ServeOK, ExportOK, TornOnlyInBackground
<1> QED  BY <1>1, ServeAlways, PTL

\* main.go:281: an automatic quota is at least 1, is within what processors and
\* memory allow unless it was raised to 1, and is kept, for every size a
\* configuration can give.
THEOREM AutoQuotaCorrect == MainSpec => []AutoQuotaLimits
<1>1. ServeOK => AutoQuotaLimits
  BY DEF ServeOK, QuotaOK, Sized, AutoQuotaLimits
<1> QED  BY <1>1, ServeAlways, PTL
=============================================================================
