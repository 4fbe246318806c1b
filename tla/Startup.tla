------------------------------ MODULE Startup -------------------------------
(***************************************************************************)
(* The life of the process in cmd/rtsper/main.go: it reserves the UDP      *)
(* pairs of its two servers (UdpAllocator), sets up the export of metrics  *)
(* (OtlpMetrics), sizes the quota of publishers, starts the admin server   *)
(* and the RTSP servers (Server.Start of pkg/rtspsrv), and after a signal  *)
(* takes all of it down.  Publishers come and go while a server is up;     *)
(* what they do there, and Manager.Shutdown at the end, is TopicManager's  *)
(* matter.                                                                 *)
(*                                                                         *)
(* The two RTSP servers start in goroutines of their own, which only log   *)
(* an error, as does the one of the admin server.  A signal before main    *)
(* waits for it kills the process and is left out, and so are a server     *)
(* that starts after it was closed, while main returns, and the check of   *)
(* the UDP ports in validate_udp.go, which main never reaches: it has an   *)
(* allocator whenever UDP is on.                                           *)
(***************************************************************************)
EXTENDS UdpAllocator, Sequences, FiniteSets

CONSTANTS
  Pub, Sub,     \* the servers, and main on behalf of each
  Configs,      \* flags, file and machine
  Order, MaxFaults,
  MaxSessions   \* bound on publishers at a time

Pairs == "reserved_pairs"
Active == "active_publishers"

ASSUME ServersAssumption == Callers = {Pub, Sub} /\ Pub # Sub
ASSUME ConfigsAssumption ==
  Configs \subseteq [udp : BOOLEAN, otel : BOOLEAN, auto : BOOLEAN, file : Int, flag : Int,
                     cpus : Nat, perCPU : Int, memMB : Nat, perMB : Int]
ASSUME OrderAssumption ==
  Order \in Seq(STRING) /\ \A i \in {Pairs, Active} : \E k \in 1..Len(Order) : Order[k] = i
ASSUME BoundsAssumption == MaxFaults \in Nat /\ MaxSessions \in Nat

VARIABLES
  cfg,          \* what it was started with
  pc,           \* where main is
  quota,        \* Config.MaxPublishers
  admin, srv,   \* the admin server and the two RTSP servers
  pubs,         \* pubs[s]: publishers with a session of server s
  prom, otlp, created, attempt, next, inBack, faults, torn

\* Manager.publisherCount: the servers share one manager and one handler.
count == pubs[Pub] + pubs[Sub]

Otlp == INSTANCE OtlpMetrics

metricVars == <<prom, otlp, created, attempt, next, inBack, faults, torn>>
mainVars == <<cfg, pc, quota, admin, srv, pubs>>
allVars == <<vars, mainVars, metricVars>>

MainInit ==
  /\ Init /\ Otlp!Init
  /\ cfg \in Configs
  /\ pc = IF cfg.udp THEN "reserve1" ELSE "otlp"
  /\ quota = 0 /\ pubs = [s \in Callers |-> 0]
  /\ admin = "off" /\ srv = [s \in Callers |-> "off"]

Ended == pc \in {"exit", "failed", "crashed"}

Goto(to) == pc' = to /\ UNCHANGED <<cfg, quota, admin, srv, pubs>>

\* A panic in any goroutine ends the process.
Die == Goto("crashed")

-----------------------------------------------------------------------------
(* Up to NewManager *)

\* main calls ReservePair for the publishers' server, then for the other.
CallReserve(h, from, to) ==
  /\ pc = from /\ Reserve(h) /\ Goto(to)
  /\ UNCHANGED metricVars

\* A pair is counted while ReservePair has the lock.
Scan(h) ==
  /\ BindRTP(h) \/ BindRTCP(h)
  /\ IF pair'[h] # 0 THEN Otlp!Count(Pairs, 1) ELSE UNCHANGED metricVars
  /\ UNCHANGED mainVars

\* ReservePair has returned.
Reserved(h, from, to, fail) ==
  /\ pc = from /\ mu = NoOne
  /\ Goto(IF pair[h] # 0 THEN to ELSE fail)
  /\ UNCHANGED <<vars, metricVars>>

\* (Mutant: the first pair is not given back.)
UndoNothing ==
  /\ pc = "undo" /\ Goto("failed")
  /\ UNCHANGED <<vars, metricVars>>

\* No second pair: the first is given back.
Undo ==
  /\ pc = "undo" /\ Release(Pub) /\ Goto("failed")
  /\ UNCHANGED metricVars

CallInitOTLP ==
  /\ pc = "otlp"
  /\ IF cfg.otel THEN Goto("otlpwait") /\ Otlp!InitOTLP
                 ELSE Goto("quota") /\ UNCHANGED metricVars
  /\ UNCHANGED vars

\* (Mutant: main goes on at once.)
DoNotWait ==
  /\ pc = "otlpwait" /\ Goto("quota")
  /\ UNCHANGED <<vars, metricVars>>

\* InitOTLP returns without an error when its own attempt has ended.
InitOTLPReturns ==
  /\ pc = "otlpwait" /\ (attempt = "done" \/ inBack)
  /\ Goto("quota")
  /\ UNCHANGED <<vars, metricVars>>

\* A flag counts only where the file has nothing.
Merge(file, flag) == IF file = 0 THEN flag ELSE file

Least(a, b) == IF b < a THEN b ELSE a

\* Go rounds a quotient towards 0.
Quotient(a, b) == IF b > 0 THEN a \div b ELSE -(a \div (-b))

\* (Mutant: the result is not raised to 1.)
UnraisedMax(c) == Least(c.cpus * c.perCPU, Quotient(c.memMB, c.perMB))

\* As many publishers as processors and memory allow, and at least 1.
AutoMax(c) ==
  LET computed == Least(c.cpus * c.perCPU, Quotient(c.memMB, c.perMB))
  IN  IF computed < 1 THEN 1 ELSE computed

\* The manager is created.  Without a size per publisher main divides by zero.
SetQuota ==
  /\ pc = "quota"
  /\ IF cfg.auto /\ cfg.perMB = 0 THEN Die
     ELSE /\ quota' = IF cfg.auto THEN AutoMax(cfg) ELSE Merge(cfg.file, cfg.flag)
          /\ pc' = "admin" /\ UNCHANGED <<cfg, admin, srv, pubs>>
  /\ UNCHANGED <<vars, metricVars>>

-----------------------------------------------------------------------------
(* The servers *)

StartAdmin ==
  /\ pc = "admin"
  /\ pc' = "start" /\ admin' = "starting"
  /\ UNCHANGED <<cfg, quota, srv, pubs, vars, metricVars>>

\* It listens, or its port is taken, which is logged.
AdminListens ==
  /\ admin = "starting"
  /\ admin' \in {"up", "failed"}
  /\ UNCHANGED <<cfg, pc, quota, srv, pubs, vars, metricVars>>

\* (Mutant: the pair was only tried, as in validateUDPConfig, and is given back.)
OnlyTried ==
  /\ pc = "start"
  /\ pc' = "wait" /\ srv' = [s \in Callers |-> "starting"]
  /\ IF cfg.udp THEN Release(Pub) ELSE UNCHANGED vars
  /\ UNCHANGED <<cfg, quota, admin, pubs, metricVars>>

StartServers ==
  /\ pc = "start"
  /\ pc' = "wait" /\ srv' = [s \in Callers |-> "starting"]
  /\ UNCHANGED <<cfg, quota, admin, pubs, vars, metricVars>>

SetServer(s, to) == srv' = [srv EXCEPT ![s] = to]

\* With UDP the server has taken the sockets of its pair.
ServerUp(s) ==
  /\ srv[s] = "starting" /\ SetServer(s, "up")
  /\ UNCHANGED <<cfg, pc, quota, admin, pubs, vars, metricVars>>

\* The sockets of a server are closed with it.
CloseSockets(s) == IF cfg.udp THEN ServerClose(s) ELSE UNCHANGED vars

\* Its TCP port is taken: an error that is logged.
ServerFails(s) ==
  /\ srv[s] = "starting" /\ SetServer(s, "failed")
  /\ CloseSockets(s)
  /\ UNCHANGED <<cfg, pc, quota, admin, pubs, metricVars>>

\* (Mutant: the gauge is counted twice.)
TwiceSession(s, d) ==
  /\ pubs' = [pubs EXCEPT ![s] = @ + d]
  /\ Otlp!Count(Active, 2 * d)
  /\ pc' = IF torn' THEN "crashed" ELSE pc
  /\ UNCHANGED <<cfg, quota, admin, srv, vars>>

\* RegisterPublisher, UnregisterPublisher.
Session(s, d) ==
  /\ pubs' = [pubs EXCEPT ![s] = @ + d]
  /\ Otlp!Count(Active, d)
  /\ pc' = IF torn' THEN "crashed" ELSE pc
  /\ UNCHANGED <<cfg, quota, admin, srv, vars>>

\* Either server takes publishers.
Arrive(s) ==
  /\ srv[s] = "up" /\ count < MaxSessions
  /\ quota > 0 => count < quota
  /\ Session(s, 1)

Leave(s) == pubs[s] > 0 /\ Session(s, -1)

-----------------------------------------------------------------------------
(* After the signal *)

Signal ==
  /\ pc = "wait" /\ Goto("stop")
  /\ UNCHANGED <<vars, metricVars>>

\* (Mutant: the admin server is left to the end of the process.)
KeepAdmin ==
  /\ pc = "stop" /\ Goto("close1")
  /\ UNCHANGED <<vars, metricVars>>

StopAdmin ==
  /\ pc = "stop"
  /\ pc' = "close1" /\ admin' = "down"
  /\ UNCHANGED <<cfg, quota, srv, pubs, vars, metricVars>>

\* Server.Close: a server that is up accepts nobody any more ...
CloseServer(s, at) ==
  /\ pc = at /\ srv[s] = "up"
  /\ SetServer(s, "closing")
  /\ UNCHANGED <<cfg, pc, quota, admin, pubs, vars, metricVars>>

\* ... and waits until its sessions have ended.
ServerClosed(s, at, to) ==
  /\ pc = at /\ srv[s] = "closing" /\ pubs[s] = 0
  /\ SetServer(s, "closed") /\ pc' = to
  /\ CloseSockets(s)
  /\ UNCHANGED <<cfg, quota, admin, pubs, metricVars>>

\* (Mutant: a server that could not start is waited for.)
WaitForFailed(s, at, to) ==
  /\ pc = at /\ srv[s] = "starting"
  /\ SetServer(s, "closed") /\ pc' = to
  /\ UNCHANGED <<cfg, quota, admin, pubs, vars, metricVars>>

\* One that is not running has nothing to close, or no function to cancel it
\* yet, which is a panic.
CloseStopped(s, at, to) ==
  /\ pc = at /\ srv[s] \in {"starting", "failed"}
  /\ SetServer(s, "closed")
  /\ pc' \in {to, "crashed"}
  /\ UNCHANGED <<cfg, quota, admin, pubs, vars, metricVars>>

\* allocatorRelease, when there is one.
ReleasePair(h, from, to) ==
  /\ pc = from
  /\ Goto(to)
  /\ IF cfg.udp THEN Release(h) ELSE UNCHANGED vars
  /\ UNCHANGED metricVars

-----------------------------------------------------------------------------

Main ==
  \/ CallReserve(Pub, "reserve1", "scan1") \/ Reserved(Pub, "scan1", "reserve2", "failed")
  \/ CallReserve(Sub, "reserve2", "scan2") \/ Reserved(Sub, "scan2", "otlp", "undo")
  \/ \E h \in Callers : Scan(h)
  \/ Undo
  \/ CallInitOTLP \/ InitOTLPReturns \/ SetQuota
  \/ StartAdmin \/ StartServers
  \/ StopAdmin
  \/ CloseServer(Pub, "close1") \/ ServerClosed(Pub, "close1", "close2")
  \/ CloseStopped(Pub, "close1", "close2")
  \/ CloseServer(Sub, "close2") \/ ServerClosed(Sub, "close2", "release1")
  \/ CloseStopped(Sub, "close2", "release1")
  \/ ReleasePair(Pub, "release1", "release2") \/ ReleasePair(Sub, "release2", "exit")

Metrics == (Otlp!Try \/ Otlp!Retry) /\ UNCHANGED <<vars, mainVars>>

Publishers == \E s \in Callers : Arrive(s) \/ Leave(s)

Servers == AdminListens \/ \E s \in Callers : ServerUp(s) \/ ServerFails(s)

World == \E p \in Ports : Outside(p) /\ UNCHANGED <<mainVars, metricVars>>

\* The process stops when it has ended.
Halt == Ended /\ UNCHANGED allVars

MainNext ==
  \/ ~Ended /\ (Main \/ Metrics \/ Servers \/ Publishers \/ Signal \/ World)
  \/ Halt

MainSpec == MainInit /\ [][MainNext]_allVars

Exporting == ~Ended /\ Otlp!Exporter /\ UNCHANGED <<vars, mainVars>>

\* The goroutines are scheduled, a server that closes ends its sessions, and
\* the collector can be reached again and again.
MainFairness ==
  /\ WF_allVars(~Ended /\ Main)
  /\ WF_allVars(~Ended /\ Metrics)
  /\ \A s \in Callers : WF_allVars(~Ended /\ srv[s] = "closing" /\ Leave(s))
  /\ SF_allVars(Exporting)

FairMainSpec == MainSpec /\ MainFairness

-----------------------------------------------------------------------------
(* Properties *)

MainTypeOK ==
  /\ TypeOK
  /\ cfg \in Configs /\ quota \in Int /\ pubs \in [Callers -> Nat] /\ count <= MaxSessions
  /\ admin \in {"off", "starting", "up", "failed", "down"}
  /\ srv \in [Callers -> {"off", "starting", "up", "failed", "closing", "closed"}]
  /\ prom \in [Otlp!Names -> Int] /\ otlp \in [Otlp!Names -> Int]
  /\ created \in [Otlp!Names -> {"no", "half", "yes", "dud"}]
  /\ attempt \in {"none", "try", "wait", "create", "done"}
  /\ next \in 1..(Len(Order) + 1) /\ faults \in 0..MaxFaults
  /\ torn => pc = "crashed"

\* main.go:206-255 and 345-352: on every way out of main but a panic the ports
\* are free again and the map of the allocator is empty.
ExitReleases ==
  pc \in {"exit", "failed"} =>
    \A p \in Ports : reserved[p] = NoOne /\ sock[p] \notin Callers

\* server.go:72-94: a server that starts finds its sockets in the allocator and
\* bound, so that its own net.ListenPacket is never called.
ServersFindSockets ==
  \A s \in Callers : cfg.udp /\ srv[s] \in {"starting", "up"} =>
    pair[s] # 0 /\ \A p \in {pair[s], pair[s] + 1} : reserved[p] = s /\ sock[p] = s

\* metrics.go:85 "Current number of reserved allocator pairs" and :53 "Number
\* of active publishers": true whenever somebody can ask, although a release
\* does not lower the first.
GaugesWhileServing ==
  admin = "up" => /\ prom[Pairs] = (IF cfg.udp THEN 2 ELSE 0)
                  /\ prom[Pairs] = Cardinality({h \in Callers : pair[h] # 0})
                  /\ ~torn => prom[Active] = count

\* metrics.go:223-232: main waits for the first attempt before it lets anyone
\* in, so when that succeeds the collector is told of every publisher.
PublishersMirrored ==
  ~inBack /\ attempt = "done" => otlp[Active] = prom[Active]

\* The instruments are written while others use them only by the goroutine: an
\* InitOTLP that succeeds at once cannot bring the process down.
TornOnlyInBackground == torn => inBack

\* main.go:281 "fall back to 1 to avoid a 0-sized limit": an automatic quota is
\* never the 0 that means no quota.
AutoQuotaLimits ==
  cfg.auto /\ admin # "off" =>
    /\ quota >= 1 /\ count <= quota
    /\ quota = 1 \/ (quota <= cfg.cpus * cfg.perCPU /\ quota * cfg.perMB <= cfg.memMB)

\* metrics.go:233-252: a collector that can be reached again and again gets
\* the metrics, or the process ends.
ExportBegins == attempt # "none" ~> (attempt = "done" \/ Ended)

\* main.go:338-353: after a signal the process ends.
ShutdownEnds == pc = "stop" ~> Ended
=============================================================================
