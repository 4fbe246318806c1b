# A TLA+ development of rtsper

rtsper is an RTSP relay: publishers ANNOUNCE and RECORD a topic on one port,
subscribers SETUP and PLAY it on another, and a cluster of nodes divides the
topics by rendezvous hashing. This directory specifies its concurrent core in
TLA+, checks the specifications with TLC on small instances, and proves every safety
property that the passing runs check with TLAPS, for every value of the constants.

    tlc -config ManagerPublishers.cfg MCTopicManager.tla     # and the other cfgs
    tlapm TopicManagerProofs.tla                             # and the other *Proofs.tla

## 1. Inventory of the system

| Part | Source | State | Operations | What makes it correct |
|---|---|---|---|---|
| Topic manager | `pkg/topic/topic.go` | `topics`, `publisherCount`; per topic: publisher, stream, subscriber map, `closed`, grace timer | RegisterPublisher, SetTopicStream, UnregisterPublisher, RegisterSubscriber, UnregisterSubscriber, PublishPacket, Shutdown, Topic.Close | one publisher per topic; counters equal to the maps; limits; nothing is leaked when sessions, timers and shutdown interleave |
| RTSP callbacks | `pkg/rtspsrv/server.go` | `sessTopic`, `sessIsPub` | OnAnnounce, OnRecord, OnPacketRTP, OnDescribe, OnSetup, OnPlay, OnSessionClose; Server.Start and Close | handler maps and manager agree; a session takes back what it registered and nothing else |
| Packet path | `pkg/topic/topic.go` | `Topic.in`, the subscriber queues | PublishPacket, dispatcher, AddSubscriber, RemoveSubscriber, Dequeue, Close | live packets first: bounded, in order, the newest is kept; slow readers hurt nobody |
| Life cycle | `cmd/rtsper/main.go`, Server.Start | where main is; the admin server and the two RTSP servers | reservation, InitOTLP, quota, start of the servers, signal, shutdown order | every way out gives back what was reserved; servers find their sockets; shutdown ends and leaves nothing open |
| Cluster | `pkg/cluster/cluster.go` | node list, draining map of this node | Owner, SetDraining | nodes agree on the owner; draining moves only what it must |
| Proxy listener | `pkg/rtspsrv/proxy_listener.go`, `buffered_conn.go` | connection being peeked; copy goroutines | Accept, Read, the two copies | the client's bytes reach the owner's server once and in order; no forwarding loop; one client does not hold up the others |
| UDP allocator | `pkg/udpalloc/allocator.go` | `reserved` | ReservePair, release, GetConn | a pair has one owner; a release frees its own pair only |
| Configuration | `cmd/rtsper/main.go`, `validate_udp.go` | none | merge of flags and file, UDP validation, auto-sizing | limits that are never 0 by accident |
| Metrics | `pkg/metrics/metrics.go` | gauges, counters, OTLP instruments | Inc and Dec of each, InitOTLP with retry | the gauges show what is there; late instruments hurt nobody; the export begins in the end |
| Admin | `pkg/admin/admin.go` | none | status, cluster, drain | reads, and one call of SetDraining |

**How they interact.** `main` builds the manager, the allocator and the cluster
and starts two RTSP servers (the gortsplib library) with one shared
`serverHandler`. The library calls the handler from one goroutine per session.
The handler calls the manager, which changes topics; each topic owns a dispatcher
goroutine and, when its publisher has left, a timer whose goroutine calls
`Topic.Close`. With a cluster, `proxyListener` peeks the first request of a
connection and either hands it to the local server or copies it to the owner.

**Three locks.** `Manager.mu`, `Topic.mu` and `serverHandler.mu`. No callback
holds two of them for long: OnAnnounce is three separate critical sections,
RegisterSubscriber and UnregisterSubscriber hold `Manager.mu` but touch the topic
in several critical sections of `Topic.mu`, and `Topic.Close`, when called by the
grace timer, takes `Topic.mu` only. This is where the hard interleavings are;
`PROJECT.json` lists them as hazards, each at its line.

## 2. The modules

### PublisherRegistry: what the publisher side promises

The abstract specification: `holder` (the manager's view) and `claim` (the
sessions' view), changed together by `Acquire` and `Release`. At most one
publisher per topic, at most one topic per session, at most `MaxPublishers`
sessions, and only the holder gives a topic back.

### TopicManager: the manager and the callbacks that drive it

| Code | Variables |
|---|---|
| `Manager` | `topics`, `publisherCount`, `mmu` (a call that holds `Manager.mu` over several steps) |
| `Topic` | `publisher`, `stream`, `subscribers`, `closed`, `armed` and `firing` (timer running; timer fired, `Close` still to run) |
| `serverHandler` | `sessTopic`, `sessIsPub` |
| gortsplib session | `state`, and `pc`, `arg`, `prev` for the callback it is in |
| gauges | `activePublishers`, `activeSubscribers` |
| process | `phase` (shutdown), `panicked` |

A callback is cut where it holds no lock on what it touches next:

| Callback | Actions |
|---|---|
| OnAnnounce | `AnnounceRegister` (RegisterPublisher), `AnnounceSetStream` (SetTopicStream), `AnnounceMap` |
| OnPacketRTP | `OnPacketRTP` (lookup, check of `closed`), `PublishSend` |
| OnSetup | `OnSetup` |
| OnPlay | `PlayCheck`, `PlayAdd`, `PlayInc` (RegisterSubscriber), `PlayMap` |
| OnSessionClose | `CloseLookup`, then `UnregisterPublisher`, or `UnregCount`, `UnregRemove`, `UnregRecount` |
| timer | `TimerFire`, `TopicClose` |
| shutdown | `Signal`, `PubListenerClosed`, `Shutdown` |

Refused requests (quota, bad name, 404, wrong owner) change nothing and are
stuttering steps. A session value returns to `init` when its session has closed,
so one value stands for a succession of sessions.

Facts about gortsplib that the model uses (from how `src/` calls it, and from the
version `go.mod` names): callbacks of one session are serialised; ANNOUNCE and
the first SETUP are accepted in the initial state only; the first PLAY must name
the path of the SETUP, while a session that already plays may send PLAY again
and the path is not compared; closing a `ServerStream` disconnects its readers,
which is one of the reasons for which a session may end at any time; a server's
`Close` returns when its sessions have ended.

### PacketPipeline: the packet path of one topic

`inCh` is `Topic.in`, `queue[s]` the queue of a subscriber. Drop-oldest is not
atomic in the code (send, else receive, else send again), so it is three actions
on each side: `PublishSend`, `PublishEvict`, `PublishResend`, and `Fan`,
`FanEvict`, `FanResend`. The dispatcher holds `Topic.mu` for reading from `RLock`
to `RUnlock`; `AddSubscriber`, `RemoveSubscriber` and `Close` need it for writing
and wait (`Unlocked`). `Close` may fall between the check and the send of
PublishPacket; `SendPanics` is then the end of the process. Capacities may be 0
(`--publisher-queue-size 0` and `--subscriber-queue-size 0` are accepted; only negative
sizes are refused, by the Go runtime). A channel without a buffer is never full and never
holds anything: `Send` then hands the packet to a dispatcher that waits at `recv`, which a
dispatcher that has just come back need not do yet, and a queue without a buffer never
takes a packet, because `Dequeue` does not wait. There is one sender, because
PublisherHandshake and StreamOfPublisher hold and a session delivers its packets
one by one. No code of this version calls `Dequeue` (the readers are served by
gortsplib directly and the queues are kept "for potential future use"), so
`Dequeue` may happen at any time or never. `joined`, `got`, `lost` and `gone` are
history variables that no guard reads.

`received` and `dispatched` are the two counters of packets, and every count is a step of
its own: OnPacketRTP counts a packet as received (`OnPacketRTP`), writes it to the stream
and counts it as dispatched (`PacketWritten`), PublishPacket counts it as received again
(`PublishFound`) and the dispatcher as dispatched again (`CountTaken`, after `Receive`).
RECORD adds one to each (`OnRecord`, `RecordCounted`). A packet that cannot be marshalled
(`MarshalFails`) ends between the two pairs of counts. PublishPacket always finds its
topic, since nothing leaves `Manager.topics`.

### OwnerRouting: the cluster and its proxy listeners

| Code | Variables and actions |
|---|---|
| `Cluster.draining` of each process | `draining[n]`: the view of node n; `Drain` (DrainHandler), `Restart` (a new process knows of no draining node) |
| `Cluster.Owner` | `Owner(view, t)`: the candidate with the highest score, the first in the list among equals, `NoNode` for the empty name |
| `proxyListener.Accept` | `Accept` (one connection at a time per listener), `Peeked`, `PeekTimeout`, `Dialled`, `DialFails` |
| owner check of OnAnnounce and OnSetup | `Request`, again for every request of the session |
| the two copy goroutines | `via[c]`: the nodes a connection is copied through; `Disconnect` takes down the whole chain |

The hash is a constant function `Score`; the tie-break of the loop (`score >
bestScore`) is `Better`. The three places that compute the owner do so at different
times, and at different nodes, so each can see another view. `steady` is a history
variable: the views were equal when the client connected and have not changed. The
first request of a client is taken to name the path that it announces or sets up.
The draining map is read and written without a lock: a reader sees one view or the
other, or the Go runtime ends the process, which is one of the `Restart`s.

### ProxyConn: the bytes of one connection

| Code | Variables and actions |
|---|---|
| the client | `sent`: the pieces it wrote, known by their place; `Write`, `ClientReads`, `ClientEnds` |
| `bufio.Reader` of the peek | `rbuf`; `PeekFill` takes any number of the pieces that have arrived |
| `buf` | `PeekLine` (up to a newline; blank line or limit end the peek), `PeekStops` (deadline, or the client's end) |
| hand-over | `HandOver("local")`: buf goes into `bufferedConn`; `HandOver("fwd")`: buf is written to the owner; `lost` keeps what the reader held; `DialFails` answers 503 |
| `bufferedConn.Read` | `LocalRead` |
| copy goroutines | `CopyUp`, `CopyDown`; `CopyEnds` when either is done (`UpDone`, `DownDone`), which closes both connections and cuts what is on the way down |
| the server's side | `LocalEnds`; `ServerEnds`: it closes, or, when it closes with something unread, TCP resets the connection and what was on the way may be gone (`sEnd`) |

Pieces are lines, last lines of a header block, and fragments without a newline: all
that the peek tells apart. Which node owns the topic, and so whether a connection is
kept or forwarded, is open here; OwnerRouting decides it.

### UdpAllocator: RTP/RTCP port pairs

| Code | Variables and actions |
|---|---|
| `Allocator.reserved`, `mu` | `reserved[p]` (whose connection), `mu` (who is in ReservePair) |
| the scan of ReservePair | `cur`, `half`; `Reserve`, `BindRTP`, `BindRTCP`, `NextPair` |
| the release function | `Release`; `pair[h]` is the port it has captured |
| GetConn, then the server's Close | `ServerClose`: the sockets are closed, the map keeps them until release |
| the host | `sock`; `Outside` takes and frees ports, also between the two binds |

The callers are open here; in Startup they are main for its two servers. A caller
calls its release function once, as `main` does. The range is inclusive for base ports;
the RTCP port of the last pair may be `End + 1`.

### OtlpMetrics: instruments that appear late

Every gauge has a Prometheus form, there from the start (`prom`), and an OTLP
instrument that InitOTLP creates (`created`, `otlp`). `Count` is any of the Inc, Dec
and Add helpers. `InitOTLP`, `Unreachable`, `Exporter`, `Create`, `CreateFails`,
`Created` and `Retry` are the attempts, the first for the caller, the others in a
goroutine (`inBack`) that begins again with the first instrument. An instrument is an
interface variable of two words that is written while other goroutines test and use
it: `created[i] = "half"` is the state between the words, and who counts in it panics
(`torn`). The context given to InitOTLP is never cancelled, so the goroutine never
stops for it; InitOTLP never returns an error.

### Startup: the process

Startup EXTENDS UdpAllocator and INSTANCEs OtlpMetrics; its actions call theirs.

| Code | Variables and actions |
|---|---|
| place in `main` | `pc`; `exit` and `failed` are `return` and `os.Exit`, `crashed` a panic |
| two ReservePair | `CallReserve`, `Scan` (which counts the pair), `Reserved`, `Undo` (`rel1()` when the second fails) |
| InitOTLP | `CallInitOTLP`, `InitOTLPReturns` |
| merge, auto-sizing, NewManager | `SetQuota` with `Merge` and `AutoMax`; `quota` |
| admin server | `StartAdmin`, `AdminListens`, `StopAdmin` |
| Server.Start, Server.Close | `StartServers`, `ServerUp`, `ServerFails` (only logged), `CloseServer`, `ServerClosed`, `CloseStopped` |
| publishers | `pubs[s]`; `Arrive`, `Leave` on either server, which share manager and handler (`count`): the count and the gauge, without topics (TopicManager has those) |
| the release functions | `ReleasePair`, once for each pair, after the servers |

The UDP ports that flags or file name never survive: with UDP on there always is an
allocator, its pairs replace them, and `validateUDPConfig` is never called. A server
that is closed before its Start has run may find no function to cancel in the library
and panic; `CloseStopped` leaves both open.

## 3. Runs

| Run | Instance | States | What it shows |
|---|---|---|---|
| `manager_publishers` | 2 publishing sessions, 1 subscribing, 2 topics, quota 1, `RePlay = TRUE` | 1 297 000 (symmetry) | TypeOK, PublisherHandshake, PublisherAccounting, StreamOfPublisher, RefinesRegistry |
| `manager_subscribers` | 1 + 2 sessions, 1 topic, limit 1, no quota | 15 000 | SubscribersHaveSessions, SubscriberLimit, GaugeBounds, GraceTimer, CleanShutdown, AbandonedTopicIsResolved, ShutdownCompletes |
| `pipeline` | 2 subscribers, capacities 2, 4 packets | 577 000 | TypeOK, InOrder, NewestKept, FanoutComplete, CountersBalance, DispatcherEnded |
| `routing` | 3 nodes, 1 topic, 2 connections of one listener, 3 drain calls or restarts | 377 000 | TypeOK, SteadyOneHop, ReadersMeetPublisher, DrainMovesOnlyOwn, SettlesWhenAgreed |
| `proxy_conn` | 5 pieces, peek limit 3, a window of 1 answer | 233 000 | TypeOK, OneGap, HeadersKept, ClientEndPropagates, ServerEndPropagates |
| `startup` | range 3 to 6 (pairs 4 and 6), 7 configurations, 2 instruments, 1 that fails, 2 publishers | 159 000 | MainTypeOK, HoldersHaveTheirPair, NoSocketLeak, ExitReleases, ServersFindSockets, GaugesWhileServing, PublishersMirrored, TornOnlyInBackground, AutoQuotaLimits, ExportBegins, ShutdownEnds |
| `manager_panic` | | | **violated**: NoPanic |
| `manager_reannounce` | | | **violated**: AnnounceGetsOpenTopic |
| `manager_books` | 1 + 1 sessions, 2 topics, limit 2, `RePlay = TRUE` | | **violated**: SubscriberBooks |
| `pipeline_counters` | as `pipeline` | | **violated**: CountersDocumented |
| `routing_loop` | 2 nodes, 1 connection, 1 drain call | | **violated**: Settles |
| `proxy_bytes` | 4 pieces | | **violated**: ReplayComplete |

Each property of a passing run was also tried against a definition with a plausible
mistake in it, which TLC must find: these are the operators whose comment says
"Mutant" (`PROJECT.json`, "mutants"), and no action uses them.

**Why the bounds are enough.** The races of the manager are between two callbacks
and a timer, or two callbacks and the shutdown. In
`manager_publishers` three sessions (the code does not keep a session of the
subscriber port from announcing) compete for a quota of 1; two topics let a session
return to another topic than the one it left, and a session that plays to PLAY either
topic again. `manager_subscribers` has no quota and one place for two subscribers
of one topic, small enough for the liveness properties; its clients PLAY once, since a
second PLAY breaks SubscribersHaveSessions and the upper bound of the gauge
(`manager_books`). That two sessions announce one
topic at once, and larger limits, are left to the proofs, which cover every number of
sessions (section 4).
Sessions are reused, so sequences of sessions are not bounded. In the
pipeline, four packets overflow the channel and a queue of two in one execution,
with one packet in the dispatcher's hands; `MaxPackets` bounds the packets, and with them (`MayStart`) the
RECORD requests and the packets that cannot be marshalled. Queues of size 0, and with them the second
branch of `Send` and the drop in `PublishResend`, are in the proofs (any capacity) and not
in this run. For the routing, three drain calls tell all three nodes that one of them drains (views
that agree and are not empty) or one node that all drain; in the score two nodes tie,
so the place in the list decides; two connections share a listener at every node.
The two listeners of a node do not interact. For the proxy, five pieces are
a request, the beginning of the next and a fragment in any mixture, and with a limit of
3 a header block can exceed it; one answer in the socket makes the copy to the client
wait. For the process, two pairs for two reservations in a range with an odd start make
every outcome happen: both, one and none can be had (range 3 to 8 passes as well, in
four minutes); the configurations are UDP and OTLP with a quota from the file, OTLP
without quota, automatic quotas set by the processors, by the memory and by the floor of
1 (a negative size, too, for which Go's division matters), and a size of 0. The first and the last instrument stand for the nine.
Symmetry is used for interchangeable sessions and topics,
never in a run with a liveness property. `manager_publishers`,
`manager_subscribers` and `startup` check for deadlock: when the process has ended it
stutters explicitly (`Ended`, `Halt`). The pipeline stops when the packets are used up or the
channel is closed and the dispatcher has ended, so its runs do not.

**Fairness.** A callback that has begun goes on: goroutines are scheduled, and a
Go RWMutex lets a waiting writer in before later readers and in turn, so a handler
that waits for `Manager.mu` gets it although others take it again and again;
strong fairness of `Continue(s)` says that. A timer that runs fires, and its
goroutine gets to `Topic.Close` (weak: nothing disables them for a time). A
listener that is closing closes the connections of its sessions; a session may be
inside a packet callback whenever that is tried, so strong fairness of
`CloseLookup` while the session is no longer served. Nobody has to announce, play,
send packets, leave or send the signal. In the pipeline the dispatcher, and a
callback of the publisher's session that has begun (`Handler`), are weakly fair; nobody
has to publish and readers owe nothing. In the routing the
deadline of the peek (2 s) and the timeout of the dial end those steps (weak), and a
connection in the backlog of a listener is accepted in its turn although others keep
the loop busy (strong). Whether a dial succeeds is open. In ProxyConn only the copy
goroutines are fair (weak): a client need not write, read or close, and
ServerEndPropagates says what its reading is needed for. In Startup main and the
goroutine of InitOTLP go on (weak; binds do not block), each server that closes ends its
own sessions (weak), and the collector is reached again and again (strong fairness of
`Exporter`: ExportBegins is about a collector that comes back, and instruments fail a
bounded number of times). Nobody has to send the signal, and a server need not come up.

**What the violated runs say of the code.**

* `manager_panic`: the publisher leaves, the timer fires, the publisher returns
  (`SetPublisher` stops the timer too late and ignores that), PublishPacket finds
  the topic open, the timer's `Close` closes the channel, and the send panics.
* `manager_reannounce`: the closed topic stays in the map; whoever announces it
  later is accepted and all packets are refused by PublishPacket. (Readers served
  directly through the stream still get them.)
* `manager_books`: the property is a disjunction, so the one behaviour that TLC finds
  refutes each of its three parts. A second PLAY on another topic overwrites
  `sessTopic`; the first entry is never removed and uses up a place
  (SubscribersHaveSessions). A second PLAY of the same topic replaces the entry and
  raises the gauge; the session's end lowers it once, so it stays too high
  (GaugeNotAbove). `Topic.Close`, which does not take `Manager.mu`, between the two `len`
  of UnregisterSubscriber counts the same subscriber twice; the gauge stays one too low
  for good (GaugeNotBelow). GaugeBounds is what does hold: the last happens once at most
  for a topic, since a topic closes once.
* `pipeline_counters`: again a disjunction, refuted in one state. Evicted packets are not
  counted as dropped (DropsCounted): the counter rises only if the second send fails too,
  which with queues of 1 or more one sender never makes happen. And a packet is counted as
  received by OnPacketRTP and by PublishPacket (ReceivedAccepted): 6 for 3 packets. In the
  same state 3 are counted as dispatched to subscribers, and there is none. What these two
  counters are good for is their difference (CountersBalance).
* `routing_loop`: one call of `/cluster/drain` tells one node that it drains itself.
  It forwards its topics to the next node, for which it is still the owner, and gets
  them back. Every turn opens another connection; no header or limit ends it.
  SettlesWhenAgreed is what does hold: it ends when the views agree.
* `proxy_bytes`: a request with a body, or two requests, that arrive together: the
  reader takes them all, the peek copies the lines up to the blank line, and the rest
  is dropped with the reader. It happens to clients that wait for every answer too, when
  the body of an ANNOUNCE comes with its headers. The same happens to a line that the
  deadline cuts. OneGap says that this is all that is ever lost, and HeadersKept that of
  headers that end below the limit no whole line is among it.

**What else the models say of the code.** Five more places where the code does not do what a
comment or a doc says are modelled as the code has them, and no property depends on the
comment:

* With `--publisher-queue-size 0` drop-oldest has nothing to drop: a packet that meets a
  busy dispatcher is given up although it is the newest (topic.go:228 "drop-oldest to
  prioritize live"). With `--subscriber-queue-size 0` no fan-out reaches anybody
  (topic.go:281). NewestKeptCorrect and FanoutCorrect assume a buffer, the other
  theorems about the pipeline do not.
* The dispatcher counts a packet as dispatched whether or not anyone subscribes
  (PROMETHEUS.md:52 "dispatched to subscribers"; `CountTaken`).
* With an even end of the range the last pair ends one port beyond it (allocator.go:22 "for
  the inclusive port range [start,end]"; `Ports`).
* The RTSP library closes the connections that the allocator lent to a server, and the
  allocator's map has them until main calls release (allocator.go:79 "must NOT be closed by
  the caller"; `ServerClose`). NoSocketLeak and HoldersHaveTheirPair say why this does no
  harm: release closes a closed connection, not the socket of whoever has bound the port
  since.
* main reserves the pairs before InitOTLP creates the instruments, so the collector is
  never told of them (metrics.go:50 "Prometheus metrics mirroring the OTLP instruments").
  PublishersMirrored is what does hold: publishers come later.

After a late start of
the export its gauge of publishers misses those that were there and can become
negative; while the instruments appear late a publisher that comes or goes in the
wrong moment can end the process (`torn`; TornOnlyInBackground: never when the first
attempt succeeds). Nobody lowers the gauge of reserved pairs: it is true as long as
somebody can read it only because the admin server is stopped before the release
(GaugesWhileServing). `--publisher-mb 0` with automatic quota ends in a division by zero
(`SetQuota`). `--proxy-io-timeout` is stored and never used, so an owner's end reaches a
client that does not read only when the client does (ServerEndPropagates).

## 4. Proofs

`TopicManagerProofs.tla` proves, for any finite sets of sessions and topics and
any limits (the ASSUMEs of TopicManager):

| Theorem | Statement |
|---|---|
| TypeCorrect | `Spec => []TypeOK` |
| HandshakeCorrect | `Spec => []PublisherHandshake` |
| AccountingCorrect | `Spec => []PublisherAccounting` |
| StreamCorrect | `Spec => []StreamOfPublisher` |
| Refinement | `Spec => RefinesRegistry` |
| GraceTimerCorrect | `Spec => []GraceTimer` |
| LimitCorrect | `Spec => []SubscriberLimit` |
| SubscribersCorrect | with `RePlay = FALSE`: `Spec => []SubscribersHaveSessions` |
| GaugeCorrect | `Spec => []GaugeBounds`, for either value of `RePlay` |
| ShutdownCorrect | with `RePlay = FALSE`: `Spec => []CleanShutdown` |

The argument goes in layers; each is inductive given those before it.

1. `Typing` = TypeOK and `SessionOK`. TypeOK alone is not inductive: that
   `publisher` stays well typed needs that a session in a callback has a topic as
   `arg`, and SessionOK ties the step of a callback to the RTSP state, to the
   handler maps and to `arg`.
2. `PublisherHandshake` given `Typing`. By `PublisherSteps` only
   `AnnounceRegister` and `UnregisterPublisher` touch publishers, claims or
   counters. UnregisterPublisher names a topic, not a session: it is safe because
   the session that calls it still claims the topic, which the invariant says.
3. `PublisherAccounting` given the handshake: the count falls exactly when a topic
   loses its publisher, so the guard `publisherCount > 0` in the code never matters.
4. `StreamOfPublisher`, and the refinement of PublisherRegistry: `AnnounceRegister`
   is `Acquire`, `UnregisterPublisher` is `Release` (this needs the handshake for
   `holder[t] = s` and the accounting for the quota), all else stutters.
5. `GraceTimer` given `Typing`.
6. `LimitOK`: SubscriberLimit is strengthened by mutual exclusion on `Manager.mu`
   and by "the place found in `PlayCheck` is still free in `PlayAdd`".
7. `SubscribersOK`: SubscribersHaveSessions with "only a session in `prePlay` is in
   OnPlay", which is where `RePlay = FALSE` is used.
8. `FloorOK` and, with `RePlay = FALSE`, `SubscriberGaugeOK`: GaugeBounds says nothing
   while a session holds `Manager.mu`; these say what holds then. The gauge is one behind
   before `PlayInc`; before `UnregRecount` it may be one ahead, but only if the second
   `len` will be below the first. `Topic.Close` takes the same number from the gauge and
   from the maps (`GaugeClose`) and, by closing a topic, lowers the floor by one, which is
   what a count in `UnregRecount` for a subscriber that Close removed then uses up. An
   addition is a new entry because of layer 7; without it the gauge only rises.
9. `CleanShutdown`: `Shutdown` needs all sessions ended; then handshake, stream and
   subscriber layers leave nothing registered, and `CloseTopics` closes the rest.

`PacketPipelineProofs.tla` proves, for any set of subscribers, any capacities, 0 included
(`CapAssumption`), and any number of packets (`BoundAssumption`: the bound of TLC is an
arbitrary number here):

| Theorem | Statement |
|---|---|
| PipelineTypes | `Spec => []TypeOK`, the capacities included |
| CountersCorrect | `Spec => []CountersBalance` |
| NewestKeptCorrect | with `InCap > 0`: `Spec => []NewestKept` |
| InOrderCorrect | `Spec => []InOrder` |
| FanoutCorrect | with `SubCap > 0`: `Spec => []FanoutComplete` |

`FlowOK` joins TypeOK, CountersBalance and `LoopOK`. LoopOK has what the capacities
need: at the second send there is room, because nobody else sends (if there can be room
at all), and what the balance needs of the places between two counts. `ChannelOK` adds that
`Topic.in` is in order, newer than the dispatcher's packet and older than the one that
PublishPacket holds. `SubOrder` says the same of a subscriber's queue at every place of
the dispatcher's loop (`Held`, and `Ahead` for those that it has still to visit), and
`FanoutOK` that those it has visited have the packet. `PutOK`, `TakeOK` and `EvictOK`
are the facts about queues that all of them use.

`OwnerRoutingProofs.tla` proves, for any nodes and connections, any list of members (also
with repetitions) and any scores:

| Theorem | Statement |
|---|---|
| RoutingTypes | `Spec => []TypeOK` |
| DrainCorrect | `Spec => DrainMovesOnlyOwn` |
| SteadyOneHopCorrect | `Spec => []SteadyOneHop` |
| ReadersMeetCorrect | `Spec => []ReadersMeetPublisher` |

The loop of `Cluster.Owner` is right because `Better` is a strict total order of the
places of the list (`BetterOrder`), so a candidate exists that is better than the others
(`BestExists`, by the well-foundedness of strict inclusion on finite sets) and there is
one only (`BestUnique`). It stays the best when another node leaves (`OwnerMoves`, read
backwards for a node that comes back), which is DrainMovesOnlyOwn. `SteadyOK` follows a
connection while the views rest: what a listener dials is the owner, at another node,
and the owner's listener and handlers do not send it on.

`ProxyConnProofs.tla` proves, for any limit of the peek, window and number of pieces:

| Theorem | Statement |
|---|---|
| ConnTypes | `Spec => []TypeOK` |
| OneGapCorrect | `Spec => []OneGap` |
| HeadersCorrect | `Spec => []HeadersKept` |

TypeOK needs `PhaseOK`: no answers before the hand-over, so the 503 of a failed dial
fits into the window, and an empty reader after it. `StreamOK` is OneGap place by place
(`GapAt`): which piece each place of `srv`, `buf`, `lost` and the reader holds; every
step that reads appends the next pieces to one of them, and `GapWhole` turns this into
the equation of OneGap. `HeadersOK` has the reason for HeadersKept: when the peek ends
below its limit either there is no whole line in the reader, or the last piece of `buf`
ends a request, and by StreamOK all that the reader holds comes after it.

`UdpAllocatorProofs.tla` proves, for any callers and any range with an even port
(`RangeAssumption`, `CallersAssumption`):

| Theorem | Statement |
|---|---|
| AllocatorInvariant | `Spec => []AllocInv` |
| HoldersCorrect | `Spec => []HoldersHaveTheirPair` |
| LeakFree | `Spec => []NoSocketLeak` |

`AllocInv` is TypeOK, the two properties and `ScanOK`, without which they are not
inductive: a scan belongs to a caller without a pair, and between its two binds has RTP
bound and not in the map. That the second port is not in the map either is no guard of
the code; it follows because base ports are even, so that pairs do not overlap
(`BasePairs`).

`StartupProofs.tla` proves, for any configurations, any range, any list of instruments
that has the two gauges (`OrderAssumption`) and any bounds:

| Theorem | Statement |
|---|---|
| UsesAllocator | `MainSpec => Spec`: main is a caller as UdpAllocator describes them |
| MainInvariant | `MainSpec => []MainInv` |
| ExitCorrect | `MainSpec => []ExitReleases` |
| SocketsFound | `MainSpec => []ServersFindSockets` |
| StartupTypes | `MainSpec => []MainTypeOK` |
| GaugesCorrect | `MainSpec => []GaugesWhileServing` |
| MirroredCorrect | `MainSpec => []PublishersMirrored` |
| TornCorrect | `MainSpec => []TornOnlyInBackground` |
| AutoQuotaCorrect | `MainSpec => []AutoQuotaLimits` |

By UsesAllocator the invariant of the allocator holds of the process; `PairsOK` and
`ServersOK` add what each place of main says of pairs and servers.

`ServeOK` is the invariant of the last five: `ExportOK` (an attempt of main's own is over
when main goes on, and has created every instrument in its order), `CountOK` (the gauge
of publishers, here and at the collector), `GaugeOK` (the gauge of pairs at every place
of main; while the admin server can be asked nothing is released) and `QuotaOK`.

**Only model-checked**: the liveness properties (AbandonedTopicIsResolved,
ShutdownCompletes, DispatcherEnded, SettlesWhenAgreed, ExportBegins, ShutdownEnds,
ClientEndPropagates, ServerEndPropagates), which need fairness and so are outside the
prover's reach. Every invariant, action property and refinement of a passing run is
proved.

## 5. Not modelled, and why

* Contents of packets, SDP, logging, wording of replies: no property depends on them.
* Totals that nothing else is related to: registered publishers and subscribers,
  reservations, forwarded connections and bytes.
* Reading flags, environment, file and `/proc/meminfo`; an exit before the first
  reservation leaves nothing behind. The merge of the other settings follows the rule of
  `Merge`. (The comment at main.go:171 lets flags override the file; the code takes a
  flag only where the file has 0.)
* `validateUDPConfig`, which main never reaches.
* A signal before `signal.Notify`, which ends the process without a shutdown, and a
  server whose Start runs after it was closed.
* A reset that the client's own socket receives after a close, and with it answers that
  lie in that socket: ProxyConn ends there.
* OnDescribe, OnConn* and the status and cluster handlers change no state.
* Contexts and cancel functions of the session structs: nothing waits on them.
* Parsing of the request line and of the cluster list; the hash function.
* Load test, disabled experiments, deployment files: not part of the program.

## 6. Plan

Done: PublisherRegistry, TopicManager, PacketPipeline, OwnerRouting, UdpAllocator,
ProxyConn, OtlpMetrics, Startup, and a module of proofs for each but the first and
OtlpMetrics, which are proved about through TopicManager and Startup. What is left of the
program changes no state that a property could be about.

Next:

1. The safety half of the liveness properties, as invariants that say why a step is
   always left: a session that waits for `Manager.mu` has a holder that can go on; a
   shutdown that has begun has a session, a server or main to move.
2. That Startup implements an abstract specification of the process as TopicManager
   sees it (phases and publisher count), so that the two agree on the shutdown.
