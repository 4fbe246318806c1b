--------------------------- MODULE PacketPipeline ---------------------------
(***************************************************************************)
(* The packet path of one topic in pkg/topic: PublishPacket puts packets   *)
(* into the bounded channel Topic.in, the dispatcher goroutine takes them  *)
(* out and copies each to the bounded queue of every subscriber.  Both     *)
(* make room by taking the oldest packet out, in three separate channel    *)
(* operations (send, else receive, send again) between which the other end *)
(* of the channel works on.                                                *)
(*                                                                         *)
(* Packets are numbered in the order they are published.  A topic has one  *)
(* publisher at a time (TopicManager) and a session delivers its packets   *)
(* one by one, so there is one producer.  Close may come at any time, also *)
(* between the check and the send of PublishPacket: the process then ends  *)
(* with a panic (TopicManager shows how a topic comes to be closed under   *)
(* its publisher).                                                         *)
(*                                                                         *)
(* A packet is counted twice on its way: as received and dispatched by     *)
(* OnPacketRTP, which writes it to the ServerStream, and again as received *)
(* by PublishPacket and as dispatched by the dispatcher.  Each count is a  *)
(* step of its own.                                                        *)
(*                                                                         *)
(* With a PublisherQueueSize of 0 the channel has no buffer: a send that   *)
(* does not wait succeeds only if the dispatcher already waits for it.     *)
(* With a SubscriberQueueSize of 0 no send to a subscriber succeeds, since *)
(* Dequeue does not wait either.                                           *)
(***************************************************************************)
EXTENDS Integers, Sequences, FiniteSets

CONSTANTS
  Subs,         \* subscriber ids
  InCap,        \* PublisherQueueSize
  SubCap,       \* queue size of a subscriber session
  MaxPackets    \* bound on the packets published

ASSUME CapAssumption == InCap \in Nat /\ SubCap \in Nat
ASSUME BoundAssumption == MaxPackets \in Nat

VARIABLES
  n,            \* number of the last packet that PublishPacket found open for
  ppc,          \* step of OnRecord, OnPacketRTP and PublishPacket
  inCh, open,   \* Topic.in, and whether it is still open
  dpc,          \* step of the dispatcher
  pkt,          \* the packet it took last
  todo,         \* subscribers its loop has still to visit
  cur,          \* the one whose queue was full
  subs,         \* Topic.subscribers
  queue,        \* the queues of the subscribers
  dropped,      \* IncPacketsDropped
  received, dispatched,   \* IncPacketsReceived, IncPacketsDispatched
  lost,         \* history: packets that were taken out or given up unread
  gone,         \* history: those of them that the dispatcher never took, and
                \* the packets that PublishPacket refused
  joined,       \* history: last packet fanned out when s subscribed
  got           \* history: last packet s dequeued

pubVars == <<n, ppc>>
chanVars == <<inCh, open>>
dispVars == <<dpc, pkt, todo, cur>>
subVars == <<subs, queue, joined, got>>
flowVars == <<received, dispatched, gone>>
countVars == <<dropped, lost, flowVars>>
vars == <<pubVars, chanVars, dispVars, subVars, countVars>>

Init ==
  /\ n = 0 /\ ppc = "idle"
  /\ inCh = <<>> /\ open = TRUE
  /\ dpc = "recv" /\ pkt = 0 /\ todo = {} /\ cur \in Subs
  /\ subs = {} /\ queue = [s \in Subs |-> <<>>]
  /\ dropped = 0 /\ lost = 0
  /\ received = 0 /\ dispatched = 0 /\ gone = 0
  /\ joined = [s \in Subs |-> 0] /\ got = [s \in Subs |-> 0]

\* (Mutant: one packet more than the channel holds.)
RoomOffByOne(q, cap) == Len(q) <= cap

Room(q, cap) == Len(q) < cap

\* (Mutant: the newest packet overtakes the others.)
PutFirst(q, p) == <<p>> \o q

Put(q, p) == Append(q, p)

\* (Mutant: no room is made.)
EvictNothing(q) == q

\* A receive that does not wait.
Evict(q) == IF q = <<>> THEN q ELSE Tail(q)

-----------------------------------------------------------------------------
(* OnRecord, OnPacketRTP and PublishPacket *)

CountReceived(from, to) ==
  /\ ppc = from /\ ppc' = to
  /\ received' = received + 1
  /\ UNCHANGED <<n, chanVars, dispVars, subVars, dropped, lost, dispatched, gone>>

CountDispatched(from, to) ==
  /\ ppc = from /\ ppc' = to
  /\ dispatched' = dispatched + 1
  /\ UNCHANGED <<n, chanVars, dispVars, subVars, dropped, lost, received, gone>>

\* The bound on what the publisher does.
MayStart == n < MaxPackets /\ received < 2 * MaxPackets

\* RECORD is counted "to validate metrics plumbing".
OnRecord == MayStart /\ CountReceived("idle", "record")

\* (Mutant: RECORD is not counted as dispatched.)
RecordUncounted ==
  /\ ppc = "record" /\ ppc' = "idle"
  /\ UNCHANGED <<n, chanVars, dispVars, subVars, countVars>>

RecordCounted == CountDispatched("record", "idle")

OnPacketRTP == MayStart /\ CountReceived("idle", "write")

\* The packet has been written to the stream.
PacketWritten == CountDispatched("write", "publish")

MarshalFails ==
  /\ ppc = "publish" /\ ppc' = "idle"
  /\ UNCHANGED <<n, chanVars, dispVars, subVars, countVars>>

\* PublishPacket has found the topic, which never leaves the map.
PublishFound == CountReceived("publish", "check")

PublishCheck ==
  /\ ppc = "check" /\ open
  /\ n' = n + 1 /\ ppc' = "send"
  /\ UNCHANGED <<chanVars, dispVars, subVars, countVars>>

PublishRefused ==
  /\ ppc = "check" /\ ~open
  /\ ppc' = "idle" /\ gone' = gone + 1
  /\ UNCHANGED <<n, chanVars, dispVars, subVars, dropped, lost, received, dispatched>>

\* Send to a closed channel.
SendPanics ==
  /\ ppc \in {"send", "resend"} /\ ~open
  /\ ppc' = "panic"
  /\ UNCHANGED <<n, chanVars, dispVars, subVars, countVars>>

\* A send that does not wait: into the buffer or, where there is none, to a
\* dispatcher that waits.
Send ==
  \/ Room(inCh, InCap) /\ inCh' = Put(inCh, n) /\ UNCHANGED dispVars
  \/ /\ InCap = 0 /\ dpc = "recv"
     /\ pkt' = n /\ dpc' = "took"
     /\ UNCHANGED <<inCh, todo, cur>>

PublishSend ==
  /\ ppc = "send" /\ open
  /\ \/ Send /\ ppc' = "idle"
     \/ ~Room(inCh, InCap) /\ ppc' = "evict" /\ UNCHANGED <<inCh, dispVars>>
  /\ UNCHANGED <<n, open, subVars, countVars>>

PublishEvict ==
  /\ ppc = "evict"
  /\ inCh' = Evict(inCh)
  /\ lost' = lost + Len(inCh) - Len(inCh')
  /\ gone' = gone + Len(inCh) - Len(inCh')
  /\ ppc' = "resend"
  /\ UNCHANGED <<n, open, dispVars, subVars, dropped, received, dispatched>>

PublishResend ==
  /\ ppc = "resend" /\ open
  /\ \/ Send /\ UNCHANGED countVars
     \/ /\ ~Room(inCh, InCap)
        /\ dropped' = dropped + 1 /\ lost' = lost + 1 /\ gone' = gone + 1
        /\ UNCHANGED <<inCh, dispVars, received, dispatched>>
  /\ ppc' = "idle"
  /\ UNCHANGED <<n, open, subVars>>

-----------------------------------------------------------------------------
(* dispatcher *)

Receive ==
  /\ dpc = "recv" /\ inCh # <<>>
  /\ pkt' = Head(inCh) /\ inCh' = Tail(inCh)
  /\ dpc' = "took"
  /\ UNCHANGED <<open, pubVars, todo, cur, subVars, countVars>>

CountTaken ==
  /\ dpc = "took" /\ dpc' = "lock"
  /\ dispatched' = dispatched + 1
  /\ UNCHANGED <<chanVars, pubVars, pkt, todo, cur, subVars, dropped, lost, received, gone>>

\* From here to the end of the loop the dispatcher holds t.mu for reading.
RLock ==
  /\ dpc = "lock"
  /\ todo' = subs /\ dpc' = "fan"
  /\ UNCHANGED <<pubVars, chanVars, pkt, cur, subVars, countVars>>

Deliver(s) ==
  /\ queue' = [queue EXCEPT ![s] = Put(@, pkt)]
  /\ todo' = todo \ {s} /\ dpc' = "fan"

\* (Mutants: a full subscriber is skipped; is waited for.)
FanSkip(s) ==
  /\ dpc = "fan" /\ s \in todo
  /\ IF Room(queue[s], SubCap) THEN Deliver(s)
     ELSE todo' = todo \ {s} /\ UNCHANGED <<dpc, queue>>
  /\ UNCHANGED <<pubVars, chanVars, pkt, cur, subs, joined, got, countVars>>
FanWait(s) ==
  /\ dpc = "fan" /\ s \in todo
  /\ Room(queue[s], SubCap) /\ Deliver(s)
  /\ UNCHANGED <<pubVars, chanVars, pkt, cur, subs, joined, got, countVars>>

Fan(s) ==
  /\ dpc = "fan" /\ s \in todo
  /\ IF Room(queue[s], SubCap) THEN Deliver(s) /\ UNCHANGED cur
     ELSE dpc' = "evict" /\ cur' = s /\ UNCHANGED <<todo, queue>>
  /\ UNCHANGED <<pubVars, chanVars, pkt, subs, joined, got, countVars>>

FanEvict ==
  /\ dpc = "evict"
  /\ queue' = [queue EXCEPT ![cur] = Evict(@)]
  /\ lost' = lost + Len(queue[cur]) - Len(queue'[cur])
  /\ dpc' = "resend"
  /\ UNCHANGED <<pubVars, chanVars, pkt, todo, cur, subs, joined, got, dropped, flowVars>>

FanResend ==
  /\ dpc = "resend"
  /\ IF Room(queue[cur], SubCap)
     THEN Deliver(cur) /\ UNCHANGED countVars
     ELSE /\ todo' = todo \ {cur} /\ dpc' = "fan" /\ UNCHANGED queue
          /\ dropped' = dropped + 1 /\ lost' = lost + 1 /\ UNCHANGED flowVars
  /\ UNCHANGED <<pubVars, chanVars, pkt, cur, subs, joined, got>>

RUnlock ==
  /\ dpc = "fan" /\ todo = {}
  /\ dpc' = "recv"
  /\ UNCHANGED <<pubVars, chanVars, pkt, todo, cur, subVars, countVars>>

\* The range loop ends when the channel is closed and empty.
DispatcherEnds ==
  /\ dpc = "recv" /\ inCh = <<>> /\ ~open
  /\ dpc' = "ended"
  /\ UNCHANGED <<pubVars, chanVars, pkt, todo, cur, subVars, countVars>>

-----------------------------------------------------------------------------
(* Subscribers and Close, which need t.mu for writing *)

Unlocked == dpc \in {"recv", "took", "lock", "ended"}

\* The last packet that every subscriber of its time has been given.
Fanned == IF dpc \in {"took", "lock"} THEN pkt - 1 ELSE pkt

\* AddSubscriber of a new SubscriberSession; an entry with this id, from an
\* earlier PLAY of the session, is replaced.  The topic may be closed.
AddSubscriber(s) ==
  /\ Unlocked
  /\ subs' = subs \cup {s}
  /\ queue' = [queue EXCEPT ![s] = <<>>]
  /\ joined' = [joined EXCEPT ![s] = Fanned]
  /\ got' = [got EXCEPT ![s] = 0]
  /\ UNCHANGED <<pubVars, chanVars, dispVars, countVars>>

RemoveSubscriber(s) ==
  /\ Unlocked
  /\ s \in subs
  /\ subs' = subs \ {s}
  /\ queue' = [queue EXCEPT ![s] = <<>>]
  /\ UNCHANGED <<pubVars, chanVars, dispVars, joined, got, countVars>>

Dequeue(s) ==
  /\ s \in subs /\ queue[s] # <<>>
  /\ got' = [got EXCEPT ![s] = Head(queue[s])]
  /\ queue' = [queue EXCEPT ![s] = Tail(@)]
  /\ UNCHANGED <<pubVars, chanVars, dispVars, subs, joined, countVars>>

Close ==
  /\ Unlocked
  /\ open
  /\ open' = FALSE
  /\ subs' = {}
  /\ queue' = [s \in Subs |-> <<>>]
  /\ UNCHANGED <<pubVars, inCh, dispVars, joined, got, countVars>>

\* What the publisher sends.
Publisher == OnRecord \/ OnPacketRTP

\* What its session does with it.
Handler ==
  \/ RecordCounted \/ PacketWritten \/ MarshalFails
  \/ PublishFound \/ PublishCheck \/ PublishRefused
  \/ PublishSend \/ PublishEvict \/ PublishResend \/ SendPanics

Dispatcher ==
  \/ Receive \/ CountTaken \/ RLock \/ RUnlock \/ DispatcherEnds
  \/ \E s \in Subs : Fan(s)
  \/ FanEvict \/ FanResend

\* A panic ends the process.
Alive == ppc # "panic"

Next ==
  \/ Publisher
  \/ Handler
  \/ Alive /\ Dispatcher
  \/ \E s \in Subs : Alive /\ (AddSubscriber(s) \/ RemoveSubscriber(s) \/ Dequeue(s))
  \/ Alive /\ Close

Spec == Init /\ [][Next]_vars

\* The scheduler runs the dispatcher and a callback that has begun.
\* Nobody has to publish, to subscribe or to read.
Fairness == WF_vars(Alive /\ Dispatcher) /\ WF_vars(Handler)

FairSpec == Spec /\ Fairness

-----------------------------------------------------------------------------
(* Properties *)

Increasing(q) == \A i, j \in 1..Len(q) : i < j => q[i] < q[j]

PubSteps ==
  {"idle", "record", "write", "publish", "check", "send", "evict", "resend", "panic"}

\* The queues stay within their capacity.
TypeOK ==
  /\ n \in 0..MaxPackets /\ ppc \in PubSteps
  /\ inCh \in Seq(1..n) /\ Len(inCh) <= InCap
  /\ open \in BOOLEAN
  /\ dpc \in {"recv", "took", "lock", "fan", "evict", "resend", "ended"}
  /\ pkt \in 0..n /\ todo \subseteq subs /\ cur \in Subs
  /\ subs \subseteq Subs
  /\ queue \in [Subs -> Seq(1..n)] /\ \A s \in Subs : Len(queue[s]) <= SubCap
  /\ dropped \in Nat /\ lost \in Nat /\ gone \in Nat
  /\ received \in 0..(2 * MaxPackets + 1) /\ dispatched \in 0..received
  /\ joined \in [Subs -> 0..n] /\ got \in [Subs -> 0..n]

\* Dropping the oldest loses packets and never reorders or repeats one: from
\* the reader back to the publisher every number is greater than those ahead.
InOrder ==
  /\ Increasing(inCh) /\ \A i \in 1..Len(inCh) : inCh[i] > pkt
  /\ \A s \in subs :
       /\ Increasing(queue[s])
       /\ \A i \in 1..Len(queue[s]) : queue[s][i] > got[s] /\ queue[s][i] <= pkt

\* topic.go:228 "drop-oldest to prioritize live": when PublishPacket has returned
\* its packet is in the channel or with the dispatcher, however full the channel
\* was.  (A channel without a buffer cannot do that.)
NewestKept ==
  ppc = "idle" /\ n > 0 => pkt = n \/ (inCh # <<>> /\ inCh[Len(inCh)] = n)

\* What a subscriber was given last.
LastGiven(s) == IF queue[s] = <<>> THEN got[s] ELSE queue[s][Len(queue[s])]

\* topic.go:281 "drop oldest: try to read one then push": no subscriber holds up
\* or misses a fan-out.  When the dispatcher is back at the channel, everyone who
\* was there has the packet, slow readers included.  (With a queue of 0 nobody.)
FanoutComplete ==
  dpc = "recv" => \A s \in subs : joined[s] < pkt => LastGiven(s) = pkt

\* After Topic.Close the dispatcher delivers what is left and its goroutine
\* ends, however slow the subscribers are (or the process has panicked).
DispatcherEnded == ~open ~> (dpc = "ended" \/ ~Alive)

\* A packet is counted as received before it is counted as dispatched, once by
\* OnPacketRTP and once by PublishPacket and the dispatcher: the session, or
\* the dispatcher, is between the two counts.
PubHas == IF ppc \in {"idle", "publish"} THEN 0 ELSE 1
DispHas == IF dpc = "took" THEN 1 ELSE 0

\* Each counter alone counts more than the docs say: a RECORD counts, a packet
\* counts twice, also one that is refused, and "dispatched to subscribers" is
\* counted before the dispatcher looks whether there are any.
\* Their difference is exact: it is the packets still in the channel or between
\* two counts, and those that were evicted, given up or refused.  The channel is
\* drained by the dispatcher and, concurrently, by the drop-oldest branch of
\* PublishPacket.
CountersBalance == received - dispatched = Len(inCh) + gone + PubHas + DispHas

-----------------------------------------------------------------------------
(* What the docs say of the counters and the code does not do.             *)

\* docs/PROMETHEUS.md:51 "total RTP packets accepted from publishers": there are
\* n of them, and one may be on its way to PublishPacket.
ReceivedAccepted == received <= n + 1

\* docs/PROMETHEUS.md:53 "packets dropped due to queue pressure or other
\* reasons": the packets that are taken out to make room are not counted.
DropsCounted == dropped = lost

\* Not even one of the two holds: a single state breaks both.
CountersDocumented == ReceivedAccepted \/ DropsCounted
=============================================================================
