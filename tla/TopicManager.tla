---------------------------- MODULE TopicManager ----------------------------
(***************************************************************************)
(* The topic manager of pkg/topic with the RTSP session callbacks of       *)
(* pkg/rtspsrv that drive it.                                              *)
(*                                                                         *)
(* Every RTSP session runs its own callbacks one after the other (the RTSP *)
(* library serialises them); callbacks of different sessions, the grace    *)
(* timers of the topics and the shutdown of the process interleave.  A     *)
(* callback is cut into steps where the code gives up or has not yet taken *)
(* the lock that protects what it touches next:                            *)
(*   Manager.mu   mmu, modelled where one call holds it over several steps *)
(*   Topic.mu     every step that touches a topic is one critical section; *)
(*                Topic.Close takes this lock only, never Manager.mu       *)
(*   handler.mu   the steps on sessTopic and sessIsPub                     *)
(* A refused request (wrong owner, bad name, quota, 404) changes nothing   *)
(* and is a stuttering step.                                               *)
(***************************************************************************)
EXTENDS Integers, FiniteSets

CONSTANTS
  Sessions,       \* RTSP sessions; a value is used again after it closed
  PubPort,        \* the sessions accepted by the publisher listener
  Topics,         \* topic names
  NoSession, NoTopic,
  MaxPublishers, MaxSubscribersPerTopic,
  RePlay          \* may a client PLAY again on a session that already plays?

ASSUME SessionsAssumption == IsFiniteSet(Sessions) /\ PubPort \subseteq Sessions
ASSUME TopicsAssumption == IsFiniteSet(Topics)
ASSUME NilAssumption == NoSession \notin Sessions /\ NoTopic \notin Topics
ASSUME LimitsAssumption == MaxPublishers \in Nat /\ MaxSubscribersPerTopic \in Nat
ASSUME RePlayAssumption == RePlay \in BOOLEAN

VARIABLES
  mmu,               \* writer that holds Manager.mu between two steps
  topics,            \* names with an entry in Manager.topics
  publisherCount,
  publisher,         \* publisher[t]: session registered in topic t
  stream,            \* stream[t]: session whose ServerStream topic t serves
  subscribers,       \* subscribers[t]: keys of the subscriber map of topic t
  closed,
  armed,             \* armed[t]: the grace timer of t is running
  firing,            \* firing[t]: it fired, its goroutine has not run Close
  activePublishers, activeSubscribers,   \* the gauges
  sessTopic, sessIsPub,                  \* the maps of serverHandler
  state,             \* state of the RTSP session
  pc, arg, prev,     \* handler step, its topic, len() read by Unregister
  panicked,          \* a send on a closed channel ended the process
  phase              \* up, then the steps of the shutdown

regVars == <<topics, publisherCount, publisher, stream, activePublishers>>
subVars == <<mmu, subscribers, activeSubscribers>>
timeVars == <<closed, armed, firing>>
mapVars == <<sessTopic, sessIsPub>>
sessVars == <<state, pc, arg, prev>>
procVars == <<panicked, phase>>
vars == <<regVars, subVars, timeVars, mapVars, sessVars, procVars>>

States == {"init", "record", "prePlay", "play"}
Steps == {"idle", "setStream", "mapPub", "send", "add", "inc", "mapSub",
          "unregPub", "unregSub", "remove", "recount"}
Phases == {"up", "closingPub", "closingSub", "down"}

Init ==
  /\ mmu = NoSession
  /\ topics = {}
  /\ publisherCount = 0
  /\ publisher = [t \in Topics |-> NoSession]
  /\ stream = [t \in Topics |-> NoSession]
  /\ subscribers = [t \in Topics |-> {}]
  /\ closed = [t \in Topics |-> FALSE]
  /\ armed = [t \in Topics |-> FALSE]
  /\ firing = [t \in Topics |-> FALSE]
  /\ activePublishers = 0
  /\ activeSubscribers = 0
  /\ sessTopic = [s \in Sessions |-> NoTopic]
  /\ sessIsPub = [s \in Sessions |-> FALSE]
  /\ state = [s \in Sessions |-> "init"]
  /\ pc = [s \in Sessions |-> "idle"]
  /\ arg = [s \in Sessions |-> NoTopic]
  /\ prev = [s \in Sessions |-> 0]
  /\ panicked = FALSE
  /\ phase = "up"

Running == ~panicked /\ phase # "down"

\* Server.Close closes the publisher listener first: the sessions of the
\* other listener are served until it has returned.
Serving(s) ==
  \/ phase = "up"
  \/ phase = "closingPub" /\ s \notin PubPort

Idle(s) == pc[s] = "idle"
Goto(s, step) == pc' = [pc EXCEPT ![s] = step]

\* (Mutant: OnPlay marks the session as a publisher.)
MapSessionAsPub(s, isPub) ==
  /\ sessTopic' = [sessTopic EXCEPT ![s] = arg[s]]
  /\ sessIsPub' = [sessIsPub EXCEPT ![s] = TRUE]

\* The end of OnAnnounce and OnPlay: the session is mapped to its topic.
MapSession(s, isPub) ==
  /\ sessTopic' = [sessTopic EXCEPT ![s] = arg[s]]
  /\ sessIsPub' = [sessIsPub EXCEPT ![s] = isPub]

-----------------------------------------------------------------------------
(* OnAnnounce, OnPacketRTP *)

\* (Mutant: one publisher too many.)
PublisherQuotaOffByOne == MaxPublishers > 0 => publisherCount <= MaxPublishers

\* The quota guard of RegisterPublisher; 0 means unlimited.
PublisherQuota == MaxPublishers > 0 => publisherCount < MaxPublishers

\* (Mutant: a topic is taken only once its stream is set.)
HasPublisherStream(t) == stream[t] # NoSession

HasPublisher(t) == publisher[t] # NoSession

\* (Mutant: the timer of the topic is not stopped.)
SetPublisherKeepTimer(s, t) ==
  /\ publisher' = [publisher EXCEPT ![t] = s]
  /\ UNCHANGED armed

\* SetPublisher stops the grace timer if it is still running; a timer that
\* has fired is not taken back.
SetPublisher(s, t) ==
  /\ publisher' = [publisher EXCEPT ![t] = s]
  /\ armed' = [armed EXCEPT ![t] = FALSE]

\* OnAnnounce up to the return of RegisterPublisher, which holds Manager.mu
\* throughout and does not look at closed.
AnnounceRegister(s, t) ==
  /\ Idle(s) /\ Serving(s) /\ state[s] = "init"
  /\ mmu = NoSession
  /\ PublisherQuota
  /\ ~HasPublisher(t)
  /\ topics' = topics \cup {t}
  /\ SetPublisher(s, t)
  /\ publisherCount' = publisherCount + 1
  /\ activePublishers' = activePublishers + 1
  /\ arg' = [arg EXCEPT ![s] = t]
  /\ Goto(s, "setStream")
  /\ UNCHANGED <<stream, subVars, closed, firing, mapVars, state, prev, procVars>>

\* SetTopicStream
AnnounceSetStream(s) ==
  /\ pc[s] = "setStream"
  /\ mmu = NoSession
  /\ stream' = IF arg[s] \in topics THEN [stream EXCEPT ![arg[s]] = s] ELSE stream
  /\ Goto(s, "mapPub")
  /\ UNCHANGED <<topics, publisherCount, publisher, activePublishers, subVars, timeVars,
                 mapVars, state, arg, prev, procVars>>

\* The rest of OnAnnounce, after which the client records.
AnnounceMap(s) ==
  /\ pc[s] = "mapPub"
  /\ MapSession(s, TRUE)
  /\ state' = [state EXCEPT ![s] = "record"]
  /\ Goto(s, "idle")
  /\ UNCHANGED <<regVars, subVars, timeVars, arg, prev, procVars>>

\* OnPacketRTP up to the point where PublishPacket has found the topic open
\* and has unlocked it; a packet that is dropped before that changes nothing.
OnPacketRTP(s) ==
  /\ Idle(s) /\ state[s] = "record"
  /\ mmu = NoSession
  /\ LET t == sessTopic[s] IN
       /\ t \in topics
       /\ stream[t] # NoSession
       /\ ~closed[t]
       /\ arg' = [arg EXCEPT ![s] = t]
  /\ Goto(s, "send")
  /\ UNCHANGED <<regVars, subVars, timeVars, mapVars, state, prev, procVars>>

\* The sends of PublishPacket, on the channel that was read under the lock.
PublishSend(s) ==
  /\ pc[s] = "send"
  /\ panicked' = closed[arg[s]]
  /\ Goto(s, "idle")
  /\ UNCHANGED <<regVars, subVars, timeVars, mapVars, state, arg, prev, phase>>

-----------------------------------------------------------------------------
(* OnSetup, OnPlay *)

\* OnSetup of a reader, which attaches it to the stream of the topic.
OnSetup(s, t) ==
  /\ Idle(s) /\ Serving(s) /\ state[s] = "init"
  /\ mmu = NoSession
  /\ stream[t] # NoSession
  /\ state' = [state EXCEPT ![s] = "prePlay"]
  /\ arg' = [arg EXCEPT ![s] = t]
  /\ UNCHANGED <<regVars, subVars, timeVars, mapVars, pc, prev, procVars>>

\* The RTSP library holds the first PLAY to the path of the SETUP; it lets a
\* session that plays PLAY again and no longer compares the path.
PlayTopic(s, t) ==
  \/ state[s] = "prePlay" /\ t = arg[s]
  \/ state[s] = "play" /\ RePlay

\* (Mutant: one subscriber too many.)
SubscriberQuotaOffByOne(t) == Cardinality(subscribers[t]) <= MaxSubscribersPerTopic

SubscriberQuota(t) == Cardinality(subscribers[t]) < MaxSubscribersPerTopic

\* RegisterSubscriber: takes Manager.mu and checks the limit.  It reads the
\* size of the map, adds to it and counts the addition in separate critical
\* sections of the topic, so Topic.Close may run between them.
PlayCheck(s, t) ==
  /\ Idle(s) /\ Serving(s)
  /\ PlayTopic(s, t)
  /\ mmu = NoSession
  /\ t \in topics
  /\ SubscriberQuota(t)
  /\ mmu' = s
  /\ arg' = [arg EXCEPT ![s] = t]
  /\ Goto(s, "add")
  /\ UNCHANGED <<regVars, subscribers, activeSubscribers, timeVars, mapVars, state,
                 prev, procVars>>

PlayAdd(s) ==
  /\ pc[s] = "add"
  /\ subscribers' = [subscribers EXCEPT ![arg[s]] = @ \cup {s}]
  /\ Goto(s, "inc")
  /\ UNCHANGED <<regVars, mmu, activeSubscribers, timeVars, mapVars, state, arg, prev,
                 procVars>>

PlayInc(s) ==
  /\ pc[s] = "inc"
  /\ activeSubscribers' = activeSubscribers + 1
  /\ mmu' = NoSession
  /\ Goto(s, "mapSub")
  /\ UNCHANGED <<regVars, subscribers, timeVars, mapVars, state, arg, prev, procVars>>

\* The rest of OnPlay, after which the session plays.
PlayMap(s) ==
  /\ pc[s] = "mapSub"
  /\ MapSession(s, FALSE)
  /\ state' = [state EXCEPT ![s] = "play"]
  /\ Goto(s, "idle")
  /\ UNCHANGED <<regVars, subVars, timeVars, arg, prev, procVars>>

-----------------------------------------------------------------------------
(* OnSessionClose *)

\* The maps are read and cleared; a session that never announced or played
\* is done at once.  A session may end at any time.
CloseLookup(s) ==
  /\ Idle(s) /\ state[s] # "init"
  /\ sessTopic' = [sessTopic EXCEPT ![s] = NoTopic]
  /\ sessIsPub' = [sessIsPub EXCEPT ![s] = FALSE]
  /\ arg' = [arg EXCEPT ![s] = sessTopic[s]]
  /\ IF sessTopic[s] = NoTopic
     THEN state' = [state EXCEPT ![s] = "init"] /\ UNCHANGED pc
     ELSE /\ Goto(s, IF sessIsPub[s] THEN "unregPub" ELSE "unregSub")
          /\ UNCHANGED state
  /\ UNCHANGED <<regVars, subVars, timeVars, prev, procVars>>

\* The session is forgotten by the RTSP library.
SessionEnds(s) ==
  /\ state' = [state EXCEPT ![s] = "init"]
  /\ arg' = [arg EXCEPT ![s] = NoTopic]
  /\ Goto(s, "idle")

\* (Mutants: the stream stays; no grace timer.)
RemovePublisherKeepStream(t) ==
  /\ publisher' = [publisher EXCEPT ![t] = NoSession]
  /\ armed' = [armed EXCEPT ![t] = HasPublisher(t)]
  /\ UNCHANGED stream
RemovePublisherNoTimer(t) ==
  /\ publisher' = [publisher EXCEPT ![t] = NoSession]
  /\ stream' = [stream EXCEPT ![t] = NoSession]
  /\ UNCHANGED armed

\* RemovePublisher: nothing when the topic has no publisher.
RemovePublisher(t) ==
  /\ publisher' = [publisher EXCEPT ![t] = NoSession]
  /\ IF HasPublisher(t)
     THEN /\ stream' = [stream EXCEPT ![t] = NoSession]
          /\ armed' = [armed EXCEPT ![t] = TRUE]
     ELSE UNCHANGED <<stream, armed>>

\* (Mutants: not counted down; counted down by RemovePublisher as well.)
CountKept == publisherCount
CountDownTwice == publisherCount - 2

CountDown == IF publisherCount > 0 THEN publisherCount - 1 ELSE publisherCount

\* UnregisterPublisher, which does not look at who the publisher is.
UnregisterPublisher(s) ==
  /\ pc[s] = "unregPub"
  /\ mmu = NoSession
  /\ IF arg[s] \in topics
     THEN /\ RemovePublisher(arg[s])
          /\ publisherCount' = CountDown
          /\ activePublishers' = activePublishers - 1
     ELSE UNCHANGED <<publisherCount, publisher, stream, activePublishers, armed>>
  /\ SessionEnds(s)
  /\ UNCHANGED <<topics, subVars, closed, firing, mapVars, prev, procVars>>

\* UnregisterSubscriber: size of the map, removal and size again, each on its
\* own although Manager.mu is held throughout.
UnregCount(s) ==
  /\ pc[s] = "unregSub"
  /\ mmu = NoSession
  /\ IF arg[s] \in topics
     THEN /\ mmu' = s
          /\ prev' = [prev EXCEPT ![s] = Cardinality(subscribers[arg[s]])]
          /\ Goto(s, "remove")
          /\ UNCHANGED <<state, arg>>
     ELSE SessionEnds(s) /\ UNCHANGED <<mmu, prev>>
  /\ UNCHANGED <<regVars, subscribers, activeSubscribers, timeVars, mapVars, procVars>>

UnregRemove(s) ==
  /\ pc[s] = "remove"
  /\ subscribers' = [subscribers EXCEPT ![arg[s]] = @ \ {s}]
  /\ Goto(s, "recount")
  /\ UNCHANGED <<regVars, mmu, activeSubscribers, timeVars, mapVars, state, arg, prev,
                 procVars>>

UnregRecount(s) ==
  /\ pc[s] = "recount"
  /\ activeSubscribers' =
       IF Cardinality(subscribers[arg[s]]) < prev[s]
       THEN activeSubscribers - 1 ELSE activeSubscribers
  /\ prev' = [prev EXCEPT ![s] = 0]
  /\ mmu' = NoSession
  /\ SessionEnds(s)
  /\ UNCHANGED <<regVars, subscribers, timeVars, mapVars, procVars>>

-----------------------------------------------------------------------------
(* Grace timer, Topic.Close, shutdown *)

\* The subscriptions of a set of topics.
Attached(T) == {p \in Sessions \X T : p[1] \in subscribers[p[2]]}

\* (Mutant: the gauge is not lowered.)
CloseTopicsKeepGauge(T) ==
  LET open == {t \in T : ~closed[t]} IN
    /\ closed' = [t \in Topics |-> closed[t] \/ t \in open]
    /\ subscribers' = [t \in Topics |-> IF t \in open THEN {} ELSE subscribers[t]]
    /\ UNCHANGED activeSubscribers

\* Topic.Close on every topic of T; a topic closes once and never reopens.
CloseTopics(T) ==
  LET open == {t \in T : ~closed[t]} IN
    /\ closed' = [t \in Topics |-> closed[t] \/ t \in open]
    /\ subscribers' = [t \in Topics |-> IF t \in open THEN {} ELSE subscribers[t]]
    /\ activeSubscribers' = activeSubscribers - Cardinality(Attached(open))

TimerFire(t) ==
  /\ armed[t]
  /\ armed' = [armed EXCEPT ![t] = FALSE]
  /\ firing' = [firing EXCEPT ![t] = TRUE]
  /\ UNCHANGED <<regVars, subVars, closed, mapVars, sessVars, procVars>>

\* The goroutine of the timer.
TopicClose(t) ==
  /\ firing[t]
  /\ firing' = [firing EXCEPT ![t] = FALSE]
  /\ CloseTopics({t})
  /\ UNCHANGED <<regVars, mmu, armed, mapVars, sessVars, procVars>>

\* The signal handler of main, then Server.Close listener by listener; the
\* RTSP library closes the sessions of a listener before its Close returns.
Signal ==
  /\ phase = "up"
  /\ phase' = "closingPub"
  /\ UNCHANGED <<regVars, subVars, timeVars, mapVars, sessVars, panicked>>

AllEnded(S) == \A s \in S : Idle(s) /\ state[s] = "init"

\* (Mutant: the sessions of both listeners are waited for.)
AllListenersAtOnce ==
  /\ phase = "closingPub"
  /\ AllEnded(Sessions)
  /\ phase' = "closingSub"
  /\ UNCHANGED <<regVars, subVars, timeVars, mapVars, sessVars, panicked>>

PubListenerClosed ==
  /\ phase = "closingPub"
  /\ AllEnded(PubPort)
  /\ phase' = "closingSub"
  /\ UNCHANGED <<regVars, subVars, timeVars, mapVars, sessVars, panicked>>

\* (Mutant: main calls Manager.Shutdown without waiting for Server.Close.)
ShutdownEarly ==
  /\ phase = "closingSub"
  /\ mmu = NoSession
  /\ CloseTopics(topics)
  /\ phase' = "down"
  /\ UNCHANGED <<regVars, mmu, armed, firing, mapVars, sessVars, panicked>>

\* Server.Close has returned; Manager.Shutdown closes the topics and main ends.
Shutdown ==
  /\ phase = "closingSub"
  /\ AllEnded(Sessions)
  /\ mmu = NoSession
  /\ CloseTopics(topics)
  /\ phase' = "down"
  /\ UNCHANGED <<regVars, mmu, armed, firing, mapVars, sessVars, panicked>>

-----------------------------------------------------------------------------
Continue(s) ==
  \/ AnnounceSetStream(s) \/ AnnounceMap(s) \/ PublishSend(s)
  \/ PlayAdd(s) \/ PlayInc(s) \/ PlayMap(s)
  \/ UnregisterPublisher(s)
  \/ UnregCount(s) \/ UnregRemove(s) \/ UnregRecount(s)

Start(s) ==
  \/ \E t \in Topics : AnnounceRegister(s, t) \/ OnSetup(s, t) \/ PlayCheck(s, t)
  \/ OnPacketRTP(s)
  \/ CloseLookup(s)

TimerStep(t) == TimerFire(t) \/ TopicClose(t)

ShutdownStep == Signal \/ PubListenerClosed \/ Shutdown

\* The process has ended.
Ended == ~Running /\ UNCHANGED vars

Next ==
  \/ Running /\ \E s \in Sessions : Start(s) \/ Continue(s)
  \/ Running /\ \E t \in Topics : TimerStep(t)
  \/ Running /\ ShutdownStep
  \/ Ended

Spec == Init /\ [][Next]_vars

\* A callback that has begun gets on: its goroutine is scheduled, and the
\* RWMutex hands Manager.mu to a waiting writer however many others want it
\* (strong fairness).  A timer that is neither stopped nor fired fires and
\* its goroutine runs.  A listener that is closing ends its sessions, whose
\* connections it closes, so packets do not put that off for ever (strong
\* fairness again), and a shutdown that has begun goes on.  Clients and
\* signals owe nothing.
Fairness ==
  /\ \A s \in Sessions : SF_vars(Running /\ Continue(s))
  /\ \A t \in Topics : /\ WF_vars(Running /\ TimerFire(t))
                       /\ WF_vars(Running /\ TopicClose(t))
  /\ \A s \in Sessions : SF_vars(Running /\ ~Serving(s) /\ CloseLookup(s))
  /\ WF_vars(Running /\ (PubListenerClosed \/ Shutdown))

FairSpec == Spec /\ Fairness

-----------------------------------------------------------------------------
(* Properties *)

\* Every variable has its type; only the gauge of the subscribers may go
\* below zero (UnregRecount and TopicClose may count one removal twice).
TypeOK ==
  /\ mmu \in Sessions \cup {NoSession}
  /\ topics \subseteq Topics
  /\ publisherCount \in Nat /\ activePublishers \in Int
  /\ publisher \in [Topics -> Sessions \cup {NoSession}]
  /\ stream \in [Topics -> Sessions \cup {NoSession}]
  /\ subscribers \in [Topics -> SUBSET Sessions]
  /\ closed \in [Topics -> BOOLEAN]
  /\ armed \in [Topics -> BOOLEAN] /\ firing \in [Topics -> BOOLEAN]
  /\ activeSubscribers \in Int
  /\ sessTopic \in [Sessions -> Topics \cup {NoTopic}]
  /\ sessIsPub \in [Sessions -> BOOLEAN]
  /\ state \in [Sessions -> States]
  /\ pc \in [Sessions -> Steps]
  /\ arg \in [Sessions -> Topics \cup {NoTopic}]
  /\ prev \in [Sessions -> Nat]
  /\ panicked \in BOOLEAN /\ phase \in Phases

\* The topic a session publishes to in its own eyes: from the moment
\* RegisterPublisher accepted it to the moment UnregisterPublisher ran.
Claim(s) ==
  IF pc[s] \in {"setStream", "mapPub", "unregPub"} THEN arg[s]
  ELSE IF sessIsPub[s] THEN sessTopic[s] ELSE NoTopic

\* OnAnnounce, OnSessionClose and the manager agree on who publishes what in
\* every interleaving: UnregisterPublisher names a topic only, so this is
\* what keeps one session from removing the publisher of another.
PublisherHandshake ==
  \A s \in Sessions, t \in Topics : publisher[t] = s <=> Claim(s) = t

Published == {t \in Topics : publisher[t] # NoSession}

\* publisherCount is kept by hand beside the map and UnregisterPublisher
\* lowers it whatever RemovePublisher did: still the count, the gauge and the
\* publishers of the Status page agree and the quota is never exceeded.
PublisherAccounting ==
  /\ publisherCount = Cardinality(Published)
  /\ activePublishers = publisherCount
  /\ MaxPublishers > 0 => publisherCount <= MaxPublishers

\* DESCRIBE and SETUP never hand out the stream of a publisher that left, and
\* the packets of a recording session go to its own stream: OnPacketRTP finds
\* the stream by topic name, not by session.
StreamOfPublisher ==
  /\ \A t \in Topics : stream[t] # NoSession => publisher[t] = stream[t]
  /\ \A s \in Sessions : Claim(s) # NoTopic /\ pc[s] # "setStream" => stream[Claim(s)] = s

\* Every entry of a subscriber map has a session that will remove it: one in
\* OnPlay past AddSubscriber, one that plays, or one in UnregisterSubscriber.
SubscribersHaveSessions ==
  \A t \in Topics : \A s \in subscribers[t] :
    \/ pc[s] \in {"inc", "mapSub", "unregSub", "remove"} /\ arg[s] = t
    \/ sessTopic[s] = t /\ ~sessIsPub[s]

\* The limit that RegisterSubscriber checks two critical sections before it
\* adds holds whatever runs between them.
SubscriberLimit ==
  \A t \in Topics : Cardinality(subscribers[t]) <= MaxSubscribersPerTopic

ClosedTopics == {t \in Topics : closed[t]}

\* What the hand-kept gauge is worth when nobody is inside the manager: it is
\* below the subscriber maps by at most one for every topic that has closed,
\* since Topic.Close can come once between the two len() of one
\* UnregisterSubscriber, and it is above them only if a session may PLAY again,
\* which RegisterSubscriber counts although AddSubscriber replaces the entry.
GaugeBounds ==
  mmu = NoSession =>
    LET entries == Cardinality(Attached(Topics)) IN
      /\ activeSubscribers >= entries - Cardinality(ClosedTopics)
      /\ ~RePlay => activeSubscribers <= entries

\* The grace timer runs only while a topic is without publisher, and an open
\* topic without publisher always has a timer to close it.
GraceTimer ==
  \A t \in Topics :
    /\ armed[t] => publisher[t] = NoSession
    /\ t \in topics /\ publisher[t] = NoSession /\ ~closed[t] => armed[t] \/ firing[t]

\* When Manager.Shutdown has run nothing is left behind: no publisher, no
\* stream, no subscriber and no open topic.
CleanShutdown ==
  phase = "down" =>
    /\ publisherCount = 0 /\ Published = {}
    /\ \A t \in Topics : stream[t] = NoSession /\ subscribers[t] = {}
    /\ \A t \in topics : closed[t]

\* The publishers seen from outside: PublisherRegistry.
Registry == INSTANCE PublisherRegistry WITH
  holder <- publisher, claim <- [s \in Sessions |-> Claim(s)]

\* Every step of the callbacks is a step of PublisherRegistry or a stutter:
\* a topic goes to a session that publishes nothing, within the quota, and
\* comes back from the session that has it.
RefinesRegistry == Registry!Spec

\* A topic that lost its publisher is closed by its grace timer or gets a
\* publisher again.
AbandonedTopicIsResolved ==
  \A t \in Topics :
    (t \in topics /\ publisher[t] = NoSession) ~>
      (closed[t] \/ publisher[t] # NoSession \/ ~Running)

\* After the signal the process ends: no handler, timer or session keeps
\* Server.Close and Manager.Shutdown waiting for ever.
ShutdownCompletes == (phase # "up") ~> ~Running

-----------------------------------------------------------------------------
(* What the comments, the tests and the docs say of the code and the code  *)
(* does not do: the runs find NoPanic, AnnounceGetsOpenTopic and          *)
(* SubscriberBooks, which joins the others, violated.                      *)

\* topic.go:215 "ensure topic not closed to avoid sending on closed channel":
\* the topic is unlocked between that check and the send, and a grace timer
\* that fired before its topic got a publisher again closes it in between.
NoPanic == ~panicked

\* topic_test.go:48 "topic entry may still exist until grace timer": the entry
\* outlives the timer, and a publisher accepted later gets a closed topic.
AnnounceGetsOpenTopic ==
  [][\A s \in Sessions, t \in Topics : AnnounceRegister(s, t) => ~closed[t]]_vars

\* topic.go:178 "only decrement active subscribers if a subscriber was actually
\* removed": Topic.Close between the two len() removes and counts it first, and
\* the gauge stays below the number of subscribers.
GaugeNotBelow ==
  mmu = NoSession => activeSubscribers >= Cardinality(Attached(Topics))

\* docs/PROMETHEUS.md:50 "number of active subscribers (gauge)": a session that
\* sends PLAY again for the topic it plays is counted again.
GaugeNotAbove ==
  mmu = NoSession => activeSubscribers <= Cardinality(Attached(Topics))

\* The three things that the code says of its subscriber books: these two, and
\* server.go:311 "store mapping to allow cleanup on session close" (a PLAY of
\* another topic overwrites the mapping).  Not even one of them holds: a single
\* behaviour breaks all three.
SubscriberBooks == []SubscribersHaveSessions \/ []GaugeNotBelow \/ []GaugeNotAbove
=============================================================================
