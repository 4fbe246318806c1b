------------------------- MODULE TopicManagerProofs -------------------------
(***************************************************************************)
(* Proofs about TopicManager, for every number of sessions and topics and  *)
(* every value of the limits.                                              *)
(*                                                                         *)
(* The argument goes in layers, each an inductive invariant that may use   *)
(* the layers below it:                                                    *)
(*   Typing        TypeOK and SessionOK: what a step of a callback says of *)
(*                 the session it belongs to                               *)
(*   Handshake     PublisherHandshake: who publishes what                  *)
(*   Accounting    publisherCount, the gauge and the quota                 *)
(*   Stream        the stream of a topic is its publisher's                *)
(*   Refinement    of PublisherRegistry                                    *)
(*   Grace timer   an open topic without publisher has a timer             *)
(*   LimitOK       the place that PlayCheck found is still there at the    *)
(*                 addition, because the session holds Manager.mu          *)
(*   SubscribersOK every entry of a subscriber map has its session         *)
(*   SubscriberGaugeOK, FloorOK  how far above and below the maps the      *)
(*                 gauge of the subscribers may be while a session holds   *)
(*                 Manager.mu                                              *)
(*   Shutdown      what the last step of the process leaves behind         *)
(* SubscribersOK, SubscriberGaugeOK and Shutdown are about clients that do *)
(* not PLAY twice on a session (RePlay = FALSE): with RePlay = TRUE they   *)
(* are false.                                                              *)
(***************************************************************************)
EXTENDS TopicManager, FiniteSetTheorems, TLAPS

\* What the position of a session in its callbacks says of its RTSP state, of
\* the maps of serverHandler and of the topic it works on.
SessionOK ==
  \A s \in Sessions :
    /\ sessTopic[s] # NoTopic <=>
         pc[s] \in {"idle", "send", "add", "inc", "mapSub"} /\ state[s] \in {"record", "play"}
    /\ sessIsPub[s] <=> state[s] = "record" /\ pc[s] # "unregPub"
    /\ pc[s] \in {"setStream", "mapPub"} => state[s] = "init"
    /\ pc[s] \in {"send", "unregPub"} => state[s] = "record"
    /\ pc[s] \in {"add", "inc", "mapSub"} => state[s] \in {"prePlay", "play"}
    /\ pc[s] \in {"unregSub", "remove", "recount"} => state[s] = "play"
    /\ pc[s] # "idle" => arg[s] \in topics
    /\ sessTopic[s] # NoTopic => sessTopic[s] \in topics

Typing == TypeOK /\ SessionOK

-----------------------------------------------------------------------------
(* Facts about finite sets *)

\* The subscriptions of a set of topics can be counted.
LEMMA AttachedCard ==
  ASSUME TypeOK, NEW T \in SUBSET Topics
  PROVE  Cardinality(Attached(T)) \in Nat
<1>1. IsFiniteSet(T)
  BY TopicsAssumption, FS_Subset
<1>2. IsFiniteSet(Sessions \X T)
  BY <1>1, SessionsAssumption, FS_Product
<1>3. Attached(T) \subseteq Sessions \X T
  BY DEF Attached
<1>4. IsFiniteSet(Attached(T))
  BY <1>2, <1>3, FS_Subset
<1> QED  BY <1>4, FS_CardinalityType

\* The subscribers of a topic can be counted.
LEMMA SubscribersCard ==
  ASSUME TypeOK, NEW t \in Topics
  PROVE  IsFiniteSet(subscribers[t]) /\ Cardinality(subscribers[t]) \in Nat
<1>1. subscribers[t] \subseteq Sessions
  BY DEF TypeOK
<1>2. IsFiniteSet(subscribers[t])
  BY <1>1, SessionsAssumption, FS_Subset
<1> QED  BY <1>2, FS_CardinalityType

\* Adding an element makes a finite set at most one larger, removing one
\* never larger.
LEMMA AddRemoveCard ==
  ASSUME NEW S, NEW x, IsFiniteSet(S)
  PROVE  /\ Cardinality(S \cup {x}) \in Nat /\ Cardinality(S \cup {x}) <= Cardinality(S) + 1
         /\ Cardinality(S \ {x}) \in Nat /\ Cardinality(S \ {x}) <= Cardinality(S)
<1>1. Cardinality(S) \in Nat
  BY FS_CardinalityType
<1>2. Cardinality(S \cup {x}) = IF x \in S THEN Cardinality(S) ELSE Cardinality(S) + 1
  BY FS_AddElement
<1>3. IsFiniteSet(S \ {x})
  BY FS_RemoveElement
<1>4. Cardinality(S \ {x}) = IF x \in S THEN Cardinality(S) - 1 ELSE Cardinality(S)
  BY FS_RemoveElement
<1>5. Cardinality(S \ {x}) \in Nat
  BY <1>3, FS_CardinalityType
<1> QED  BY ONLY <1>1, <1>2, <1>4, <1>5

-----------------------------------------------------------------------------
(* Typing *)

\* At the start every session is idle and knows no topic.
LEMMA InitTyping == Init => Typing
<1> SUFFICES ASSUME Init PROVE Typing
  OBVIOUS
<1>1. TypeOK
  <2>1. /\ mmu \in Sessions \cup {NoSession}
        /\ topics \subseteq Topics
        /\ publisherCount \in Nat /\ activePublishers \in Int
        /\ activeSubscribers \in Int
        /\ phase \in Phases
    BY SMT DEF Init, Phases
  <2>2. /\ publisher \in [Topics -> Sessions \cup {NoSession}]
        /\ stream \in [Topics -> Sessions \cup {NoSession}]
        /\ subscribers \in [Topics -> SUBSET Sessions]
    BY DEF Init
  <2>3. /\ closed \in [Topics -> BOOLEAN]
        /\ armed \in [Topics -> BOOLEAN] /\ firing \in [Topics -> BOOLEAN]
    BY DEF Init
  <2>4. /\ sessTopic \in [Sessions -> Topics \cup {NoTopic}]
        /\ sessIsPub \in [Sessions -> BOOLEAN]
        /\ state \in [Sessions -> States]
        /\ pc \in [Sessions -> Steps]
        /\ arg \in [Sessions -> Topics \cup {NoTopic}]
        /\ prev \in [Sessions -> Nat]
    BY DEF Init, States, Steps
  <2>5. panicked \in BOOLEAN
    BY Zenon DEF Init
  <2> QED  BY <2>1, <2>2, <2>3, <2>4, <2>5 DEF TypeOK
<1>2. SessionOK
  BY DEF Init, SessionOK
<1> QED  BY <1>1, <1>2 DEF Typing

\* Every step preserves the types and the bookkeeping of the sessions.
LEMMA NextTyping == Typing /\ [Next]_vars => Typing'
<1> SUFFICES ASSUME Typing, [Next]_vars PROVE Typing'
  OBVIOUS
<1> USE NilAssumption, LimitsAssumption
    DEF Typing, TypeOK, SessionOK, States, Steps, Phases, Goto, Idle,
       regVars, subVars, timeVars, mapVars, sessVars, procVars
<1>1. ASSUME NEW s \in Sessions, NEW t \in Topics, AnnounceRegister(s, t) PROVE Typing'
  BY <1>1 DEF AnnounceRegister, SetPublisher, HasPublisher
<1>2. ASSUME NEW s \in Sessions, AnnounceSetStream(s) PROVE Typing'
  BY <1>2 DEF AnnounceSetStream
<1>3. ASSUME NEW s \in Sessions, AnnounceMap(s) PROVE Typing'
  BY <1>3 DEF AnnounceMap, MapSession
<1>4. ASSUME NEW s \in Sessions, OnPacketRTP(s) PROVE Typing'
  BY <1>4 DEF OnPacketRTP
<1>5. ASSUME NEW s \in Sessions, PublishSend(s) PROVE Typing'
  BY <1>5 DEF PublishSend
<1>6. ASSUME NEW s \in Sessions, NEW t \in Topics, OnSetup(s, t) PROVE Typing'
  BY <1>6 DEF OnSetup
<1>7. ASSUME NEW s \in Sessions, NEW t \in Topics, PlayCheck(s, t) PROVE Typing'
  BY <1>7 DEF PlayCheck, SubscriberQuota, PlayTopic
<1>8. ASSUME NEW s \in Sessions, PlayAdd(s) PROVE Typing'
  BY <1>8 DEF PlayAdd
<1>9. ASSUME NEW s \in Sessions, PlayInc(s) PROVE Typing'
  BY <1>9 DEF PlayInc
<1>10. ASSUME NEW s \in Sessions, PlayMap(s) PROVE Typing'
  BY <1>10 DEF PlayMap, MapSession
<1>11. ASSUME NEW s \in Sessions, CloseLookup(s) PROVE Typing'
  BY <1>11 DEF CloseLookup
<1>12. ASSUME NEW s \in Sessions, UnregisterPublisher(s) PROVE Typing'
  <2>1. arg[s] \in topics
    BY <1>12 DEF UnregisterPublisher, CountDown
  <2>2. TypeOK'
    <3>1. /\ publisher' \in [Topics -> Sessions \cup {NoSession}]
          /\ stream' \in [Topics -> Sessions \cup {NoSession}]
      BY <1>12, <2>1 DEF UnregisterPublisher, CountDown, RemovePublisher, HasPublisher
    <3>2. armed' \in [Topics -> BOOLEAN]
      BY <1>12, <2>1 DEF UnregisterPublisher, CountDown, RemovePublisher, HasPublisher
    <3>3. publisherCount' \in Nat /\ activePublishers' \in Int
      BY <1>12, <2>1 DEF UnregisterPublisher, CountDown
    <3> QED  BY <1>12, <3>1, <3>2, <3>3 DEF UnregisterPublisher, CountDown, SessionEnds
  <2>3. SessionOK'
    BY <1>12, <2>1 DEF UnregisterPublisher, CountDown, SessionEnds
  <2> QED  BY <2>2, <2>3
<1>13. ASSUME NEW s \in Sessions, UnregCount(s) PROVE Typing'
  <2>1. Cardinality(subscribers[arg[s]]) \in Nat
    BY <1>13, SubscribersCard DEF UnregCount
  <2> QED  BY <1>13, <2>1 DEF UnregCount, SessionEnds
<1>14. ASSUME NEW s \in Sessions, UnregRemove(s) PROVE Typing'
  BY <1>14 DEF UnregRemove
<1>15. ASSUME NEW s \in Sessions, UnregRecount(s) PROVE Typing'
  BY <1>15 DEF UnregRecount, SessionEnds
<1>16. ASSUME NEW t \in Topics, TimerFire(t) PROVE Typing'
  BY <1>16 DEF TimerFire
<1>17. ASSUME NEW t \in Topics, TopicClose(t) PROVE Typing'
  <2>1. Cardinality(subscribers[t]) \in Nat
    BY SubscribersCard
  <2> QED  BY <1>17, <2>1 DEF TopicClose, CloseTopics
<1>18. ASSUME ShutdownStep PROVE Typing'
  <2>1. CASE Signal
    BY <2>1 DEF Signal
  <2>2. CASE PubListenerClosed
    BY <2>2 DEF PubListenerClosed
  <2>3. CASE Shutdown
    <3>1. \A T \in SUBSET Topics : Cardinality(Attached(T)) \in Nat
      BY AttachedCard
    <3> QED  BY <2>3, <3>1 DEF Shutdown, CloseTopics
  <2> QED  BY <1>18, <2>1, <2>2, <2>3 DEF ShutdownStep
<1>19. CASE UNCHANGED vars
  BY <1>19 DEF vars, regVars, subVars, timeVars, mapVars, sessVars, procVars
<1> QED
  BY <1>1, <1>2, <1>3, <1>4, <1>5, <1>6, <1>7, <1>8, <1>9, <1>10, <1>11, <1>12,
     <1>13, <1>14, <1>15, <1>16, <1>17, <1>18, <1>19
     DEF Next, Start, Continue, TimerStep, Ended

\* Spec keeps the types of all variables: in particular publisherCount never
\* goes below zero and every step of a callback works on a real topic.
THEOREM TypeCorrect == Spec => []TypeOK
<1>1. Spec => []Typing
  BY InitTyping, NextTyping, PTL DEF Spec
<1>2. Typing => TypeOK
  BY DEF Typing
<1> QED  BY <1>1, <1>2, PTL

-----------------------------------------------------------------------------
(* Publishers *)

\* All but three steps leave the registration of publishers alone, in the
\* manager and in the sessions.
OtherStep ==
  /\ UNCHANGED regVars
  /\ \A s \in Sessions :
       Claim(s)' = Claim(s) /\ (pc[s] = "setStream" <=> pc'[s] = "setStream")

\* A step registers a publisher, sets its stream, unregisters it, or leaves
\* publishers, counters and claims alone.
LEMMA PublisherSteps ==
  ASSUME Typing, [Next]_vars
  PROVE  \/ \E s \in Sessions, t \in Topics : AnnounceRegister(s, t)
         \/ \E s \in Sessions : AnnounceSetStream(s)
         \/ \E s \in Sessions : UnregisterPublisher(s)
         \/ OtherStep
<1> USE DEF Typing, TypeOK, SessionOK, Steps, Claim, OtherStep, Goto, Idle,
       mapVars, regVars, subVars, timeVars, sessVars, procVars
<1>1. ASSUME NEW s \in Sessions, AnnounceMap(s) PROVE OtherStep
  BY <1>1 DEF AnnounceMap, MapSession
<1>2. ASSUME NEW s \in Sessions, OnPacketRTP(s) PROVE OtherStep
  BY <1>2 DEF OnPacketRTP
<1>3. ASSUME NEW s \in Sessions, PublishSend(s) PROVE OtherStep
  BY <1>3 DEF PublishSend
<1>4. ASSUME NEW s \in Sessions, NEW t \in Topics, OnSetup(s, t) PROVE OtherStep
  BY <1>4 DEF OnSetup
<1>5. ASSUME NEW s \in Sessions, NEW t \in Topics, PlayCheck(s, t) PROVE OtherStep
  BY <1>5 DEF PlayCheck, SubscriberQuota, PlayTopic
<1>6. ASSUME NEW s \in Sessions, PlayAdd(s) PROVE OtherStep
  BY <1>6 DEF PlayAdd
<1>7. ASSUME NEW s \in Sessions, PlayInc(s) PROVE OtherStep
  BY <1>7 DEF PlayInc
<1>8. ASSUME NEW s \in Sessions, PlayMap(s) PROVE OtherStep
  BY <1>8 DEF PlayMap, MapSession
<1>9. ASSUME NEW s \in Sessions, CloseLookup(s) PROVE OtherStep
  BY <1>9 DEF CloseLookup
<1>10. ASSUME NEW s \in Sessions, UnregCount(s) PROVE OtherStep
  BY <1>10 DEF UnregCount, SessionEnds
<1>11. ASSUME NEW s \in Sessions, UnregRemove(s) PROVE OtherStep
  BY <1>11 DEF UnregRemove
<1>12. ASSUME NEW s \in Sessions, UnregRecount(s) PROVE OtherStep
  BY <1>12 DEF UnregRecount, SessionEnds
<1>13. ASSUME NEW t \in Topics, TimerStep(t) PROVE OtherStep
  BY <1>13 DEF TimerStep, TimerFire, TopicClose, CloseTopics
<1>14. ASSUME ShutdownStep PROVE OtherStep
  BY <1>14 DEF ShutdownStep, Signal, PubListenerClosed, Shutdown, CloseTopics
<1>15. CASE UNCHANGED vars
  BY <1>15 DEF vars, regVars, subVars, timeVars, mapVars, sessVars, procVars
<1> QED
  BY <1>1, <1>2, <1>3, <1>4, <1>5, <1>6, <1>7, <1>8, <1>9, <1>10, <1>11, <1>12,
     <1>13, <1>14, <1>15 DEF Next, Start, Continue, Ended

\* The manager and the sessions agree on who publishes what, whatever is
\* between OnAnnounce and OnSessionClose of one session.
LEMMA NextHandshake == Typing /\ PublisherHandshake /\ [Next]_vars => PublisherHandshake'
<1> SUFFICES ASSUME Typing, PublisherHandshake, [Next]_vars PROVE PublisherHandshake'
  OBVIOUS
<1> USE NilAssumption
    DEF Typing, TypeOK, SessionOK, Steps, PublisherHandshake, Claim,
       Goto, Idle, mapVars, regVars, subVars, timeVars, sessVars,
       procVars
<1>1. ASSUME NEW s \in Sessions, NEW t \in Topics, AnnounceRegister(s, t)
      PROVE  PublisherHandshake'
  BY <1>1 DEF AnnounceRegister, SetPublisher, HasPublisher
<1>2. ASSUME NEW s \in Sessions, AnnounceSetStream(s) PROVE PublisherHandshake'
  BY <1>2 DEF AnnounceSetStream
<1>3. ASSUME NEW s \in Sessions, UnregisterPublisher(s) PROVE PublisherHandshake'
  <2>1. arg[s] \in topics
    BY <1>3 DEF UnregisterPublisher, CountDown
  <2>2. publisher[arg[s]] = s
    BY <1>3, <2>1 DEF UnregisterPublisher, CountDown
  <2> QED  BY <1>3, <2>1, <2>2 DEF UnregisterPublisher, CountDown, RemovePublisher, HasPublisher,
       SessionEnds
<1>4. CASE OtherStep
  BY <1>4 DEF OtherStep, regVars, subVars, timeVars, mapVars, sessVars, procVars
<1> QED  BY <1>1, <1>2, <1>3, <1>4, PublisherSteps

\* Spec keeps the manager and the sessions agreed on who publishes what.
THEOREM HandshakeCorrect == Spec => []PublisherHandshake
<1>1. Init => PublisherHandshake
  BY NilAssumption DEF Init, PublisherHandshake, Claim
<1>2. Spec => [](Typing /\ PublisherHandshake)
  BY <1>1, InitTyping, NextTyping, NextHandshake, PTL DEF Spec
<1> QED  BY <1>2, PTL

\* publisherCount, the gauge and the publishers of the topics agree.
LEMMA NextAccounting ==
  Typing /\ PublisherHandshake /\ PublisherAccounting /\ [Next]_vars => PublisherAccounting'
<1> SUFFICES ASSUME Typing, PublisherHandshake, PublisherAccounting, [Next]_vars
             PROVE  PublisherAccounting'
  OBVIOUS
<1>0. IsFiniteSet(Published)
  BY TopicsAssumption, FS_Subset DEF Published
<1> USE DEF Typing, TypeOK, PublisherAccounting
<1>1. ASSUME NEW s \in Sessions, NEW t \in Topics, AnnounceRegister(s, t)
      PROVE  PublisherAccounting'
  <2>1. t \notin Published
    BY <1>1 DEF AnnounceRegister, SetPublisher, HasPublisher, Published
  <2>2. Published' = Published \cup {t}
    BY <1>1, NilAssumption DEF AnnounceRegister, SetPublisher, HasPublisher, Published
  <2>3. Cardinality(Published') = Cardinality(Published) + 1
    BY <1>0, <2>1, <2>2, FS_AddElement
  <2> QED  BY <1>1, <2>3, LimitsAssumption DEF AnnounceRegister, SetPublisher, HasPublisher, PublisherQuota
<1>2. ASSUME NEW s \in Sessions, AnnounceSetStream(s) PROVE PublisherAccounting'
  BY <1>2 DEF AnnounceSetStream, Published
<1>3. ASSUME NEW s \in Sessions, UnregisterPublisher(s) PROVE PublisherAccounting'
  <2>1. arg[s] \in topics /\ arg[s] \in Topics
    BY <1>3 DEF UnregisterPublisher, CountDown, SessionOK
  <2>2. arg[s] \in Published
    BY <1>3, <2>1, NilAssumption DEF UnregisterPublisher, CountDown, PublisherHandshake, Claim,
       Published
  <2>3. Published' = Published \ {arg[s]}
    BY <1>3, <2>1 DEF UnregisterPublisher, CountDown, RemovePublisher, HasPublisher,
       Published
  <2>4. Cardinality(Published') = Cardinality(Published) - 1
    <3>1. Cardinality(Published \ {arg[s]}) = Cardinality(Published) - 1
      BY ONLY <1>0, <2>2, FS_RemoveElement
    <3> QED  BY ONLY <2>3, <3>1
  <2>5. Published' \subseteq Topics
    BY DEF Published
  <2>6. Cardinality(Published') \in Nat
    BY <2>5, TopicsAssumption, FS_Subset, FS_CardinalityType
  <2> QED  BY <1>3, <2>1, <2>4, <2>6, LimitsAssumption DEF UnregisterPublisher, CountDown
<1>4. CASE OtherStep
  BY <1>4 DEF OtherStep, regVars, subVars, timeVars, mapVars, sessVars,
       procVars, Published
<1> QED  BY <1>1, <1>2, <1>3, <1>4, PublisherSteps

\* At the start nobody publishes and the counters are zero.
LEMMA InitPublishers == Init => PublisherHandshake /\ PublisherAccounting
<1> SUFFICES ASSUME Init PROVE PublisherHandshake /\ PublisherAccounting
  OBVIOUS
<1>1. PublisherHandshake
  BY NilAssumption DEF Init, PublisherHandshake, Claim
<1>2. Published = {}
  BY DEF Init, Published
<1>3. PublisherAccounting
  BY <1>2, FS_EmptySet, LimitsAssumption DEF Init, PublisherAccounting
<1> QED  BY <1>1, <1>3

\* The three layers about publishers together, for the theorems below.
LEMMA PublishersAccounted == Spec => [](Typing /\ PublisherHandshake /\ PublisherAccounting)
BY InitTyping, NextTyping, InitPublishers, NextHandshake, NextAccounting, PTL DEF Spec

\* Spec keeps the counter, the gauge and the topics agreed, and the quota.
THEOREM AccountingCorrect == Spec => []PublisherAccounting
<1> QED  BY PublishersAccounted, PTL

\* The stream of a topic is that of its publisher.
LEMMA NextStream ==
  Typing /\ PublisherHandshake /\ StreamOfPublisher /\ [Next]_vars => StreamOfPublisher'
<1> SUFFICES ASSUME Typing, PublisherHandshake, StreamOfPublisher, [Next]_vars
             PROVE  StreamOfPublisher'
  OBVIOUS
<1> USE NilAssumption
    DEF Typing, TypeOK, SessionOK, Steps, PublisherHandshake,
       StreamOfPublisher, Claim, Goto, Idle, mapVars, regVars,
       subVars, timeVars, sessVars, procVars
<1>1. ASSUME NEW s \in Sessions, NEW t \in Topics, AnnounceRegister(s, t)
      PROVE  StreamOfPublisher'
  BY <1>1 DEF AnnounceRegister, SetPublisher, HasPublisher
<1>2. ASSUME NEW s \in Sessions, AnnounceSetStream(s) PROVE StreamOfPublisher'
  BY <1>2 DEF AnnounceSetStream
<1>3. ASSUME NEW s \in Sessions, UnregisterPublisher(s) PROVE StreamOfPublisher'
  <2>1. arg[s] \in topics /\ publisher[arg[s]] = s
    BY <1>3 DEF UnregisterPublisher, CountDown
  <2> QED  BY <1>3, <2>1 DEF UnregisterPublisher, CountDown, RemovePublisher, HasPublisher,
       SessionEnds
<1>4. CASE OtherStep
  BY <1>4 DEF OtherStep, regVars, subVars, timeVars, mapVars, sessVars, procVars
<1> QED  BY <1>1, <1>2, <1>3, <1>4, PublisherSteps

\* SETUP never hands out, and OnPacketRTP never writes to, a stream that is
\* not the one of the publisher of the topic.
THEOREM StreamCorrect == Spec => []StreamOfPublisher
<1>1. Init => PublisherHandshake /\ StreamOfPublisher
  BY NilAssumption DEF Init, PublisherHandshake, StreamOfPublisher, Claim
<1>2. Spec => [](Typing /\ PublisherHandshake /\ StreamOfPublisher)
  BY <1>1, InitTyping, NextTyping, NextHandshake, NextStream, PTL DEF Spec
<1> QED  BY <1>2, PTL

-----------------------------------------------------------------------------
(* Refinement of PublisherRegistry *)

\* The initial states of the manager are those of the registry.
LEMMA InitRegistry == Init => Registry!Init
BY DEF Init, Registry!Init, Claim

\* RegisterPublisher is Acquire, UnregisterPublisher is Release and every
\* other step of the callbacks is a stutter.
LEMMA NextRegistry ==
  Typing /\ PublisherHandshake /\ PublisherAccounting /\ [Next]_vars
    => [Registry!Next]_(Registry!vars)
<1> SUFFICES ASSUME Typing, PublisherHandshake, PublisherAccounting, [Next]_vars
             PROVE  [Registry!Next]_(Registry!vars)
  OBVIOUS
<1> DEFINE claim == [s \in Sessions |-> Claim(s)]
<1> USE NilAssumption DEF Typing, TypeOK, SessionOK
<1>1. ASSUME NEW s \in Sessions, NEW t \in Topics, AnnounceRegister(s, t)
      PROVE  Registry!Acquire(s, t)
  <2>1. Claim(s) = NoTopic /\ publisher[t] = NoSession
    BY <1>1 DEF AnnounceRegister, SetPublisher, HasPublisher, Claim, Idle
  <2>2. Registry!Quota
    <3>1. Registry!Taken = Published
      BY DEF Registry!Taken, Published
    <3>2. MaxPublishers > 0 => publisherCount < MaxPublishers
      BY <1>1 DEF AnnounceRegister, SetPublisher, HasPublisher, PublisherQuota
    <3>3. publisherCount = Cardinality(Published)
      BY DEF PublisherAccounting
    <3>4. Registry!Cardinality(Published) = Cardinality(Published)
      BY DEF Registry!Cardinality, Cardinality
    <3> QED  BY ONLY <3>1, <3>2, <3>3, <3>4 DEF Registry!Quota
  <2>3. \A r \in Sessions : Claim(r)' = IF r = s THEN t ELSE Claim(r)
    BY <1>1 DEF AnnounceRegister, SetPublisher, HasPublisher, Claim, Goto, Idle,
       mapVars, regVars, subVars, timeVars, sessVars, procVars, Steps
  <2>4. claim' = [claim EXCEPT ![s] = t]
    BY <2>3
  <2>5. publisher' = [publisher EXCEPT ![t] = s]
    BY <1>1 DEF AnnounceRegister, SetPublisher, HasPublisher
  <2> QED  BY <2>1, <2>2, <2>4, <2>5 DEF Registry!Acquire
<1>2. ASSUME NEW s \in Sessions, UnregisterPublisher(s)
      PROVE  arg[s] \in Topics /\ Registry!Release(s, arg[s])
  <2>1. arg[s] \in topics /\ arg[s] \in Topics
    BY <1>2 DEF UnregisterPublisher, CountDown
  <2>2. Claim(s) = arg[s] /\ publisher[arg[s]] = s
    BY <1>2, <2>1 DEF UnregisterPublisher, CountDown, Claim, PublisherHandshake
  <2>3. \A r \in Sessions : Claim(r)' = IF r = s THEN NoTopic ELSE Claim(r)
    BY <1>2 DEF UnregisterPublisher, CountDown, SessionEnds, Claim, Goto,
       mapVars, regVars, subVars, timeVars, sessVars, procVars, Steps
  <2>4. claim' = [claim EXCEPT ![s] = NoTopic]
    BY <2>3
  <2>5. publisher' = [publisher EXCEPT ![arg[s]] = NoSession]
    BY <1>2, <2>1 DEF UnregisterPublisher, CountDown, RemovePublisher, HasPublisher
  <2> QED  BY <2>1, <2>2, <2>4, <2>5 DEF Registry!Release
<1>3. ASSUME NEW s \in Sessions, AnnounceSetStream(s) PROVE UNCHANGED Registry!vars
  <2>1. \A r \in Sessions : Claim(r)' = Claim(r)
    BY <1>3 DEF AnnounceSetStream, Claim, Goto, mapVars, regVars, subVars,
       timeVars, sessVars, procVars, Steps
  <2>2. publisher' = publisher
    BY <1>3 DEF AnnounceSetStream
  <2> QED  BY <2>1, <2>2 DEF Registry!vars
<1>4. CASE OtherStep
  <2>1. publisher' = publisher
    BY <1>4 DEF OtherStep, regVars, subVars, timeVars, mapVars, sessVars, procVars
  <2>2. \A r \in Sessions : Claim(r)' = Claim(r)
    BY <1>4 DEF OtherStep
  <2> QED  BY <2>1, <2>2 DEF Registry!vars
<1> QED  BY <1>1, <1>2, <1>3, <1>4, PublisherSteps DEF Registry!Next

\* The callbacks of the sessions and the topic manager together implement
\* PublisherRegistry, although the two sides change at different steps.
THEOREM Refinement == Spec => RefinesRegistry
<1> QED
  BY PublishersAccounted, InitRegistry, NextRegistry, PTL DEF Spec, RefinesRegistry, Registry!Spec

-----------------------------------------------------------------------------
(* Grace timer *)

\* RemovePublisher starts the timer in the step that leaves the topic without
\* publisher; only Topic.Close or a new publisher end the need for it.
LEMMA NextGraceTimer == Typing /\ GraceTimer /\ [Next]_vars => GraceTimer'
<1> SUFFICES ASSUME Typing, GraceTimer, [Next]_vars PROVE GraceTimer'
  OBVIOUS
<1> USE NilAssumption
    DEF Typing, TypeOK, SessionOK, GraceTimer, regVars, subVars,
       timeVars, mapVars, sessVars, procVars
<1>1. ASSUME NEW s \in Sessions, NEW t \in Topics, AnnounceRegister(s, t) PROVE GraceTimer'
  BY <1>1 DEF AnnounceRegister, SetPublisher, HasPublisher
<1>2. ASSUME NEW s \in Sessions, UnregisterPublisher(s) PROVE GraceTimer'
  <2>1. arg[s] \in topics
    BY <1>2 DEF UnregisterPublisher, CountDown
  <2> QED  BY <1>2, <2>1 DEF UnregisterPublisher, CountDown, RemovePublisher, HasPublisher
<1>3. ASSUME NEW t \in Topics, TimerStep(t) PROVE GraceTimer'
  BY <1>3 DEF TimerStep, TimerFire, TopicClose, CloseTopics
<1>4. ASSUME ShutdownStep PROVE GraceTimer'
  BY <1>4 DEF ShutdownStep, Signal, PubListenerClosed, Shutdown, CloseTopics
<1>5. ASSUME NEW s \in Sessions,
             (Continue(s) /\ ~UnregisterPublisher(s)) \/ OnPacketRTP(s) \/ CloseLookup(s)
      PROVE  GraceTimer'
  BY <1>5 DEF Continue, AnnounceSetStream, AnnounceMap, MapSession,
       PublishSend, PlayAdd, PlayInc, PlayMap, UnregCount,
       UnregRemove, UnregRecount, OnPacketRTP, CloseLookup
<1>6. ASSUME NEW s \in Sessions, NEW t \in Topics, OnSetup(s, t) \/ PlayCheck(s, t)
      PROVE  GraceTimer'
  BY <1>6 DEF OnSetup, PlayCheck, SubscriberQuota
<1>7. CASE UNCHANGED vars
  BY <1>7 DEF vars, regVars, subVars, timeVars, mapVars, sessVars, procVars
<1> QED
  BY <1>1, <1>2, <1>3, <1>4, <1>5, <1>6, <1>7 DEF Next, Start, Continue, Ended

\* An open topic without publisher is never forgotten: a timer will close it;
\* and no timer runs against a publisher.
THEOREM GraceTimerCorrect == Spec => []GraceTimer
<1>1. Init => GraceTimer
  BY DEF Init, GraceTimer
<1>2. Spec => [](Typing /\ GraceTimer)
  BY <1>1, InitTyping, NextTyping, NextGraceTimer, PTL DEF Spec
<1> QED  BY <1>2, PTL

-----------------------------------------------------------------------------
(* Subscribers *)

\* The session that holds Manager.mu is the one inside RegisterSubscriber or
\* UnregisterSubscriber, and the limit it checked still holds when it adds.
LimitOK ==
  /\ \A s \in Sessions : mmu = s <=> pc[s] \in {"add", "inc", "remove", "recount"}
  /\ \A s \in Sessions :
       pc[s] = "add" => Cardinality(subscribers[arg[s]]) < MaxSubscribersPerTopic
  /\ SubscriberLimit

\* Between its check and its addition RegisterSubscriber holds Manager.mu, so
\* nobody else adds to the map; Topic.Close only empties it.
LEMMA NextLimit == Typing /\ LimitOK /\ [Next]_vars => LimitOK'
<1> SUFFICES ASSUME Typing, LimitOK, [Next]_vars PROVE LimitOK'
  OBVIOUS
<1>0. Cardinality({}) = 0
  BY FS_EmptySet
<1>card. \A t \in Topics :
           IsFiniteSet(subscribers[t]) /\ Cardinality(subscribers[t]) \in Nat
  BY SubscribersCard DEF Typing
<1> USE NilAssumption, LimitsAssumption
    DEF Typing, TypeOK, SessionOK, Steps, LimitOK, SubscriberLimit, Goto, Idle,
        regVars, subVars, timeVars, mapVars, sessVars, procVars
<1>1. ASSUME NEW s \in Sessions, NEW t \in Topics, AnnounceRegister(s, t) PROVE LimitOK'
  BY <1>1 DEF AnnounceRegister, SetPublisher, HasPublisher
<1>2. ASSUME NEW s \in Sessions, AnnounceSetStream(s) \/ AnnounceMap(s) \/ PlayMap(s)
      PROVE  LimitOK'
  BY <1>2 DEF AnnounceSetStream, AnnounceMap, MapSession, PlayMap
<1>3. ASSUME NEW s \in Sessions, OnPacketRTP(s) \/ PublishSend(s) PROVE LimitOK'
  BY <1>3 DEF OnPacketRTP, PublishSend
<1>4. ASSUME NEW s \in Sessions, NEW t \in Topics, OnSetup(s, t) PROVE LimitOK'
  BY <1>4 DEF OnSetup
<1>5. ASSUME NEW s \in Sessions, NEW t \in Topics, PlayCheck(s, t) PROVE LimitOK'
  BY <1>5 DEF PlayCheck, SubscriberQuota
<1>6. ASSUME NEW s \in Sessions, PlayAdd(s) PROVE LimitOK'
  <2>1. arg[s] \in Topics /\ Cardinality(subscribers[arg[s]]) < MaxSubscribersPerTopic
    BY <1>6 DEF PlayAdd
  <2> DEFINE n == Cardinality(subscribers[arg[s]] \cup {s})
  <2>2. n \in Nat /\ n <= Cardinality(subscribers[arg[s]]) + 1
    BY ONLY <1>card, <2>1, AddRemoveCard
  <2>3. n <= MaxSubscribersPerTopic
    BY ONLY <1>card, <2>1, <2>2, LimitsAssumption
  <2>4. subscribers' = [subscribers EXCEPT ![arg[s]] = @ \cup {s}]
    BY <1>6 DEF PlayAdd
  <2>5. \A t \in Topics : Cardinality(subscribers'[t]) <= MaxSubscribersPerTopic
    BY <2>1, <2>2, <2>3, <2>4
  <2>6. \A r \in Sessions : pc'[r] # "add"
    BY <1>6 DEF PlayAdd
  <2> QED  BY <1>6, <2>5, <2>6 DEF PlayAdd
<1>7. ASSUME NEW s \in Sessions, PlayInc(s) PROVE LimitOK'
  BY <1>7 DEF PlayInc
<1>8. ASSUME NEW s \in Sessions, CloseLookup(s) PROVE LimitOK'
  BY <1>8 DEF CloseLookup
<1>9. ASSUME NEW s \in Sessions, UnregisterPublisher(s) PROVE LimitOK'
  BY <1>9 DEF UnregisterPublisher, CountDown, SessionEnds
<1>10. ASSUME NEW s \in Sessions, UnregCount(s) PROVE LimitOK'
  BY <1>10 DEF UnregCount, SessionEnds
<1>11. ASSUME NEW s \in Sessions, UnregRemove(s) PROVE LimitOK'
  <2>1. arg[s] \in Topics
    BY <1>11 DEF UnregRemove
  <2> DEFINE n == Cardinality(subscribers[arg[s]] \ {s})
  <2>2. n \in Nat /\ n <= Cardinality(subscribers[arg[s]])
    BY ONLY <1>card, <2>1, AddRemoveCard
  <2>lim. Cardinality(subscribers[arg[s]]) <= MaxSubscribersPerTopic
    BY <2>1
  <2>3. n <= MaxSubscribersPerTopic
    BY ONLY <1>card, <2>1, <2>2, <2>lim, LimitsAssumption
  <2>4. subscribers' = [subscribers EXCEPT ![arg[s]] = @ \ {s}]
    BY <1>11 DEF UnregRemove
  <2>5. \A t \in Topics : Cardinality(subscribers'[t]) <= MaxSubscribersPerTopic
    BY <2>1, <2>2, <2>3, <2>4
  <2>6. \A r \in Sessions : pc'[r] # "add"
    BY <1>11 DEF UnregRemove
  <2> QED  BY <1>11, <2>5, <2>6 DEF UnregRemove
<1>12. ASSUME NEW s \in Sessions, UnregRecount(s) PROVE LimitOK'
  BY <1>12 DEF UnregRecount, SessionEnds
<1>13. ASSUME NEW t \in Topics, TimerFire(t) PROVE LimitOK'
  BY <1>13 DEF TimerFire, sessVars, regVars, subVars, timeVars, mapVars, procVars
<1>14. ASSUME NEW t \in Topics, TopicClose(t) PROVE LimitOK'
  <2>1. \A u \in Topics : subscribers'[u] \in {{}, subscribers[u]}
    BY <1>14 DEF TopicClose, CloseTopics
  <2>2. UNCHANGED <<mmu, pc, arg>>
    BY <1>14 DEF TopicClose, CloseTopics, sessVars, regVars, subVars, timeVars,
       mapVars, procVars
  <2>3. ASSUME NEW u \in Topics
        PROVE  /\ Cardinality(subscribers'[u]) \in Nat
               /\ Cardinality(subscribers'[u]) <= Cardinality(subscribers[u])
    <3>1. CASE subscribers'[u] = {}
      <4>1. Cardinality(subscribers'[u]) = 0
        BY ONLY <1>0, <3>1
      <4> QED  BY ONLY <4>1, <1>card
    <3>2. CASE subscribers'[u] = subscribers[u]
      <4>1. Cardinality(subscribers'[u]) = Cardinality(subscribers[u])
        BY ONLY <3>2
      <4> QED  BY ONLY <4>1, <1>card
    <3> QED  BY ONLY <2>1, <3>1, <3>2
  <2>4. SubscriberLimit'
    BY ONLY <1>card, <2>3, SubscriberLimit, LimitsAssumption DEF SubscriberLimit
  <2>5. ASSUME NEW s \in Sessions, pc[s] = "add"
        PROVE  Cardinality(subscribers'[arg[s]]) < MaxSubscribersPerTopic
    <3>1. arg[s] \in Topics /\ Cardinality(subscribers[arg[s]]) < MaxSubscribersPerTopic
      BY <2>5
    <3> QED  BY ONLY <1>card, <2>3, <3>1, LimitsAssumption
  <2> QED  BY <2>2, <2>4, <2>5
<1>15. ASSUME ShutdownStep PROVE LimitOK'
  <2>1. CASE Signal \/ PubListenerClosed
    BY <2>1 DEF Signal, PubListenerClosed, sessVars, regVars, subVars, timeVars,
       mapVars, procVars
  <2>2. CASE Shutdown
    <3>1. \A t \in Topics : subscribers'[t] \in {{}, subscribers[t]}
      BY <2>2 DEF Shutdown, CloseTopics
    <3> QED  BY <1>0, <1>card, <2>2, <3>1 DEF Shutdown, CloseTopics, AllEnded, sessVars, regVars, subVars,
       timeVars, mapVars, procVars
  <2> QED  BY <1>15, <2>1, <2>2 DEF ShutdownStep
<1>16. CASE UNCHANGED vars
  BY <1>16 DEF vars, regVars, subVars, timeVars, mapVars, sessVars, procVars
<1> QED
  BY <1>1, <1>2, <1>3, <1>4, <1>5, <1>6, <1>7, <1>8, <1>9, <1>10, <1>11, <1>12,
     <1>13, <1>14, <1>15, <1>16 DEF Next, Start, Continue, TimerStep, Ended

\* At the start nobody holds Manager.mu and every map is empty.
LEMMA InitLimit == Init => LimitOK
<1> SUFFICES ASSUME Init PROVE LimitOK
  OBVIOUS
<1>1. \A t \in Topics : Cardinality(subscribers[t]) = 0
  BY FS_EmptySet DEF Init
<1> QED  BY <1>1, NilAssumption, LimitsAssumption DEF Init, LimitOK, SubscriberLimit

\* MaxSubscribersPerTopic is never exceeded, however Topic.Close and other
\* sessions come between the check and the addition.
THEOREM LimitCorrect == Spec => []SubscriberLimit
<1>2. Spec => [](Typing /\ LimitOK)
  BY InitLimit, InitTyping, NextTyping, NextLimit, PTL DEF Spec
<1>3. LimitOK => SubscriberLimit
  BY DEF LimitOK
<1> QED  BY <1>2, <1>3, PTL

\* Without a second PLAY a session inside OnPlay has no topic in sessTopic yet.
SubscribersOK ==
  /\ \A s \in Sessions : pc[s] \in {"add", "inc", "mapSub"} => state[s] = "prePlay"
  /\ SubscribersHaveSessions

\* An entry is made by OnPlay and stays with that session until
\* UnregisterSubscriber or Topic.Close removes it.
LEMMA NextSubscribers ==
  ASSUME RePlay = FALSE
  PROVE  Typing /\ SubscribersOK /\ [Next]_vars => SubscribersOK'
<1> SUFFICES ASSUME Typing, SubscribersOK, [Next]_vars PROVE SubscribersOK'
  OBVIOUS
<1> USE NilAssumption
    DEF Typing, TypeOK, SessionOK, Steps, SubscribersOK,
       SubscribersHaveSessions, Goto, Idle, mapVars, regVars,
       subVars, timeVars, sessVars, procVars
<1>1. ASSUME NEW s \in Sessions, NEW t \in Topics, AnnounceRegister(s, t) \/ OnSetup(s, t)
      PROVE  SubscribersOK'
  BY <1>1 DEF AnnounceRegister, SetPublisher, HasPublisher, OnSetup
<1>2. ASSUME NEW s \in Sessions, AnnounceSetStream(s) \/ AnnounceMap(s)
      PROVE  SubscribersOK'
  BY <1>2 DEF AnnounceSetStream, AnnounceMap, MapSession
<1>3. ASSUME NEW s \in Sessions, OnPacketRTP(s) \/ PublishSend(s)
      PROVE  SubscribersOK'
  BY <1>3 DEF OnPacketRTP, PublishSend
<1>4. ASSUME NEW s \in Sessions, NEW t \in Topics, PlayCheck(s, t)
      PROVE  SubscribersOK'
  BY <1>4, RePlay = FALSE DEF PlayCheck, SubscriberQuota, PlayTopic
<1>5. ASSUME NEW s \in Sessions, PlayAdd(s) PROVE SubscribersOK'
  BY <1>5 DEF PlayAdd
<1>6. ASSUME NEW s \in Sessions, PlayInc(s) \/ PlayMap(s)
      PROVE  SubscribersOK'
  BY <1>6 DEF PlayInc, PlayMap, MapSession
<1>7. ASSUME NEW s \in Sessions, CloseLookup(s) PROVE SubscribersOK'
  BY <1>7 DEF CloseLookup
<1>8. ASSUME NEW s \in Sessions, UnregisterPublisher(s)
      PROVE  SubscribersOK'
  BY <1>8 DEF UnregisterPublisher, CountDown, SessionEnds
<1>9. ASSUME NEW s \in Sessions, UnregCount(s) PROVE SubscribersOK'
  BY <1>9 DEF UnregCount, SessionEnds
<1>10. ASSUME NEW s \in Sessions, UnregRemove(s) PROVE SubscribersOK'
  BY <1>10 DEF UnregRemove
<1>11. ASSUME NEW s \in Sessions, UnregRecount(s) PROVE SubscribersOK'
  BY <1>11 DEF UnregRecount, SessionEnds
<1>12. ASSUME NEW t \in Topics, TimerStep(t) PROVE SubscribersOK'
  BY <1>12 DEF TimerStep, TimerFire, TopicClose, CloseTopics
<1>13. ASSUME ShutdownStep PROVE SubscribersOK'
  BY <1>13 DEF ShutdownStep, Signal, PubListenerClosed, Shutdown, CloseTopics
<1>14. CASE UNCHANGED vars
  BY <1>14 DEF vars, regVars, subVars, timeVars, mapVars, sessVars, procVars
<1> QED
  BY <1>1, <1>2, <1>3, <1>4, <1>5, <1>6, <1>7, <1>8, <1>9, <1>10, <1>11, <1>12,
     <1>13, <1>14 DEF Next, Start, Continue, Ended

\* At the start there are no entries.
LEMMA InitSubscribers == Init => SubscribersOK
BY DEF Init, SubscribersOK, SubscribersHaveSessions

\* When clients do not PLAY twice on a session, no entry of a subscriber map
\* outlives the session that made it.
THEOREM SubscribersCorrect ==
  ASSUME RePlay = FALSE
  PROVE  Spec => []SubscribersHaveSessions
<1>1. Spec => [](Typing /\ SubscribersOK)
  BY InitTyping, NextTyping, InitSubscribers, NextSubscribers, PTL DEF Spec
<1>2. SubscribersOK => SubscribersHaveSessions
  BY DEF SubscribersOK
<1> QED  BY <1>1, <1>2, PTL

-----------------------------------------------------------------------------
(* The gauge of the subscribers *)

Entries == Cardinality(Attached(Topics))

\* The gauge is behind by what the session that holds Manager.mu has added and
\* not yet counted.  It may be ahead by what that session has removed, but then
\* the second len() of UnregisterSubscriber is below the first.
SubscriberGaugeOK ==
  /\ \A s \in Sessions :
       /\ pc[s] = "inc" => activeSubscribers + 1 <= Entries
       /\ pc[s] = "remove" => Cardinality(subscribers[arg[s]]) <= prev[s]
       /\ pc[s] = "recount" =>
            \/ activeSubscribers <= Entries
            \/ activeSubscribers <= Entries + 1 /\ Cardinality(subscribers[arg[s]]) < prev[s]
  /\ (\A s \in Sessions : pc[s] \notin {"inc", "recount"}) => activeSubscribers <= Entries

\* What one addition, one removal and Topic.Close do to the entries.
LEMMA EntriesChange ==
  ASSUME TypeOK, NEW s \in Sessions, NEW t \in Topics, NEW T \in SUBSET Topics
  PROVE  /\ IsFiniteSet(Attached(Topics)) /\ Entries \in Nat
         /\ subscribers' = [subscribers EXCEPT ![t] = @ \cup {s}] /\ s \notin subscribers[t]
              => Entries' = Entries + 1
         /\ subscribers' = [subscribers EXCEPT ![t] = @ \ {s}] /\ s \in subscribers[t]
              => Entries' = Entries - 1
         /\ subscribers' = [subscribers EXCEPT ![t] = @ \ {s}] /\ s \notin subscribers[t]
              => Entries' = Entries
         /\ subscribers' = [u \in Topics |-> IF u \in T THEN {} ELSE subscribers[u]]
              => Entries' = Entries - Cardinality(Attached(T))
<1>1. subscribers \in [Topics -> SUBSET Sessions]
  BY DEF TypeOK
<1>2. IsFiniteSet(Attached(Topics)) /\ Entries \in Nat
  <2>1. IsFiniteSet(Sessions \X Topics)
    BY SessionsAssumption, TopicsAssumption, FS_Product
  <2>2. Attached(Topics) \subseteq Sessions \X Topics
    BY DEF Attached
  <2>3. IsFiniteSet(Attached(Topics))
    BY <2>1, <2>2, FS_Subset
  <2> QED  BY <2>3, FS_CardinalityType DEF Entries
<1>3. ASSUME subscribers' = [subscribers EXCEPT ![t] = @ \cup {s}], s \notin subscribers[t]
      PROVE  Entries' = Entries + 1
  <2>1. Attached(Topics)' = Attached(Topics) \cup {<<s, t>>} /\ <<s, t>> \notin Attached(Topics)
    BY <1>1, <1>3 DEF Attached
  <2> QED  BY <1>2, <2>1, FS_AddElement DEF Entries
<1>4. ASSUME subscribers' = [subscribers EXCEPT ![t] = @ \ {s}]
      PROVE  /\ s \in subscribers[t] => Entries' = Entries - 1
             /\ s \notin subscribers[t] => Entries' = Entries
  <2>1. /\ Attached(Topics)' = Attached(Topics) \ {<<s, t>>}
        /\ s \in subscribers[t] <=> <<s, t>> \in Attached(Topics)
    BY <1>1, <1>4 DEF Attached
  <2> DEFINE A == Attached(Topics)
             x == <<s, t>>
  <2>2. IsFiniteSet(A) /\ Cardinality(A) \in Nat
    BY <1>2 DEF Entries
  <2> HIDE DEF A, x
  <2>3. Cardinality(A \ {x}) = IF x \in A THEN Cardinality(A) - 1 ELSE Cardinality(A)
    BY <2>2, FS_RemoveElement
  <2>4. /\ x \in A => Cardinality(A \ {x}) = Cardinality(A) - 1
        /\ x \notin A => Cardinality(A \ {x}) = Cardinality(A)
    BY ONLY <2>3
  <2>5. Entries = Cardinality(A) /\ Entries' = Cardinality(A \ {x}) /\ (s \in subscribers[t] <=> x \in A)
    BY <2>1 DEF Entries, A, x
  <2> QED  BY ONLY <2>4, <2>5
<1>5. ASSUME subscribers' = [u \in Topics |-> IF u \in T THEN {} ELSE subscribers[u]]
      PROVE  Entries' = Entries - Cardinality(Attached(T))
  <2>1. /\ Attached(Topics)' = Attached(Topics) \ Attached(T)
        /\ Attached(Topics) \cap Attached(T) = Attached(T)
    BY <1>1, <1>5 DEF Attached
  <2> QED  BY <1>2, <2>1, FS_Difference DEF Entries
<1> QED  BY <1>2, <1>3, <1>4, <1>5

\* The same of Topic.Close, also where there are no sessions or topics.
LEMMA EntriesClose ==
  ASSUME TypeOK, NEW T \in SUBSET Topics
  PROVE  /\ Entries \in Nat
         /\ subscribers' = [u \in Topics |-> IF u \in T THEN {} ELSE subscribers[u]]
              => Entries' = Entries - Cardinality(Attached(T))
<1>1. CASE Sessions = {} \/ Topics = {}
  <2>1. Attached(Topics) = {} /\ Attached(Topics)' = {} /\ Attached(T) = {}
    BY <1>1 DEF Attached
  <2>2. Entries = 0 /\ Entries' = 0 /\ Cardinality(Attached(T)) = 0
    BY <2>1, FS_EmptySet DEF Entries
  <2> QED  BY ONLY <2>2
<1>2. CASE \E s \in Sessions, t \in Topics : TRUE
  BY <1>2, EntriesChange
<1> QED  BY <1>1, <1>2

\* A step that leaves the entries, the gauge and the session that holds
\* Manager.mu alone.
LEMMA GaugeAlone ==
  ASSUME SubscriberGaugeOK, NEW s \in Sessions,
         UNCHANGED <<subscribers, activeSubscribers>>,
         pc[s] \notin {"inc", "recount"}, pc'[s] \notin {"inc", "remove", "recount"},
         \A r \in Sessions \ {s} : pc'[r] = pc[r] /\ arg'[r] = arg[r] /\ prev'[r] = prev[r]
  PROVE  SubscriberGaugeOK'
<1>1. Entries' = Entries
  BY DEF Entries, Attached
<1> QED  BY <1>1 DEF SubscriberGaugeOK

\* The gauge and the entries go down together when topics are closed.
LEMMA GaugeClose ==
  ASSUME TypeOK, SubscriberGaugeOK, NEW T \in SUBSET Topics, CloseTopics(T),
         UNCHANGED <<pc, arg, prev>>,
         \A s \in Sessions : pc[s] # "idle" => arg[s] \in Topics
  PROVE  SubscriberGaugeOK'
<1> DEFINE open == {t \in T : ~closed[t]}
           k == Cardinality(Attached(open))
<1>1. open \in SUBSET Topics
  OBVIOUS
<1>2. /\ subscribers' = [u \in Topics |-> IF u \in open THEN {} ELSE subscribers[u]]
      /\ activeSubscribers' = activeSubscribers - k
  BY DEF CloseTopics
<1> HIDE DEF open
<1>3. k \in Nat
  BY <1>1, AttachedCard
<1>4. Entries \in Nat /\ Entries' = Entries - k
  BY <1>1, <1>2, EntriesClose
<1>5. activeSubscribers \in Int /\ prev \in [Sessions -> Nat]
  BY DEF TypeOK
<1>6. ASSUME NEW t \in Topics
      PROVE  /\ Cardinality(subscribers[t]) \in Nat /\ Cardinality(subscribers'[t]) \in Nat
             /\ Cardinality(subscribers'[t]) <= Cardinality(subscribers[t])
  <2>1. Cardinality(subscribers[t]) \in Nat
    BY SubscribersCard
  <2>2. CASE t \in open
    <3>1. subscribers'[t] = {}
      BY <1>2, <2>2
    <3>2. Cardinality(subscribers'[t]) = 0
      BY <3>1, FS_EmptySet
    <3> QED  BY ONLY <2>1, <3>2
  <2>3. CASE t \notin open
    <3>1. subscribers'[t] = subscribers[t]
      BY <1>2, <2>3
    <3>2. Cardinality(subscribers'[t]) = Cardinality(subscribers[t])
      BY ONLY <3>1
    <3> QED  BY ONLY <2>1, <3>2
  <2> QED  BY <2>2, <2>3
<1> HIDE DEF k
<1>7. PICK e \in Nat, f \in Int : e = Entries /\ f = Entries' /\ f = e - k
  BY <1>3, <1>4
<1>8. ASSUME NEW s \in Sessions
      PROVE  /\ pc[s] = "inc" => activeSubscribers' + 1 <= f
             /\ pc[s] = "remove" => Cardinality(subscribers'[arg[s]]) <= prev[s]
             /\ pc[s] = "recount" =>
                  \/ activeSubscribers' <= f
                  \/ activeSubscribers' <= f + 1 /\ Cardinality(subscribers'[arg[s]]) < prev[s]
  <2>1. /\ pc[s] = "inc" => activeSubscribers + 1 <= e
        /\ pc[s] = "remove" => Cardinality(subscribers[arg[s]]) <= prev[s]
        /\ pc[s] = "recount" =>
             \/ activeSubscribers <= e
             \/ activeSubscribers <= e + 1 /\ Cardinality(subscribers[arg[s]]) < prev[s]
    BY <1>7 DEF SubscriberGaugeOK
  <2>2. CASE pc[s] = "idle"
    BY <2>2
  <2>3. CASE pc[s] # "idle"
    <3>1. arg[s] \in Topics /\ prev[s] \in Nat
      BY <1>5, <2>3
    <3> QED  BY ONLY <1>2, <1>3, <1>5, <1>6, <1>7, <2>1, <3>1
  <2> QED  BY <2>2, <2>3
<1>9. ASSUME \A s \in Sessions : pc[s] \notin {"inc", "recount"}
      PROVE  activeSubscribers' <= f
  <2>1. activeSubscribers <= e
    BY <1>7, <1>9 DEF SubscriberGaugeOK
  <2> QED  BY ONLY <1>2, <1>3, <1>5, <1>7, <2>1
<1> QED  BY <1>7, <1>8, <1>9 DEF SubscriberGaugeOK

\* RegisterSubscriber counts what it has added before it gives up Manager.mu,
\* and UnregisterSubscriber what it has removed.
LEMMA NextGauge ==
  Typing /\ LimitOK /\ SubscribersOK /\ SubscriberGaugeOK /\ [Next]_vars => SubscriberGaugeOK'
<1> SUFFICES ASSUME Typing, LimitOK, SubscribersOK, SubscriberGaugeOK, [Next]_vars
             PROVE  SubscriberGaugeOK'
  OBVIOUS
<1>arg. \A s \in Sessions : pc[s] # "idle" => arg[s] \in Topics
  BY DEF Typing, TypeOK, SessionOK
<1>type. /\ pc \in [Sessions -> Steps] /\ prev \in [Sessions -> Nat]
         /\ arg \in [Sessions -> Topics \cup {NoTopic}]
         /\ subscribers \in [Topics -> SUBSET Sessions] /\ activeSubscribers \in Int
  BY DEF Typing, TypeOK
<1>mu. /\ mmu = NoSession => \A r \in Sessions : pc[r] \notin {"add", "inc", "remove", "recount"}
       /\ \A s, r \in Sessions : pc[s] \in {"add", "inc", "remove", "recount"} /\ r # s
            => pc[r] \notin {"add", "inc", "remove", "recount"}
  BY NilAssumption DEF LimitOK
<1>e. Entries \in Nat
  BY EntriesClose DEF Typing
<1>1. ASSUME NEW s \in Sessions, NEW t \in Topics,
             AnnounceRegister(s, t) \/ OnSetup(s, t) \/ PlayCheck(s, t)
      PROVE  SubscriberGaugeOK'
  <2>1. /\ UNCHANGED <<subscribers, activeSubscribers>>
        /\ pc[s] = "idle" /\ pc'[s] \in {"idle", "setStream", "add"}
        /\ \A r \in Sessions \ {s} : pc'[r] = pc[r] /\ arg'[r] = arg[r] /\ prev'[r] = prev[r]
    BY <1>1, <1>type DEF AnnounceRegister, OnSetup, PlayCheck, Idle, Goto, subVars
  <2> QED  BY <2>1, GaugeAlone
<1>2. ASSUME NEW s \in Sessions,
             \/ AnnounceSetStream(s) \/ AnnounceMap(s) \/ OnPacketRTP(s) \/ PublishSend(s)
             \/ PlayMap(s) \/ CloseLookup(s) \/ UnregisterPublisher(s)
      PROVE  SubscriberGaugeOK'
  <2>1. /\ UNCHANGED <<subscribers, activeSubscribers>>
        /\ pc[s] \notin {"inc", "recount"} /\ pc'[s] \notin {"inc", "remove", "recount"}
        /\ \A r \in Sessions \ {s} : pc'[r] = pc[r] /\ arg'[r] = arg[r] /\ prev'[r] = prev[r]
    BY <1>2, <1>type DEF AnnounceSetStream, AnnounceMap, OnPacketRTP, PublishSend, PlayMap,
       CloseLookup, UnregisterPublisher, SessionEnds, Idle, Goto, subVars
  <2> QED  BY <2>1, GaugeAlone
<1>3. ASSUME NEW s \in Sessions, PlayAdd(s) PROVE SubscriberGaugeOK'
  <2>1. /\ pc[s] = "add" /\ arg[s] \in Topics
        /\ pc' = [pc EXCEPT ![s] = "inc"]
        /\ subscribers' = [subscribers EXCEPT ![arg[s]] = @ \cup {s}]
        /\ UNCHANGED <<activeSubscribers, arg, prev>>
    BY <1>3, <1>arg DEF PlayAdd, Goto
  <2>2. s \notin subscribers[arg[s]]
    <3>1. state[s] = "prePlay"
      BY <2>1 DEF SubscribersOK
    <3>2. sessTopic[s] = NoTopic
      BY <3>1 DEF Typing, SessionOK
    <3> QED  BY <2>1, <3>2, NilAssumption DEF SubscribersOK, SubscribersHaveSessions
  <2>3. Entries' = Entries + 1
    BY <2>1, <2>2, EntriesChange DEF Typing
  <2>4. activeSubscribers <= Entries
    BY <1>mu, <2>1 DEF SubscriberGaugeOK
  <2>5. PICK e \in Nat, f \in Nat : e = Entries /\ f = Entries' /\ f = e + 1
    BY <1>e, <2>3
  <2>6. activeSubscribers' + 1 <= f
    BY ONLY <1>type, <2>1, <2>4, <2>5
  <2>7. \A r \in Sessions : pc'[r] \notin {"remove", "recount"}
    BY <1>mu, <1>type, <2>1
  <2>8. pc'[s] = "inc"
    BY <1>type, <2>1
  <2> QED  BY <2>5, <2>6, <2>7, <2>8 DEF SubscriberGaugeOK
<1>4. ASSUME NEW s \in Sessions, PlayInc(s) PROVE SubscriberGaugeOK'
  <2>1. /\ pc[s] = "inc" /\ pc' = [pc EXCEPT ![s] = "mapSub"]
        /\ activeSubscribers' = activeSubscribers + 1 /\ UNCHANGED subscribers
    BY <1>4 DEF PlayInc, Goto
  <2>2. Entries' = Entries
    BY <2>1 DEF Entries, Attached
  <2>3. activeSubscribers + 1 <= Entries
    BY <2>1 DEF SubscriberGaugeOK
  <2>4. activeSubscribers' <= Entries'
    BY <2>1, <2>2, <2>3
  <2>5. \A r \in Sessions : pc'[r] \notin {"inc", "remove", "recount"}
    BY <1>mu, <1>type, <2>1
  <2> QED  BY <2>4, <2>5 DEF SubscriberGaugeOK
<1>5. ASSUME NEW s \in Sessions, UnregCount(s) PROVE SubscriberGaugeOK'
  <2>1. /\ pc[s] = "unregSub" /\ mmu = NoSession /\ arg[s] \in Topics
        /\ UNCHANGED <<subscribers, activeSubscribers>>
        /\ \A r \in Sessions \ {s} : pc'[r] = pc[r] /\ arg'[r] = arg[r] /\ prev'[r] = prev[r]
    BY <1>5, <1>arg, <1>type DEF UnregCount, SessionEnds, Goto
  <2>2. \/ pc'[s] = "idle"
        \/ pc'[s] = "remove" /\ arg'[s] = arg[s] /\ prev'[s] = Cardinality(subscribers[arg[s]])
    BY <1>5, <1>type DEF UnregCount, SessionEnds, Goto
  <2>3. Cardinality(subscribers[arg[s]]) \in Nat
    BY <2>1, SubscribersCard DEF Typing
  <2>4. pc'[s] = "remove" => Cardinality(subscribers'[arg'[s]]) <= prev'[s]
    <3>1. ASSUME pc'[s] = "remove"
          PROVE  Cardinality(subscribers'[arg'[s]]) = prev'[s] /\ prev'[s] \in Nat
      BY <2>1, <2>2, <2>3, <3>1
    <3> QED  BY ONLY <3>1
  <2>5. Entries' = Entries
    BY <2>1 DEF Entries, Attached
  <2>6. activeSubscribers <= Entries
    BY <1>mu, <2>1 DEF SubscriberGaugeOK
  <2>7. \A r \in Sessions : pc'[r] \notin {"inc", "recount"} /\ (pc'[r] = "remove" => r = s)
    BY <1>mu, <2>1, <2>2
  <2> QED  BY <2>1, <2>4, <2>5, <2>6, <2>7 DEF SubscriberGaugeOK
<1>6. ASSUME NEW s \in Sessions, UnregRemove(s) PROVE SubscriberGaugeOK'
  <2>1. /\ pc[s] = "remove" /\ arg[s] \in Topics
        /\ pc' = [pc EXCEPT ![s] = "recount"]
        /\ subscribers' = [subscribers EXCEPT ![arg[s]] = @ \ {s}]
        /\ UNCHANGED <<activeSubscribers, arg, prev>>
    BY <1>6, <1>arg DEF UnregRemove, Goto
  <2>2. /\ activeSubscribers <= Entries
        /\ Cardinality(subscribers[arg[s]]) <= prev[s] /\ prev[s] \in Nat
    BY <1>mu, <1>type, <2>1 DEF SubscriberGaugeOK
  <2>3. \A r \in Sessions : pc'[r] \notin {"inc", "remove"} /\ (pc'[r] = "recount" => r = s)
    BY <1>mu, <1>type, <2>1
  <2>4. pc'[s] = "recount" /\ subscribers'[arg'[s]] = subscribers[arg[s]] \ {s}
    BY <1>type, <2>1
  <2>5. CASE s \in subscribers[arg[s]]
    <3>1. Entries' = Entries - 1
      BY <2>1, <2>5, EntriesChange DEF Typing
    <3> DEFINE n == Cardinality(subscribers[arg[s]])
               m == Cardinality(subscribers'[arg'[s]])
    <3>2. n \in Nat /\ m = n - 1
      <4>1. IsFiniteSet(subscribers[arg[s]]) /\ n \in Nat
        BY <2>1, SubscribersCard DEF Typing
      <4> QED  BY <2>4, <2>5, <4>1, FS_RemoveElement
    <3> HIDE DEF n, m
    <3>3. n <= prev[s] /\ prev'[s] = prev[s]
      BY <2>1, <2>2 DEF n
    <3>4. m < prev'[s]
      BY ONLY <2>2, <3>2, <3>3
    <3>5. PICK e \in Nat, f \in Int : e = Entries /\ f = Entries' /\ f = e - 1
      BY <1>e, <3>1
    <3>6. activeSubscribers' <= f + 1
      BY ONLY <1>type, <2>1, <2>2, <3>5
    <3> QED  BY <2>3, <2>4, <3>4, <3>5, <3>6 DEF SubscriberGaugeOK, m
  <2>6. CASE s \notin subscribers[arg[s]]
    <3>1. Entries' = Entries
      BY <2>1, <2>6, EntriesChange DEF Typing
    <3>2. activeSubscribers' <= Entries'
      BY <2>1, <2>2, <3>1
    <3> QED  BY <2>3, <2>4, <3>2 DEF SubscriberGaugeOK
  <2> QED  BY <2>5, <2>6
<1>7. ASSUME NEW s \in Sessions, UnregRecount(s) PROVE SubscriberGaugeOK'
  <2>1. /\ pc[s] = "recount" /\ arg[s] \in Topics /\ pc' = [pc EXCEPT ![s] = "idle"]
        /\ UNCHANGED subscribers
    BY <1>7, <1>arg DEF UnregRecount, SessionEnds, Goto
  <2>2. /\ Cardinality(subscribers[arg[s]]) < prev[s] => activeSubscribers' = activeSubscribers - 1
        /\ ~(Cardinality(subscribers[arg[s]]) < prev[s]) => activeSubscribers' = activeSubscribers
    BY <1>7 DEF UnregRecount
  <2>3. \/ activeSubscribers <= Entries
        \/ activeSubscribers <= Entries + 1 /\ Cardinality(subscribers[arg[s]]) < prev[s]
    BY <2>1 DEF SubscriberGaugeOK
  <2>4. activeSubscribers' <= Entries
    BY ONLY <1>e, <1>type, <2>2, <2>3
  <2>5. Entries' = Entries
    BY <2>1 DEF Entries, Attached
  <2>6. \A r \in Sessions : pc'[r] \notin {"inc", "remove", "recount"}
    BY <1>mu, <1>type, <2>1
  <2> QED  BY <2>4, <2>5, <2>6 DEF SubscriberGaugeOK
<1>8. ASSUME NEW T \in SUBSET Topics, CloseTopics(T), UNCHANGED <<pc, arg, prev>>
      PROVE  SubscriberGaugeOK'
  BY <1>8, <1>arg, GaugeClose DEF Typing
<1>9. ASSUME NEW t \in Topics, TopicClose(t) PROVE SubscriberGaugeOK'
  BY <1>8, <1>9 DEF TopicClose, sessVars
<1>10. ASSUME Shutdown PROVE SubscriberGaugeOK'
  <2>1. topics \in SUBSET Topics
    BY DEF Typing, TypeOK
  <2> QED  BY <1>8, <1>10, <2>1 DEF Shutdown, sessVars
<1>11. ASSUME UNCHANGED <<subscribers, activeSubscribers, pc, arg, prev>>
       PROVE  SubscriberGaugeOK'
  <2>1. Entries' = Entries
    BY <1>11 DEF Entries, Attached
  <2> QED  BY <1>11, <2>1 DEF SubscriberGaugeOK
<1>12. ASSUME \/ \E t \in Topics : TimerFire(t)
              \/ Signal \/ PubListenerClosed \/ UNCHANGED vars
       PROVE  SubscriberGaugeOK'
  BY <1>11, <1>12 DEF TimerFire, Signal, PubListenerClosed, vars, subVars, sessVars
<1> QED
  BY <1>1, <1>2, <1>3, <1>4, <1>5, <1>6, <1>7, <1>9, <1>10, <1>12
     DEF Next, Start, Continue, TimerStep, ShutdownStep, Ended

\* From below: a removal that Topic.Close has made for UnregisterSubscriber is
\* counted twice, once per topic at most.
Floor == Entries - Cardinality(ClosedTopics)

\* The gauge is one behind before PlayInc.  Where UnregisterSubscriber is going
\* to count a removal, either it has made it or the topic has closed since: the
\* gauge can bear to be lowered once more.
FloorOK ==
  /\ \A s \in Sessions :
       /\ pc[s] = "inc" => activeSubscribers + 1 >= Floor
       /\ pc[s] \in {"remove", "recount"} /\ Cardinality(subscribers[arg[s]]) < prev[s]
            => activeSubscribers - 1 >= Floor
  /\ (\A s \in Sessions : pc[s] # "inc") => activeSubscribers >= Floor

\* The topics that have closed can be counted.
LEMMA ClosedCard ==
  ASSUME TypeOK
  PROVE  IsFiniteSet(ClosedTopics) /\ Cardinality(ClosedTopics) \in Nat
<1>1. ClosedTopics \subseteq Topics
  BY DEF ClosedTopics
<1>2. IsFiniteSet(ClosedTopics)
  BY <1>1, TopicsAssumption, FS_Subset
<1> QED  BY <1>2, FS_CardinalityType

\* A step that leaves the entries, the gauge and the session that holds
\* Manager.mu alone.
LEMMA FloorAlone ==
  ASSUME FloorOK, NEW s \in Sessions,
         UNCHANGED <<subscribers, activeSubscribers, closed>>,
         pc[s] # "inc", pc'[s] \notin {"inc", "remove", "recount"},
         \A r \in Sessions \ {s} : pc'[r] = pc[r] /\ arg'[r] = arg[r] /\ prev'[r] = prev[r]
  PROVE  FloorOK'
<1>1. Floor' = Floor
  BY DEF Floor, Entries, Attached, ClosedTopics
<1> QED  BY <1>1 DEF FloorOK

\* Closing topics takes the same number from the gauge and from the entries, and
\* a topic whose size falls below a len() that was taken before has just closed.
LEMMA FloorClose ==
  ASSUME TypeOK, FloorOK, NEW T \in SUBSET Topics, CloseTopics(T),
         UNCHANGED <<pc, arg, prev>>,
         \A s \in Sessions : pc[s] # "idle" => arg[s] \in Topics,
         \A s, r \in Sessions : pc[s] \in {"remove", "recount"} => pc[r] # "inc"
  PROVE  FloorOK'
<1> DEFINE open == {t \in T : ~closed[t]}
           k == Cardinality(Attached(open))
<1>1. open \in SUBSET Topics
  OBVIOUS
<1>2. /\ subscribers' = [u \in Topics |-> IF u \in open THEN {} ELSE subscribers[u]]
      /\ activeSubscribers' = activeSubscribers - k
  BY DEF CloseTopics
<1>3. /\ ClosedTopics' = ClosedTopics \cup open
      /\ ClosedTopics \cap open = {}
  BY <1>1 DEF CloseTopics, ClosedTopics
<1> HIDE DEF open
<1>4. k \in Nat /\ activeSubscribers \in Int
  BY <1>1, AttachedCard DEF TypeOK
<1>5. Entries \in Nat /\ Entries' = Entries - k
  BY <1>1, <1>2, EntriesClose
<1>6. /\ Cardinality(open) \in Nat /\ (open # {} => Cardinality(open) >= 1)
      /\ Cardinality(ClosedTopics) \in Nat
      /\ Cardinality(ClosedTopics') = Cardinality(ClosedTopics) + Cardinality(open)
  <2>1. IsFiniteSet(open) /\ Cardinality(open) \in Nat
    BY <1>1, TopicsAssumption, FS_Subset, FS_CardinalityType
  <2>2. IsFiniteSet(ClosedTopics) /\ Cardinality(ClosedTopics) \in Nat
    BY ClosedCard
  <2>3. Cardinality(open) = 0 => open = {}
    BY <2>1, FS_EmptySet
  <2>4. Cardinality(ClosedTopics \cup open)
          = Cardinality(ClosedTopics) + Cardinality(open) - Cardinality(ClosedTopics \cap open)
    BY <2>1, <2>2, FS_Union
  <2>5. Cardinality(ClosedTopics \cap open) = 0
    BY <1>3, FS_EmptySet
  <2> QED  BY <1>3, <2>1, <2>2, <2>3, <2>4, <2>5
<1> HIDE DEF k
<1>7. PICK d \in Nat, m \in Int, q \in Int :
        /\ d = Cardinality(open) /\ m = Floor /\ q = Floor' /\ q = m - k - d
        /\ open # {} => d >= 1
  <2>1. /\ Floor = Entries - Cardinality(ClosedTopics)
        /\ Floor' = Entries' - Cardinality(ClosedTopics')
    BY DEF Floor
  <2> QED  BY <1>4, <1>5, <1>6, <2>1
<1>8. ASSUME NEW s \in Sessions
      PROVE  /\ pc[s] = "inc" => activeSubscribers' + 1 >= q
             /\ pc[s] \in {"remove", "recount"} /\ Cardinality(subscribers'[arg[s]]) < prev[s]
                  => activeSubscribers' - 1 >= q
  <2>1. /\ pc[s] = "inc" => activeSubscribers + 1 >= m
        /\ pc[s] \in {"remove", "recount"} /\ Cardinality(subscribers[arg[s]]) < prev[s]
             => activeSubscribers - 1 >= m
        /\ pc[s] \in {"remove", "recount"} => activeSubscribers >= m
    BY <1>7 DEF FloorOK
  <2>2. pc[s] = "inc" => activeSubscribers' + 1 >= q
    BY ONLY <1>2, <1>4, <1>7, <2>1
  <2>3. ASSUME pc[s] \in {"remove", "recount"}, Cardinality(subscribers'[arg[s]]) < prev[s]
        PROVE  activeSubscribers' - 1 >= q
    <3>1. CASE arg[s] \in open
      <4>1. d >= 1 /\ activeSubscribers >= m
        BY <1>7, <2>1, <2>3, <3>1
      <4> QED  BY ONLY <1>2, <1>4, <1>7, <4>1
    <3>2. CASE arg[s] \notin open
      <4>1. subscribers'[arg[s]] = subscribers[arg[s]]
        BY <1>2, <2>3, <3>2
      <4>2. activeSubscribers - 1 >= m
        BY <2>1, <2>3, <4>1
      <4> QED  BY ONLY <1>2, <1>4, <1>7, <4>2
    <3> QED  BY <3>1, <3>2
  <2> QED  BY <2>2, <2>3
<1>9. ASSUME \A s \in Sessions : pc[s] # "inc"
      PROVE  activeSubscribers' >= q
  <2>1. activeSubscribers >= m
    BY <1>7, <1>9 DEF FloorOK
  <2> QED  BY ONLY <1>2, <1>4, <1>7, <2>1
<1> QED  BY <1>7, <1>8, <1>9 DEF FloorOK

\* No step but Topic.Close can leave a removal to be counted twice: between the
\* two len() only the session itself, which holds Manager.mu, changes the map.
LEMMA NextFloor == Typing /\ LimitOK /\ FloorOK /\ [Next]_vars => FloorOK'
<1> SUFFICES ASSUME Typing, LimitOK, FloorOK, [Next]_vars PROVE FloorOK'
  OBVIOUS
<1>arg. \A s \in Sessions : pc[s] # "idle" => arg[s] \in Topics
  BY DEF Typing, TypeOK, SessionOK
<1>type. /\ pc \in [Sessions -> Steps] /\ prev \in [Sessions -> Nat]
         /\ arg \in [Sessions -> Topics \cup {NoTopic}]
         /\ subscribers \in [Topics -> SUBSET Sessions] /\ activeSubscribers \in Int
  BY DEF Typing, TypeOK
<1>mu. /\ mmu = NoSession => \A r \in Sessions : pc[r] \notin {"add", "inc", "remove", "recount"}
       /\ \A s, r \in Sessions : pc[s] \in {"add", "inc", "remove", "recount"} /\ r # s
            => pc[r] \notin {"add", "inc", "remove", "recount"}
  BY NilAssumption DEF LimitOK
<1>f. Entries \in Nat /\ Cardinality(ClosedTopics) \in Nat /\ Floor \in Int
  <2>1. Entries \in Nat /\ Cardinality(ClosedTopics) \in Nat
    BY EntriesClose, ClosedCard DEF Typing
  <2> QED  BY <2>1 DEF Floor
<1>1. ASSUME NEW s \in Sessions, NEW t \in Topics,
             AnnounceRegister(s, t) \/ OnSetup(s, t) \/ PlayCheck(s, t)
      PROVE  FloorOK'
  <2>1. /\ UNCHANGED <<subscribers, activeSubscribers, closed>>
        /\ pc[s] = "idle" /\ pc'[s] \in {"idle", "setStream", "add"}
        /\ \A r \in Sessions \ {s} : pc'[r] = pc[r] /\ arg'[r] = arg[r] /\ prev'[r] = prev[r]
    BY <1>1, <1>type DEF AnnounceRegister, OnSetup, PlayCheck, Idle, Goto, subVars, timeVars
  <2> QED  BY <2>1, FloorAlone
<1>2. ASSUME NEW s \in Sessions,
             \/ AnnounceSetStream(s) \/ AnnounceMap(s) \/ OnPacketRTP(s) \/ PublishSend(s)
             \/ PlayMap(s) \/ CloseLookup(s) \/ UnregisterPublisher(s)
      PROVE  FloorOK'
  <2>1. /\ UNCHANGED <<subscribers, activeSubscribers, closed>>
        /\ pc[s] # "inc" /\ pc'[s] \notin {"inc", "remove", "recount"}
        /\ \A r \in Sessions \ {s} : pc'[r] = pc[r] /\ arg'[r] = arg[r] /\ prev'[r] = prev[r]
    BY <1>2, <1>type DEF AnnounceSetStream, AnnounceMap, OnPacketRTP, PublishSend, PlayMap,
       CloseLookup, UnregisterPublisher, SessionEnds, Idle, Goto, subVars, timeVars
  <2> QED  BY <2>1, FloorAlone
<1>3. ASSUME NEW s \in Sessions, PlayAdd(s) PROVE FloorOK'
  <2>1. /\ pc[s] = "add" /\ arg[s] \in Topics
        /\ pc' = [pc EXCEPT ![s] = "inc"]
        /\ subscribers' = [subscribers EXCEPT ![arg[s]] = @ \cup {s}]
        /\ UNCHANGED <<activeSubscribers, arg, prev, closed>>
    BY <1>3, <1>arg DEF PlayAdd, Goto, timeVars
  <2>2. Floor' <= Floor + 1 /\ Floor' \in Int
    <3>1. ClosedTopics' = ClosedTopics
      BY <2>1 DEF ClosedTopics
    <3>2. CASE s \in subscribers[arg[s]]
      <4>1. subscribers' = subscribers
        BY <1>type, <2>1, <3>2
      <4>2. Floor' = Floor
        BY <3>1, <4>1 DEF Floor, Entries, Attached
      <4> QED  BY ONLY <1>f, <4>2
    <3>3. CASE s \notin subscribers[arg[s]]
      <4>1. Entries' = Entries + 1
        BY <2>1, <3>3, EntriesChange DEF Typing
      <4>2. /\ Floor = Entries - Cardinality(ClosedTopics)
            /\ Floor' = Entries' - Cardinality(ClosedTopics)
        BY <3>1 DEF Floor
      <4> QED  BY ONLY <1>f, <4>1, <4>2
    <3> QED  BY <3>2, <3>3
  <2>3. activeSubscribers >= Floor
    BY <1>mu, <2>1 DEF FloorOK
  <2>4. activeSubscribers' + 1 >= Floor'
    BY ONLY <1>f, <1>type, <2>1, <2>2, <2>3
  <2>5. pc'[s] = "inc" /\ \A r \in Sessions : pc'[r] \notin {"remove", "recount"}
    BY <1>mu, <1>type, <2>1
  <2> QED  BY <2>4, <2>5 DEF FloorOK
<1>4. ASSUME NEW s \in Sessions, PlayInc(s) PROVE FloorOK'
  <2>1. /\ pc[s] = "inc" /\ pc' = [pc EXCEPT ![s] = "mapSub"]
        /\ activeSubscribers' = activeSubscribers + 1 /\ UNCHANGED <<subscribers, closed>>
    BY <1>4 DEF PlayInc, Goto, timeVars
  <2>2. Floor' = Floor
    BY <2>1 DEF Floor, Entries, Attached, ClosedTopics
  <2>3. activeSubscribers + 1 >= Floor
    BY <2>1 DEF FloorOK
  <2>4. activeSubscribers' >= Floor'
    BY <2>1, <2>2, <2>3
  <2>5. \A r \in Sessions : pc'[r] \notin {"inc", "remove", "recount"}
    BY <1>mu, <1>type, <2>1
  <2> QED  BY <2>4, <2>5 DEF FloorOK
<1>5. ASSUME NEW s \in Sessions, UnregCount(s) PROVE FloorOK'
  <2>1. /\ pc[s] = "unregSub" /\ mmu = NoSession /\ arg[s] \in Topics
        /\ UNCHANGED <<subscribers, activeSubscribers, closed>>
        /\ \A r \in Sessions \ {s} : pc'[r] = pc[r]
    BY <1>5, <1>arg, <1>type DEF UnregCount, SessionEnds, Goto, timeVars
  <2>2. \/ pc'[s] = "idle"
        \/ pc'[s] = "remove" /\ arg'[s] = arg[s] /\ prev'[s] = Cardinality(subscribers[arg[s]])
    BY <1>5, <1>type DEF UnregCount, SessionEnds, Goto
  <2>3. Cardinality(subscribers[arg[s]]) \in Nat
    BY <2>1, SubscribersCard DEF Typing
  <2>4. ~(pc'[s] \in {"remove", "recount"} /\ Cardinality(subscribers'[arg'[s]]) < prev'[s])
    <3>1. SUFFICES ASSUME pc'[s] = "remove"
                   PROVE  ~(Cardinality(subscribers'[arg'[s]]) < prev'[s])
      BY <2>2
    <3>2. Cardinality(subscribers'[arg'[s]]) = prev'[s] /\ prev'[s] \in Nat
      BY <2>1, <2>2, <2>3, <3>1
    <3> QED  BY ONLY <3>2
  <2>5. Floor' = Floor
    BY <2>1 DEF Floor, Entries, Attached, ClosedTopics
  <2>6. activeSubscribers >= Floor
    BY <1>mu, <2>1 DEF FloorOK
  <2>7. \A r \in Sessions : pc'[r] # "inc" /\ (pc'[r] \in {"remove", "recount"} => r = s)
    BY <1>mu, <2>1, <2>2
  <2> QED  BY <2>1, <2>4, <2>5, <2>6, <2>7 DEF FloorOK
<1>6. ASSUME NEW s \in Sessions, UnregRemove(s) PROVE FloorOK'
  <2>1. /\ pc[s] = "remove" /\ arg[s] \in Topics
        /\ pc' = [pc EXCEPT ![s] = "recount"]
        /\ subscribers' = [subscribers EXCEPT ![arg[s]] = @ \ {s}]
        /\ UNCHANGED <<activeSubscribers, arg, prev, closed>>
    BY <1>6, <1>arg DEF UnregRemove, Goto, timeVars
  <2>2. /\ activeSubscribers >= Floor
        /\ Cardinality(subscribers[arg[s]]) < prev[s] => activeSubscribers - 1 >= Floor
    BY <1>mu, <2>1 DEF FloorOK
  <2>3. \A r \in Sessions : pc'[r] # "inc" /\ (pc'[r] \in {"remove", "recount"} => r = s)
    BY <1>mu, <1>type, <2>1
  <2>4. ClosedTopics' = ClosedTopics
    BY <2>1 DEF ClosedTopics
  <2>5. CASE s \in subscribers[arg[s]]
    <3>1. Entries' = Entries - 1
      BY <2>1, <2>5, EntriesChange DEF Typing
    <3>2. /\ Floor = Entries - Cardinality(ClosedTopics)
          /\ Floor' = Entries' - Cardinality(ClosedTopics)
      BY <2>4 DEF Floor
    <3>3. Floor' = Floor - 1
      BY ONLY <1>f, <3>1, <3>2
    <3>4. activeSubscribers' - 1 >= Floor' /\ activeSubscribers' >= Floor'
      BY ONLY <1>f, <1>type, <2>1, <2>2, <3>3
    <3> QED  BY <2>3, <3>4 DEF FloorOK
  <2>6. CASE s \notin subscribers[arg[s]]
    <3>1. subscribers' = subscribers
      BY <1>type, <2>1, <2>6
    <3>2. Floor' = Floor
      BY <2>4, <3>1 DEF Floor, Entries, Attached
    <3> QED  BY <2>1, <2>2, <2>3, <3>1, <3>2 DEF FloorOK
  <2> QED  BY <2>5, <2>6
<1>7. ASSUME NEW s \in Sessions, UnregRecount(s) PROVE FloorOK'
  <2>1. /\ pc[s] = "recount" /\ pc' = [pc EXCEPT ![s] = "idle"]
        /\ UNCHANGED <<subscribers, closed>>
    BY <1>7 DEF UnregRecount, SessionEnds, Goto, timeVars
  <2>2. /\ Cardinality(subscribers[arg[s]]) < prev[s] => activeSubscribers' = activeSubscribers - 1
        /\ ~(Cardinality(subscribers[arg[s]]) < prev[s]) => activeSubscribers' = activeSubscribers
    BY <1>7 DEF UnregRecount
  <2>3. /\ activeSubscribers >= Floor
        /\ Cardinality(subscribers[arg[s]]) < prev[s] => activeSubscribers - 1 >= Floor
    BY <1>mu, <2>1 DEF FloorOK
  <2>4. Floor' = Floor
    BY <2>1 DEF Floor, Entries, Attached, ClosedTopics
  <2>5. activeSubscribers' >= Floor'
    BY ONLY <2>2, <2>3, <2>4
  <2>6. \A r \in Sessions : pc'[r] \notin {"inc", "remove", "recount"}
    BY <1>mu, <1>type, <2>1
  <2> QED  BY <2>5, <2>6 DEF FloorOK
<1>8. ASSUME NEW T \in SUBSET Topics, CloseTopics(T), UNCHANGED <<pc, arg, prev>>
      PROVE  FloorOK'
  <2>1. \A s, r \in Sessions : pc[s] \in {"remove", "recount"} => pc[r] # "inc"
    BY <1>mu
  <2> QED  BY <1>8, <1>arg, <2>1, FloorClose DEF Typing
<1>9. ASSUME NEW t \in Topics, TopicClose(t) PROVE FloorOK'
  BY <1>8, <1>9 DEF TopicClose, sessVars
<1>10. ASSUME Shutdown PROVE FloorOK'
  <2>1. topics \in SUBSET Topics
    BY DEF Typing, TypeOK
  <2> QED  BY <1>8, <1>10, <2>1 DEF Shutdown, sessVars
<1>11. ASSUME UNCHANGED <<subscribers, activeSubscribers, closed, pc, arg, prev>>
       PROVE  FloorOK'
  <2>1. Floor' = Floor
    BY <1>11 DEF Floor, Entries, Attached, ClosedTopics
  <2> QED  BY <1>11, <2>1 DEF FloorOK
<1>12. ASSUME \/ \E t \in Topics : TimerFire(t)
              \/ Signal \/ PubListenerClosed \/ UNCHANGED vars
       PROVE  FloorOK'
  BY <1>11, <1>12 DEF TimerFire, Signal, PubListenerClosed, vars, subVars, sessVars, timeVars
<1> QED
  BY <1>1, <1>2, <1>3, <1>4, <1>5, <1>6, <1>7, <1>9, <1>10, <1>12
     DEF Next, Start, Continue, TimerStep, ShutdownStep, Ended

\* Whatever clients do, UnregisterSubscriber and Topic.Close count twice at most
\* one subscriber of a topic; the gauge is never above the maps unless a session
\* may PLAY again.
THEOREM GaugeCorrect == Spec => []GaugeBounds
<1>1. Init => FloorOK /\ SubscriberGaugeOK
  <2> SUFFICES ASSUME Init PROVE FloorOK /\ SubscriberGaugeOK
    OBVIOUS
  <2>1. Attached(Topics) = {} /\ ClosedTopics = {}
    BY DEF Init, Attached, ClosedTopics
  <2>2. Entries = 0 /\ Floor = 0
    BY <2>1, FS_EmptySet DEF Entries, Floor
  <2> QED  BY <2>2 DEF Init, SubscriberGaugeOK, FloorOK
<1>2. Spec => [](LimitOK /\ FloorOK)
  BY <1>1, InitTyping, NextTyping, InitLimit, NextLimit, NextFloor, PTL DEF Spec
<1>3. ASSUME RePlay = FALSE
      PROVE  Spec => []SubscriberGaugeOK
  BY <1>1, <1>3, InitTyping, NextTyping, InitLimit, NextLimit, InitSubscribers,
     NextSubscribers, NextGauge, PTL DEF Spec
<1>4. LimitOK /\ FloorOK => (mmu = NoSession => activeSubscribers >= Floor)
  BY NilAssumption DEF LimitOK, FloorOK
<1>5. LimitOK /\ SubscriberGaugeOK => (mmu = NoSession => activeSubscribers <= Entries)
  BY NilAssumption DEF LimitOK, SubscriberGaugeOK
<1>6. CASE RePlay = FALSE
  <2>1. LimitOK /\ FloorOK /\ SubscriberGaugeOK => GaugeBounds
    BY <1>4, <1>5 DEF GaugeBounds, Entries, Floor
  <2>2. Spec => []SubscriberGaugeOK
    BY <1>3, <1>6
  <2> QED  BY <1>2, <2>1, <2>2, PTL
<1>7. CASE RePlay = TRUE
  <2>1. LimitOK /\ FloorOK => GaugeBounds
    BY <1>4, <1>7 DEF GaugeBounds, Entries, Floor
  <2> QED  BY <1>2, <2>1, PTL
<1> QED  BY <1>6, <1>7, RePlayAssumption

-----------------------------------------------------------------------------
(* Shutdown *)

\* Shutdown runs when every session has ended: then no session claims a topic
\* and none is subscribed, so the layers above leave nothing behind.
LEMMA ShutdownIsClean ==
  ASSUME RePlay = FALSE, Typing, PublisherHandshake, PublisherAccounting,
         StreamOfPublisher, SubscribersOK, Shutdown
  PROVE  CleanShutdown'
<1> USE NilAssumption DEF Typing, TypeOK
<1>1. \A s \in Sessions : pc[s] = "idle" /\ state[s] = "init"
  BY DEF Shutdown, CloseTopics, AllEnded, Idle
<1>2. \A s \in Sessions : Claim(s) = NoTopic /\ sessTopic[s] = NoTopic
  BY <1>1 DEF SessionOK, Claim
<1>3. \A t \in Topics : publisher[t] = NoSession
  BY <1>2 DEF PublisherHandshake
<1>4. \A t \in Topics : stream[t] = NoSession
  BY <1>3 DEF StreamOfPublisher
<1>5. \A t \in Topics : subscribers[t] = {}
  BY <1>1, <1>2 DEF SubscribersOK, SubscribersHaveSessions
<1>6. Published = {}
  BY <1>3 DEF Published
<1>7. publisherCount = 0
  BY <1>6, FS_EmptySet DEF PublisherAccounting
<1>8. UNCHANGED <<publisherCount, publisher, stream, topics>>
  BY DEF Shutdown, CloseTopics, regVars, subVars, timeVars, mapVars,
       sessVars, procVars
<1>9. Published' = {}
  BY <1>3, <1>8 DEF Published
<1>10. \A t \in Topics : subscribers'[t] = {}
  BY <1>5 DEF Shutdown, CloseTopics
<1>11. \A t \in topics : closed'[t]
  BY DEF Shutdown, CloseTopics
<1> QED  BY <1>4, <1>7, <1>8, <1>9, <1>10, <1>11 DEF CleanShutdown

\* Nothing runs after Manager.Shutdown, which leaves the process clean.
LEMMA NextCleanShutdown ==
  ASSUME RePlay = FALSE
  PROVE  /\ Typing /\ PublisherHandshake /\ PublisherAccounting /\ StreamOfPublisher
         /\ SubscribersOK /\ CleanShutdown /\ [Next]_vars
         => CleanShutdown'
<1> SUFFICES ASSUME Typing, PublisherHandshake, PublisherAccounting, StreamOfPublisher,
                    SubscribersOK, CleanShutdown, [Next]_vars
             PROVE  CleanShutdown'
  OBVIOUS
<1>1. CASE Shutdown
  BY <1>1, ShutdownIsClean
<1>2. CASE UNCHANGED vars
  BY <1>2 DEF CleanShutdown, Published, vars, regVars, subVars, timeVars,
       mapVars, sessVars, procVars
<1>3. CASE Signal \/ PubListenerClosed
  BY <1>3 DEF CleanShutdown, Signal, PubListenerClosed
<1>4. ASSUME Running, phase' = phase PROVE CleanShutdown'
  BY <1>4 DEF Running, CleanShutdown
<1>5. ASSUME NEW s \in Sessions, Start(s) \/ Continue(s) PROVE phase' = phase
  BY <1>5 DEF Start, AnnounceRegister, SetPublisher, HasPublisher, OnSetup,
       PlayCheck, SubscriberQuota, OnPacketRTP, CloseLookup,
       Continue, AnnounceSetStream, AnnounceMap, MapSession,
       PublishSend, PlayAdd, PlayInc, PlayMap, UnregisterPublisher,
       CountDown, UnregCount, UnregRemove, UnregRecount, procVars,
       regVars, subVars, timeVars, mapVars, sessVars
<1>6. ASSUME NEW t \in Topics, TimerStep(t) PROVE phase' = phase
  BY <1>6 DEF TimerStep, TimerFire, TopicClose, CloseTopics, procVars, regVars,
       subVars, timeVars, mapVars, sessVars
<1> QED
  BY <1>1, <1>2, <1>3, <1>4, <1>5, <1>6 DEF Next, ShutdownStep, Ended

\* Manager.Shutdown leaves no publisher, stream, subscriber or open topic.
THEOREM ShutdownCorrect ==
  ASSUME RePlay = FALSE
  PROVE  Spec => []CleanShutdown
<1>1. Init => StreamOfPublisher /\ CleanShutdown
  BY NilAssumption DEF Init, StreamOfPublisher, Claim, CleanShutdown
<1> QED
  BY <1>1, InitTyping, NextTyping, InitPublishers, NextHandshake, NextAccounting,
     NextStream, InitSubscribers, NextSubscribers, NextCleanShutdown, PTL DEF Spec
=============================================================================
