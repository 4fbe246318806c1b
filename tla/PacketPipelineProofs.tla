------------------------ MODULE PacketPipelineProofs ------------------------
(***************************************************************************)
(* Proofs about PacketPipeline, for any number of subscribers, every       *)
(* capacity of the queues and any number of packets.                       *)
(*                                                                         *)
(* FlowOK gives the types, the capacities and the counters; ChannelOK the  *)
(* order in Topic.in; SubOrder and FanoutOK what the subscribers have, at  *)
(* every place of the dispatcher's loop.                                   *)
(***************************************************************************)
EXTENDS PacketPipeline, SequenceTheorems, TLAPS

\* Every number in q is below x.
Below(q, x) == \A i \in 1..Len(q) : q[i] < x

\* What Put does to a queue of packets.
LEMMA PutOK ==
  ASSUME NEW m \in Nat, NEW q \in Seq(1..m), NEW p \in 1..m
  PROVE  /\ Put(q, p) \in Seq(1..m) /\ Put(q, p) # <<>>
         /\ Len(q) \in Nat /\ Len(Put(q, p)) = Len(q) + 1
         /\ \A i \in 1..Len(q) : Put(q, p)[i] = q[i]
         /\ Put(q, p)[Len(q) + 1] = p
         /\ Increasing(q) /\ Below(q, p) => Increasing(Put(q, p))
<1>1. /\ Put(q, p) \in Seq(1..m) /\ Put(q, p) # <<>>
      /\ Len(q) \in Nat /\ Len(Put(q, p)) = Len(q) + 1
      /\ \A i \in 1..Len(q) : Put(q, p)[i] = q[i]
      /\ Put(q, p)[Len(q) + 1] = p
  BY AppendProperties, LenProperties DEF Put
<1>2. ASSUME Increasing(q), Below(q, p) PROVE Increasing(Put(q, p))
  <2> SUFFICES ASSUME NEW i \in 1..Len(q) + 1, NEW j \in 1..Len(q) + 1, i < j
               PROVE  Put(q, p)[i] < Put(q, p)[j]
    BY <1>1 DEF Increasing
  <2>0. Len(q) \in Nat
    BY <1>1
  <2>1. i \in 1..Len(q)
    BY <2>0
  <2>2. CASE j = Len(q) + 1
    BY <1>1, <1>2, <2>1, <2>2 DEF Below
  <2>3. CASE j # Len(q) + 1
    <3>1. j \in 1..Len(q)
      BY <2>0, <2>3
    <3> QED  BY <1>1, <1>2, <2>1, <3>1 DEF Increasing
  <2> QED  BY <2>2, <2>3
<1> QED  BY <1>1, <1>2

\* What taking the first packet out does.
LEMMA TakeOK ==
  ASSUME NEW m \in Nat, NEW q \in Seq(1..m), q # <<>>
  PROVE  /\ Len(q) \in Nat \ {0} /\ Head(q) \in 1..m /\ Head(q) = q[1]
         /\ Tail(q) \in Seq(1..m) /\ Len(Tail(q)) = Len(q) - 1
         /\ \A i \in 1..Len(Tail(q)) : i + 1 \in 1..Len(q) /\ Tail(q)[i] = q[i + 1]
         /\ Tail(q) = <<>> <=> Len(q) = 1
         /\ Increasing(q) => /\ Increasing(Tail(q))
                             /\ \A i \in 1..Len(Tail(q)) : Tail(q)[i] > Head(q)
<1>1. Len(q) \in Nat \ {0}
  BY EmptySeq
<1>2. Head(q) \in 1..m /\ Head(q) = q[1]
  BY <1>1, HeadTailProperties
<1>3. /\ Tail(q) \in Seq(1..m) /\ Len(Tail(q)) = Len(q) - 1
      /\ \A i \in 1..Len(Tail(q)) : Tail(q)[i] = q[i + 1]
  BY HeadTailProperties
<1>4. \A i \in 1..Len(Tail(q)) : i + 1 \in 1..Len(q)
  BY <1>1, <1>3
<1>5. Tail(q) = <<>> <=> Len(q) = 1
  <2>1. Tail(q) = <<>> <=> Len(Tail(q)) = 0
    BY <1>3, EmptySeq
  <2> QED  BY <1>1, <1>3, <2>1
<1>6. ASSUME Increasing(q)
      PROVE  Increasing(Tail(q)) /\ \A i \in 1..Len(Tail(q)) : Tail(q)[i] > Head(q)
  <2>1. ASSUME NEW i \in 1..Len(Tail(q)) PROVE Tail(q)[i] > Head(q)
    <3>1. 1 \in 1..Len(q) /\ i + 1 \in 1..Len(q) /\ 1 < i + 1
      BY <1>1, <1>3, <1>4
    <3>2. q[1] < q[i + 1] /\ q[1] \in 1..m /\ q[i + 1] \in 1..m
      BY <1>6, <3>1, ElementOfSeq DEF Increasing
    <3> QED  BY <1>2, <1>3, <3>2
  <2>2. ASSUME NEW i \in 1..Len(Tail(q)), NEW j \in 1..Len(Tail(q)), i < j
        PROVE  Tail(q)[i] < Tail(q)[j]
    <3>1. i + 1 \in 1..Len(q) /\ j + 1 \in 1..Len(q) /\ i + 1 < j + 1
      BY <1>4, <2>2
    <3> QED  BY <1>3, <1>6, <3>1 DEF Increasing
  <2> QED  BY <2>1, <2>2 DEF Increasing
<1> QED  BY <1>1, <1>2, <1>3, <1>4, <1>5, <1>6

\* A receive that does not wait takes the first packet or nothing.
LEMMA EvictOK ==
  ASSUME NEW m \in Nat, NEW q \in Seq(1..m)
  PROVE  /\ Evict(q) \in Seq(1..m)
         /\ Len(q) \in Nat /\ Len(Evict(q)) \in Nat
         /\ Len(Evict(q)) <= Len(q)
         /\ \A c \in Nat \ {0} : Len(q) <= c => Len(Evict(q)) < c
         /\ \A i \in 1..Len(Evict(q)) : i + 1 \in 1..Len(q) /\ Evict(q)[i] = q[i + 1]
         /\ Increasing(q) => Increasing(Evict(q))
<1>1. CASE q = <<>>
  <2>1. Evict(q) = q /\ Len(q) = 0
    BY <1>1, EmptySeq DEF Evict
  <2> QED  BY <2>1
<1>2. CASE q # <<>>
  <2>1. Evict(q) = Tail(q)
    BY <1>2 DEF Evict
  <2> QED  BY <1>2, <2>1, TakeOK
<1> QED  BY <1>1, <1>2

-----------------------------------------------------------------------------
(* Types, capacities and counters *)

\* What the steps of the dispatcher and of the publisher's session say of the
\* loop, of the bounds and of the room that was made.
LoopOK ==
  /\ dpc \in {"recv", "took", "lock", "ended"} => todo = {}
  /\ dpc \in {"evict", "resend"} => cur \in todo
  /\ dpc \in {"took", "lock", "fan", "evict", "resend"} => pkt > 0
  /\ ppc \in {"send", "evict", "resend"} => n > 0
  /\ ppc \in {"write", "publish", "check"} => n < MaxPackets
  /\ ppc \in {"record", "write", "publish"} => received <= 2 * MaxPackets
  /\ ppc = "resend" /\ InCap > 0 => Len(inCh) < InCap
  /\ dpc = "resend" /\ SubCap > 0 => Len(queue[cur]) < SubCap

FlowOK == TypeOK /\ LoopOK /\ CountersBalance

LEMMA FlowInit == Init => FlowOK
<1> SUFFICES ASSUME Init PROVE FlowOK
  OBVIOUS
<1>1. \A S : <<>> \in Seq(S) /\ Len(<<>>) = 0
  BY EmptySeq
<1>2. TypeOK
  BY <1>1, CapAssumption, BoundAssumption DEF Init, TypeOK, PubSteps
<1> QED  BY <1>1, <1>2, CapAssumption, BoundAssumption
         DEF Init, FlowOK, LoopOK, CountersBalance, PubHas, DispHas

\* Whoever balances has dispatched no more than it received.
LEMMA Balanced ==
  \A r, d, l, g, p, h \in Nat : r - d = l + g + p + h => d \in 0..r
OBVIOUS

LEMMA HandsNat == PubHas \in Nat /\ DispHas \in Nat /\ PubHas' \in Nat /\ DispHas' \in Nat
BY DEF PubHas, DispHas

\* A step of the session that touches nothing but its counters.
LEMMA FlowCount ==
  ASSUME FlowOK, UNCHANGED <<n, chanVars, dispVars, subVars>>,
         ppc' \in PubSteps \ {"send", "evict", "resend"},
         received' \in 0..(2 * MaxPackets + 1), dispatched' \in Nat, gone' \in Nat,
         dropped' \in Nat, lost' \in Nat,
         ppc' \in {"record", "write", "publish"} => received' <= 2 * MaxPackets,
         ppc' \in {"write", "publish", "check"} => n < MaxPackets,
         received' + dispatched + gone + PubHas = received + dispatched' + gone' + PubHas'
  PROVE  FlowOK'
<1> USE CapAssumption, BoundAssumption
    DEF FlowOK, pubVars, chanVars, dispVars, subVars, flowVars, countVars
<1>0. /\ Len(inCh) \in Nat /\ Len(inCh') \in Nat /\ UNCHANGED inCh /\ DispHas' = DispHas
      /\ received \in Nat /\ dispatched \in Nat /\ gone \in Nat
      /\ received' \in Nat /\ dispatched' \in Nat /\ gone' \in Nat
  BY LenProperties DEF TypeOK, DispHas
<1>1. received - dispatched = Len(inCh) + gone + PubHas + DispHas
  BY DEF CountersBalance
<1>2. received' - dispatched' = Len(inCh') + gone' + PubHas' + DispHas'
  <2>1. received' + dispatched + gone + PubHas = received + dispatched' + gone' + PubHas'
    OBVIOUS
  <2>2. Len(inCh') = Len(inCh)
    BY ONLY <1>0
  <2>3. PICK p \in Nat, p1 \in Nat, h \in Nat : PubHas = p /\ PubHas' = p1 /\ DispHas = h
    BY DEF PubHas, DispHas
  <2>4. received - dispatched = Len(inCh) + gone + p + h
    BY ONLY <1>1, <2>3
  <2>5. received' + dispatched + gone + p = received + dispatched' + gone' + p1
    BY ONLY <2>1, <2>3
  <2>6. PICK l \in Nat : Len(inCh) = l
    BY <1>0
  <2>7. received - dispatched = l + gone + p + h
    BY ONLY <2>4, <2>6
  <2>8. /\ received \in Nat /\ dispatched \in Nat /\ gone \in Nat
        /\ received' \in Nat /\ dispatched' \in Nat /\ gone' \in Nat
        /\ p \in Nat /\ p1 \in Nat /\ h \in Nat /\ l \in Nat
    BY <1>0
  <2>9. received' - dispatched' = l + gone' + p1 + h
    BY ONLY <2>5, <2>7, <2>8
  <2> QED  BY ONLY <1>0, <2>2, <2>3, <2>6, <2>9
<1>3. dispatched' \in 0..received'
  BY ONLY <1>0, <1>2, HandsNat, Balanced
<1>4. TypeOK'
  BY <1>3 DEF TypeOK, PubSteps
<1>5. LoopOK'
  BY DEF LoopOK, PubSteps
<1> QED  BY <1>2, <1>4, <1>5 DEF CountersBalance

\* The publisher and its session.
LEMMA FlowPublish ==
  ASSUME FlowOK, Publisher \/ Handler
  PROVE  FlowOK'
<1> USE CapAssumption, BoundAssumption
    DEF FlowOK, pubVars, chanVars, dispVars, subVars, flowVars, countVars
<1>0. /\ n \in Nat /\ n \in 0..MaxPackets /\ inCh \in Seq(1..n) /\ Len(inCh) \in Nat
      /\ received \in Nat /\ dispatched \in Nat /\ gone \in Nat /\ lost \in Nat /\ dropped \in Nat
      /\ received \in 0..(2 * MaxPackets + 1) /\ 2 * MaxPackets \in Nat
  BY LenProperties DEF TypeOK
<1>1. CASE OnRecord \/ OnPacketRTP
  <2>1. /\ received' = received + 1 /\ UNCHANGED <<n, chanVars, dispVars, subVars>>
        /\ UNCHANGED <<dropped, lost, dispatched, gone>>
        /\ n < MaxPackets /\ received < 2 * MaxPackets
        /\ ppc = "idle" /\ ppc' \in {"record", "write"}
    BY <1>1 DEF OnRecord, OnPacketRTP, CountReceived, MayStart
  <2>2. PubHas = 0 /\ PubHas' = 1
    BY <2>1 DEF PubHas
  <2>3. received' \in 0..(2 * MaxPackets + 1) /\ received' <= 2 * MaxPackets
    BY <1>0, <2>1
  <2>4. received' + dispatched + gone + PubHas = received + dispatched' + gone' + PubHas'
    BY <1>0, <2>1, <2>2
  <2> QED  BY <1>0, <2>1, <2>3, <2>4, FlowCount DEF PubSteps
<1>2. CASE RecordCounted \/ PacketWritten
  <2>1. /\ dispatched' = dispatched + 1 /\ UNCHANGED <<n, chanVars, dispVars, subVars>>
        /\ UNCHANGED <<dropped, lost, received, gone>>
        /\ <<ppc, ppc'>> \in {<<"record", "idle">>, <<"write", "publish">>}
    BY <1>2 DEF RecordCounted, PacketWritten, CountDispatched
  <2>2. PubHas = 1 /\ PubHas' = 0
    BY <2>1 DEF PubHas
  <2>3. received' + dispatched + gone + PubHas = received + dispatched' + gone' + PubHas'
    BY <1>0, <2>1, <2>2
  <2>4. /\ ppc' \in {"record", "write", "publish"} => received' <= 2 * MaxPackets
        /\ ppc' \in {"write", "publish", "check"} => n < MaxPackets
    BY <2>1 DEF LoopOK
  <2> QED  BY <1>0, <2>1, <2>3, <2>4, FlowCount DEF PubSteps
<1>3. CASE MarshalFails
  BY <1>0, <1>3, FlowCount DEF MarshalFails, PubSteps, PubHas
<1>4. CASE PublishFound
  BY <1>0, <1>4, FlowCount DEF PublishFound, CountReceived, PubSteps, PubHas, LoopOK
<1>5. CASE PublishRefused
  BY <1>0, <1>5, FlowCount DEF PublishRefused, PubSteps, PubHas
<1>6. CASE SendPanics
  BY <1>0, <1>6, FlowCount DEF SendPanics, PubSteps, PubHas
<1>7. CASE PublishCheck
  <2>1. \A q \in Seq(1..n) : q \in Seq(1..n + 1)
    BY <1>0, SeqMonotonic
  <2>2. inCh' \in Seq(1..n') /\ queue' \in [Subs -> Seq(1..n')]
    BY <1>7, <2>1 DEF PublishCheck, TypeOK
  <2>3. n' = n + 1 /\ n' \in 0..MaxPackets
    BY <1>0, <1>7 DEF PublishCheck, LoopOK
  <2>4. TypeOK'
    BY <1>0, <1>7, <2>2, <2>3 DEF PublishCheck, TypeOK, PubSteps
  <2>5. LoopOK'
    BY <1>0, <1>7, <2>3 DEF PublishCheck, LoopOK
  <2>6. CountersBalance'
    BY <1>7 DEF PublishCheck, CountersBalance, PubHas, DispHas
  <2> QED  BY <2>4, <2>5, <2>6
<1>8. ASSUME Send, ppc \in {"send", "resend"}, ppc' = "idle",
             UNCHANGED <<n, open, subVars, countVars>>
      PROVE  FlowOK'
  <2>0. PubHas = 1 /\ PubHas' = 0
    BY <1>8 DEF PubHas
  <2>1. CASE Room(inCh, InCap) /\ inCh' = Put(inCh, n) /\ UNCHANGED dispVars
    <3>1. inCh' \in Seq(1..n') /\ Len(inCh') = Len(inCh) + 1
      BY <1>0, <1>8, <2>1, PutOK DEF LoopOK
    <3>2. Len(inCh) < InCap
      BY <2>1 DEF Room
    <3>3. TypeOK'
      BY <1>0, <1>8, <2>1, <3>1, <3>2 DEF TypeOK, PubSteps
    <3>4. LoopOK'
      BY <1>8, <2>1 DEF LoopOK
    <3>5. DispHas' = DispHas
      BY <2>1 DEF DispHas
    <3>6. CountersBalance'
      <4>1. received - dispatched = Len(inCh) + gone + PubHas + DispHas
        BY DEF CountersBalance
      <4>2. UNCHANGED <<received, dispatched, gone>>
        BY <1>8
      <4>3. received' - dispatched' = Len(inCh') + gone' + PubHas' + DispHas'
        BY ONLY <1>0, <2>0, <3>1, <3>5, <4>1, <4>2, HandsNat
      <4> QED  BY <4>3 DEF CountersBalance
    <3> QED  BY <3>3, <3>4, <3>6
  <2>2. CASE InCap = 0 /\ dpc = "recv" /\ pkt' = n /\ dpc' = "took" /\ UNCHANGED <<inCh, todo, cur>>
    <3>1. n > 0
      BY <1>8 DEF LoopOK
    <3>2. TypeOK'
      BY <1>0, <1>8, <2>2 DEF TypeOK, PubSteps
    <3>3. LoopOK'
      BY <1>8, <2>2, <3>1 DEF LoopOK
    <3>4. DispHas = 0 /\ DispHas' = 1
      BY <2>2 DEF DispHas
    <3>5. CountersBalance'
      BY <1>0, <1>8, <2>0, <2>2, <3>4 DEF CountersBalance
    <3> QED  BY <3>2, <3>3, <3>5
  <2> QED  BY <1>8, <2>1, <2>2 DEF Send
<1>9. CASE PublishSend
  <2>1. CASE Send /\ ppc' = "idle"
    BY <1>8, <1>9, <2>1 DEF PublishSend
  <2>2. CASE ppc' = "evict" /\ UNCHANGED <<inCh, dispVars>>
    <3>1. ppc = "send" /\ UNCHANGED <<n, open, subVars, countVars>>
      BY <1>9 DEF PublishSend
    <3>2. TypeOK' /\ LoopOK'
      BY <2>2, <3>1 DEF TypeOK, LoopOK, PubSteps
    <3>3. CountersBalance'
      BY <2>2, <3>1 DEF CountersBalance, PubHas, DispHas
    <3> QED  BY <3>2, <3>3
  <2> QED  BY <1>9, <2>1, <2>2 DEF PublishSend
<1>10. CASE PublishEvict
  <2>1. /\ inCh' \in Seq(1..n) /\ Len(inCh') \in Nat /\ Len(inCh') <= Len(inCh)
        /\ InCap > 0 => Len(inCh') < InCap
    BY <1>0, <1>10, EvictOK DEF PublishEvict, TypeOK
  <2>2. lost' \in Nat /\ gone' \in Nat /\ gone' = gone + Len(inCh) - Len(inCh')
    BY <1>0, <1>10, <2>1 DEF PublishEvict
  <2>3. TypeOK'
    BY <1>0, <1>10, <2>1, <2>2 DEF PublishEvict, TypeOK, PubSteps
  <2>4. LoopOK'
    BY <1>10, <2>1 DEF PublishEvict, LoopOK
  <2>5. CountersBalance'
    <3>1. PubHas' = PubHas /\ DispHas' = DispHas /\ UNCHANGED <<received, dispatched>>
      BY <1>10 DEF PublishEvict, PubHas, DispHas
    <3>2. received - dispatched = Len(inCh) + gone + PubHas + DispHas
      BY DEF CountersBalance
    <3>3. received' - dispatched' = Len(inCh') + gone' + PubHas' + DispHas'
      BY ONLY <1>0, <2>1, <2>2, <3>1, <3>2, HandsNat
    <3> QED  BY <3>3 DEF CountersBalance
  <2> QED  BY <2>3, <2>4, <2>5
<1>11. CASE PublishResend
  <2>1. CASE Send /\ UNCHANGED countVars
    BY <1>8, <1>11, <2>1 DEF PublishResend
  <2>2. CASE /\ dropped' = dropped + 1 /\ lost' = lost + 1 /\ gone' = gone + 1
             /\ UNCHANGED <<inCh, dispVars, received, dispatched>>
    <3>1. /\ ppc = "resend" /\ ppc' = "idle" /\ UNCHANGED <<n, open, subVars>>
          /\ dropped' \in Nat /\ lost' \in Nat /\ gone' \in Nat
      BY <1>0, <1>11, <2>2 DEF PublishResend
    <3>2. received' + dispatched + gone + PubHas = received + dispatched' + gone' + PubHas'
      BY <1>0, <2>2, <3>1 DEF PubHas
    <3> QED  BY <1>0, <2>2, <3>1, <3>2, FlowCount DEF PubSteps
  <2> QED  BY <1>11, <2>1, <2>2 DEF PublishResend
<1> QED
  BY <1>1, <1>2, <1>3, <1>4, <1>5, <1>6, <1>7, <1>9, <1>10, <1>11 DEF Publisher, Handler

\* A step that gives one subscriber another queue.
LEMMA SetQueue ==
  ASSUME queue \in [Subs -> Seq(1..n)], \A r \in Subs : Len(queue[r]) <= SubCap,
         NEW s \in Subs, NEW q \in Seq(1..n), Len(q) <= SubCap,
         queue' = [queue EXCEPT ![s] = q]
  PROVE  queue' \in [Subs -> Seq(1..n)] /\ \A r \in Subs : Len(queue'[r]) <= SubCap
<1>1. queue' \in [Subs -> Seq(1..n)]
  OBVIOUS
<1>2. \A r \in Subs : queue'[r] = q \/ queue'[r] = queue[r]
  OBVIOUS
<1> QED  BY <1>1, <1>2

\* The dispatcher.
LEMMA FlowDispatcher ==
  ASSUME FlowOK, Dispatcher
  PROVE  FlowOK'
<1> USE CapAssumption
    DEF FlowOK, pubVars, chanVars, dispVars, subVars, flowVars, countVars
<1>0. /\ n \in Nat /\ inCh \in Seq(1..n) /\ Len(inCh) \in Nat
      /\ received \in Nat /\ dispatched \in Nat /\ gone \in Nat /\ lost \in Nat /\ dropped \in Nat
  BY LenProperties DEF TypeOK
<1>1. CASE Receive
  <2>1. /\ inCh' \in Seq(1..n) /\ pkt' \in 1..n /\ Len(inCh') = Len(inCh) - 1 /\ Len(inCh) > 0
    BY <1>0, <1>1, TakeOK DEF Receive
  <2>2. TypeOK'
    <3>1. Len(inCh') <= InCap /\ pkt' \in 0..n
      BY <1>0, <2>1 DEF TypeOK
    <3>2. dpc' = "took" /\ UNCHANGED <<open, pubVars, todo, cur, subVars, countVars>>
      BY <1>1 DEF Receive
    <3> QED  BY <2>1, <3>1, <3>2 DEF TypeOK
  <2>3. LoopOK'
    BY <1>0, <1>1, <2>1 DEF Receive, LoopOK
  <2>4. CountersBalance'
    <3>1. /\ PubHas' = PubHas /\ DispHas = 0 /\ DispHas' = 1
          /\ UNCHANGED <<received, dispatched, gone>>
      BY <1>1 DEF Receive, PubHas, DispHas
    <3>2. received - dispatched = Len(inCh) + gone + PubHas + DispHas
      BY DEF CountersBalance
    <3>3. received' - dispatched' = Len(inCh') + gone' + PubHas' + DispHas'
      BY ONLY <1>0, <2>1, <3>1, <3>2, HandsNat
    <3> QED  BY <3>3 DEF CountersBalance
  <2> QED  BY <2>2, <2>3, <2>4
<1>7. CASE CountTaken
  <2>1. /\ PubHas' = PubHas /\ DispHas = 1 /\ DispHas' = 0 /\ dispatched' = dispatched + 1
        /\ UNCHANGED <<received, gone, inCh>>
    BY <1>7 DEF CountTaken, PubHas, DispHas
  <2>2. received - dispatched = Len(inCh) + gone + PubHas + DispHas
    BY DEF CountersBalance
  <2>3. received' - dispatched' = Len(inCh') + gone' + PubHas' + DispHas'
    BY ONLY <1>0, <2>1, <2>2, HandsNat
  <2>4. dispatched' \in 0..received'
    BY ONLY <1>0, <2>1, <2>2, HandsNat
  <2>5. TypeOK'
    BY <1>7, <2>4 DEF CountTaken, TypeOK
  <2>6. LoopOK'
    BY <1>7 DEF CountTaken, LoopOK
  <2> QED  BY <2>3, <2>5, <2>6 DEF CountersBalance
<1>2. CASE RLock \/ RUnlock \/ DispatcherEnds
  <2>1. CountersBalance'
    BY <1>2 DEF RLock, RUnlock, DispatcherEnds, CountersBalance, PubHas, DispHas
  <2>2. CASE RLock
    BY <2>1, <2>2 DEF RLock, TypeOK, LoopOK
  <2>3. CASE RUnlock
    BY <2>1, <2>3 DEF RUnlock, TypeOK, LoopOK
  <2>4. CASE DispatcherEnds
    BY <2>1, <2>4 DEF DispatcherEnds, TypeOK, LoopOK
  <2> QED  BY <1>2, <2>2, <2>3, <2>4
<1>3. ASSUME NEW s \in todo, Deliver(s), Len(queue[s]) < SubCap, dpc \in {"fan", "resend"},
             UNCHANGED <<pubVars, chanVars, pkt, cur, subs, joined, got, countVars>>
      PROVE  FlowOK'
  <2>1. s \in Subs /\ queue[s] \in Seq(1..n) /\ pkt \in 1..n
    BY <1>3 DEF TypeOK, LoopOK
  <2> DEFINE q == Put(queue[s], pkt)
  <2>2. q \in Seq(1..n) /\ Len(q) = Len(queue[s]) + 1 /\ Len(queue[s]) \in Nat
    <3>1. n \in Nat
      BY <1>0
    <3> QED  BY ONLY <2>1, <3>1, PutOK
  <2>3. TypeOK'
    <3>1. Len(q) <= SubCap
      BY ONLY <1>3, <2>2, CapAssumption
    <3>2. queue' = [queue EXCEPT ![s] = q]
      BY <1>3 DEF Deliver
    <3> HIDE DEF q
    <3>3. queue \in [Subs -> Seq(1..n)] /\ \A r \in Subs : Len(queue[r]) <= SubCap
      BY DEF TypeOK
    <3>4. queue' \in [Subs -> Seq(1..n)] /\ \A r \in Subs : Len(queue'[r]) <= SubCap
      BY ONLY <2>1, <2>2, <3>1, <3>2, <3>3, SetQueue
    <3>5. dpc' = "fan" /\ todo' \subseteq subs
      BY <1>3 DEF Deliver, TypeOK
    <3> QED  BY <1>3, <3>4, <3>5 DEF TypeOK
  <2>4. LoopOK'
    BY <1>3 DEF Deliver, LoopOK
  <2>5. CountersBalance'
    BY <1>3 DEF Deliver, CountersBalance, PubHas, DispHas
  <2> QED  BY <2>3, <2>4, <2>5
<1>4. ASSUME NEW s \in Subs, Fan(s) PROVE FlowOK'
  <2>1. CASE Room(queue[s], SubCap)
    BY <1>3, <1>4, <2>1 DEF Fan, Room
  <2>2. CASE ~Room(queue[s], SubCap)
    <3>1. TypeOK' /\ LoopOK'
      BY <1>4, <2>2 DEF Fan, TypeOK, LoopOK
    <3>2. CountersBalance'
      BY <1>4, <2>2 DEF Fan, CountersBalance, PubHas, DispHas
    <3> QED  BY <3>1, <3>2
  <2> QED  BY <2>1, <2>2
<1>5. CASE FanEvict
  <2>1. cur \in Subs /\ queue[cur] \in Seq(1..n)
    BY DEF TypeOK
  <2>2. /\ Evict(queue[cur]) \in Seq(1..n) /\ Len(Evict(queue[cur])) \in Nat
        /\ Len(queue[cur]) \in Nat
        /\ Len(Evict(queue[cur])) <= Len(queue[cur])
        /\ SubCap > 0 => Len(Evict(queue[cur])) < SubCap
    BY <1>0, <2>1, EvictOK DEF TypeOK
  <2>3. queue' = [queue EXCEPT ![cur] = Evict(queue[cur])] /\ queue'[cur] = Evict(queue[cur])
    BY <1>5, <2>1 DEF FanEvict, TypeOK
  <2>4. (SubCap > 0 => Len(queue'[cur]) < SubCap) /\ lost' \in Nat
    BY <1>0, <1>5, <2>1, <2>2, <2>3 DEF FanEvict, TypeOK
  <2>5. TypeOK'
    BY <1>0, <1>5, <2>1, <2>2, <2>3, <2>4 DEF FanEvict, TypeOK
  <2>6. LoopOK'
    BY <1>5, <2>4 DEF FanEvict, LoopOK
  <2>7. CountersBalance'
    BY <1>5 DEF FanEvict, CountersBalance, PubHas, DispHas
  <2> QED  BY <2>5, <2>6, <2>7
<1>6. CASE FanResend
  <2>1. dpc = "resend" /\ cur \in todo
    BY <1>6 DEF FanResend, LoopOK
  <2>2. CASE Room(queue[cur], SubCap)
    BY <1>3, <1>6, <2>1, <2>2 DEF FanResend, Room
  <2>3. CASE ~Room(queue[cur], SubCap)
    <3>1. /\ todo' = todo \ {cur} /\ dpc' = "fan" /\ dropped' = dropped + 1 /\ lost' = lost + 1
          /\ UNCHANGED <<pubVars, chanVars, pkt, cur, subVars, flowVars>>
      BY <1>6, <2>3 DEF FanResend
    <3>2. TypeOK' /\ LoopOK'
      BY <2>1, <3>1 DEF TypeOK, LoopOK
    <3>3. CountersBalance'
      BY <2>1, <3>1 DEF CountersBalance, PubHas, DispHas
    <3> QED  BY <3>2, <3>3
  <2> QED  BY <2>2, <2>3
<1> QED  BY <1>1, <1>2, <1>4, <1>5, <1>6, <1>7 DEF Dispatcher

\* Subscribers and Close.
LEMMA FlowOthers ==
  ASSUME FlowOK,
         \/ \E s \in Subs : AddSubscriber(s) \/ RemoveSubscriber(s) \/ Dequeue(s)
         \/ Close \/ UNCHANGED vars
  PROVE  FlowOK'
<1> USE CapAssumption
    DEF FlowOK, pubVars, chanVars, dispVars, subVars, flowVars, countVars
<1>0. n \in Nat /\ <<>> \in Seq(1..n) /\ Len(<<>>) = 0
  BY EmptySeq DEF TypeOK
<1>1. CountersBalance'
  BY DEF AddSubscriber, RemoveSubscriber, Dequeue, Close, vars, CountersBalance, PubHas, DispHas
<1>2. ASSUME NEW s \in Subs, AddSubscriber(s) PROVE TypeOK' /\ LoopOK'
  <2>1. Fanned \in 0..n
    BY <1>0 DEF Fanned, TypeOK, LoopOK
  <2> QED  BY <1>0, <1>2, <2>1 DEF AddSubscriber, Unlocked, TypeOK, LoopOK
<1>3. ASSUME NEW s \in Subs, RemoveSubscriber(s) PROVE TypeOK' /\ LoopOK'
  BY <1>0, <1>3 DEF RemoveSubscriber, Unlocked, TypeOK, LoopOK
<1>4. ASSUME NEW s \in Subs, Dequeue(s) PROVE TypeOK' /\ LoopOK'
  <2>1. queue[s] \in Seq(1..n) /\ queue[s] # <<>>
    BY <1>4 DEF Dequeue, TypeOK
  <2>2. /\ Head(queue[s]) \in 1..n /\ Tail(queue[s]) \in Seq(1..n)
        /\ Len(Tail(queue[s])) = Len(queue[s]) - 1 /\ Len(queue[s]) \in Nat
    BY <1>0, <2>1, TakeOK
  <2>3. TypeOK'
    <3>1. queue \in [Subs -> Seq(1..n)] /\ \A r \in Subs : Len(queue[r]) <= SubCap
      BY DEF TypeOK
    <3>2. Len(Tail(queue[s])) <= SubCap
      BY ONLY <2>2, <3>1, CapAssumption, s \in Subs
    <3>3. queue' = [queue EXCEPT ![s] = Tail(queue[s])]
      BY <1>4 DEF Dequeue
    <3>4. queue' \in [Subs -> Seq(1..n)] /\ \A r \in Subs : Len(queue'[r]) <= SubCap
      BY ONLY <2>2, <3>1, <3>2, <3>3, s \in Subs, SetQueue
    <3>5. got' \in [Subs -> 0..n]
      BY <1>0, <1>4, <2>2 DEF Dequeue, TypeOK
    <3>6. UNCHANGED <<pubVars, chanVars, dispVars, subs, joined, countVars>>
      BY <1>4 DEF Dequeue
    <3> QED  BY <3>4, <3>5, <3>6 DEF TypeOK
  <2>4. LoopOK'
    <3>1. UNCHANGED <<pubVars, chanVars, dispVars, countVars>>
      BY <1>4 DEF Dequeue
    <3>2. dpc = "resend" /\ SubCap > 0 => Len(queue'[cur]) < SubCap
      <4> SUFFICES ASSUME dpc = "resend", SubCap > 0 PROVE Len(queue'[cur]) < SubCap
        OBVIOUS
      <4>1. Len(queue[cur]) < SubCap /\ SubCap \in Nat /\ cur \in Subs
        BY DEF LoopOK, TypeOK
      <4>2. CASE cur = s
        <5>1. queue'[cur] = Tail(queue[s])
          BY <1>4, <4>2 DEF Dequeue, TypeOK
        <5> QED  BY <2>2, <4>1, <4>2, <5>1
      <4>3. CASE cur # s
        <5>1. queue'[cur] = queue[cur]
          BY <1>4, <4>1, <4>3 DEF Dequeue, TypeOK
        <5> QED  BY <4>1, <5>1
      <4> QED  BY <4>2, <4>3
    <3> QED  BY <3>1, <3>2 DEF LoopOK
  <2> QED  BY <2>3, <2>4
<1>5. CASE Close
  <2>1. open' \in BOOLEAN
    BY <1>5 DEF Close
  <2>2. queue' \in [Subs -> Seq(1..n')] /\ \A s \in Subs : Len(queue'[s]) <= SubCap
    BY <1>0, <1>5 DEF Close
  <2>3. TypeOK'
    BY <1>5, <2>1, <2>2 DEF Close, Unlocked, TypeOK, LoopOK
  <2>4. LoopOK'
    BY <1>5 DEF Close, Unlocked, LoopOK
  <2> QED  BY <1>1, <2>3, <2>4
<1>6. CASE UNCHANGED vars
  BY <1>1, <1>6 DEF vars, TypeOK, LoopOK
<1> QED  BY <1>1, <1>2, <1>3, <1>4, <1>5, <1>6

LEMMA FlowNext == FlowOK /\ [Next]_vars => FlowOK'
<1> SUFFICES ASSUME FlowOK, [Next]_vars PROVE FlowOK'
  OBVIOUS
<1>1. CASE Publisher \/ Handler
  BY <1>1, FlowPublish
<1>2. CASE Dispatcher
  BY <1>2, FlowDispatcher
<1>3. CASE \E s \in Subs : AddSubscriber(s) \/ RemoveSubscriber(s) \/ Dequeue(s)
  BY <1>3, FlowOthers
<1>4. CASE Close \/ UNCHANGED vars
  BY <1>4, FlowOthers
<1> QED  BY <1>1, <1>2, <1>3, <1>4 DEF Next

\* The queues stay within their capacity, the numbers of the packets within
\* what was published, and the counters are numbers, for every number of
\* subscribers and every capacity.
THEOREM PipelineTypes == Spec => []TypeOK
<1>1. Spec => []FlowOK
  BY FlowInit, FlowNext, PTL DEF Spec
<1>2. FlowOK => TypeOK
  BY DEF FlowOK
<1> QED  BY <1>1, <1>2, PTL

\* What was counted as received and not as dispatched is in the channel or
\* between two counts, or was evicted, given up or refused, for every capacity
\* and however the dispatcher and the drop-oldest branch drain the channel.
THEOREM CountersCorrect == Spec => []CountersBalance
<1>1. Spec => []FlowOK
  BY FlowInit, FlowNext, PTL DEF Spec
<1>2. FlowOK => CountersBalance
  BY DEF FlowOK
<1> QED  BY <1>1, <1>2, PTL

-----------------------------------------------------------------------------
(* The channel *)

\* What is in the channel is newer than what the dispatcher has, and older
\* than what PublishPacket has in hand.
ChannelOrder ==
  /\ Increasing(inCh)
  /\ \A i \in 1..Len(inCh) : inCh[i] > pkt
  /\ ppc \in {"send", "evict", "resend"} => pkt < n /\ Below(inCh, n)

\* With a buffer the newest packet stays until PublishPacket has the next.
NewestOK ==
  InCap > 0 /\ ppc \in {"idle", "record", "write", "publish", "check"} /\ n > 0 =>
    pkt = n \/ (inCh # <<>> /\ inCh[Len(inCh)] = n)

ChannelOK == ChannelOrder /\ NewestOK

LEMMA ChannelNext == FlowOK /\ ChannelOK /\ [Next]_vars => ChannelOK'
<1> SUFFICES ASSUME FlowOK, ChannelOK, [Next]_vars PROVE ChannelOK'
  OBVIOUS
<1> USE DEF ChannelOK, pubVars, chanVars, dispVars, subVars, flowVars, countVars
<1>0. /\ n \in Nat /\ inCh \in Seq(1..n) /\ Len(inCh) \in Nat /\ pkt \in 0..n
      /\ \A i \in 1..Len(inCh) : inCh[i] \in 1..n
      /\ InCap \in Nat /\ Len(inCh) <= InCap
  BY LenProperties, ElementOfSeq, CapAssumption DEF FlowOK, TypeOK
<1>1. CASE PublishCheck
  <2>1. n' = n + 1 /\ ppc' = "send" /\ UNCHANGED <<inCh, pkt>>
    BY <1>1 DEF PublishCheck
  <2>2. pkt' < n' /\ Below(inCh', n')
    BY <1>0, <2>1 DEF Below
  <2> QED  BY <2>1, <2>2 DEF ChannelOrder, NewestOK
<1>2. CASE SendPanics
  BY <1>2 DEF SendPanics, ChannelOrder, NewestOK
<1>3. ASSUME inCh' = Put(inCh, n), ppc \in {"send", "resend"}, ppc' = "idle",
             UNCHANGED <<n, pkt>>
      PROVE  ChannelOK'
  <2>1. n \in 1..n /\ Below(inCh, n) /\ pkt < n
    BY <1>0, <1>3 DEF ChannelOrder
  <2>2. /\ Len(inCh') = Len(inCh) + 1 /\ inCh' # <<>> /\ Increasing(inCh')
        /\ \A i \in 1..Len(inCh) : inCh'[i] = inCh[i]
        /\ inCh'[Len(inCh) + 1] = n
    BY <1>0, <1>3, <2>1, PutOK DEF ChannelOrder
  <2>3. ASSUME NEW i \in 1..Len(inCh') PROVE inCh'[i] > pkt
    <3>1. i \in 1..Len(inCh) \/ i = Len(inCh) + 1
      BY <1>0, <2>2
    <3> QED  BY <1>0, <2>1, <2>2, <3>1 DEF ChannelOrder
  <2> QED  BY <1>3, <2>2, <2>3 DEF ChannelOrder, NewestOK
<1>4. ASSUME Send, ppc \in {"send", "resend"}, ppc' = "idle", UNCHANGED n
      PROVE  ChannelOK'
  <2>1. CASE inCh' = Put(inCh, n) /\ UNCHANGED dispVars
    BY <1>3, <1>4, <2>1
  <2>2. CASE InCap = 0 /\ pkt' = n /\ UNCHANGED inCh
    <3>1. Len(inCh') = 0
      BY <1>0, <2>2
    <3> QED  BY <1>4, <2>2, <3>1 DEF ChannelOrder, NewestOK, Increasing
  <2> QED  BY <1>4, <2>1, <2>2 DEF Send
<1>12. CASE PublishSend
  <2>1. CASE ppc' = "evict" /\ UNCHANGED <<inCh, dispVars>>
    BY <1>12, <2>1 DEF PublishSend, ChannelOrder, NewestOK
  <2> QED  BY <1>4, <1>12, <2>1 DEF PublishSend
<1>5. CASE PublishEvict
  <2>1. /\ ppc' = "resend" /\ UNCHANGED <<n, pkt>> /\ inCh' = Evict(inCh)
        /\ pkt < n /\ Below(inCh, n)
    BY <1>5 DEF PublishEvict, ChannelOrder
  <2>2. /\ Increasing(inCh')
        /\ \A i \in 1..Len(inCh') : i + 1 \in 1..Len(inCh) /\ inCh'[i] = inCh[i + 1]
    BY <1>0, <2>1, EvictOK DEF ChannelOrder
  <2>3. Below(inCh', n)
    BY <2>1, <2>2 DEF Below
  <2>4. \A i \in 1..Len(inCh') : inCh'[i] > pkt
    BY <2>2 DEF ChannelOrder
  <2> QED  BY <2>1, <2>2, <2>3, <2>4 DEF ChannelOrder, NewestOK
<1>6. CASE PublishResend
  <2>1. CASE ~Room(inCh, InCap) /\ UNCHANGED <<inCh, dispVars>>
    <3>1. ~(InCap > 0)
      BY <1>6, <2>1 DEF PublishResend, FlowOK, LoopOK, Room
    <3> QED  BY <1>6, <2>1, <3>1 DEF PublishResend, ChannelOrder, NewestOK
  <2> QED  BY <1>4, <1>6, <2>1 DEF PublishResend
<1>7. CASE Receive
  <2>1. /\ pkt' = Head(inCh) /\ inCh' = Tail(inCh) /\ inCh # <<>> /\ UNCHANGED <<n, ppc>>
    BY <1>7 DEF Receive
  <2>2. /\ Len(inCh) \in Nat \ {0} /\ pkt' = inCh[1] /\ Len(inCh') = Len(inCh) - 1
        /\ \A i \in 1..Len(inCh') : i + 1 \in 1..Len(inCh) /\ inCh'[i] = inCh[i + 1]
        /\ inCh' = <<>> <=> Len(inCh) = 1
        /\ Increasing(inCh') /\ \A i \in 1..Len(inCh') : inCh'[i] > pkt'
    BY <1>0, <2>1, TakeOK DEF ChannelOrder
  <2>3. 1 \in 1..Len(inCh)
    BY <2>2
  <2>4. ChannelOrder'
    <3>1. ppc \in {"send", "evict", "resend"} => pkt' < n /\ Below(inCh', n)
      BY <2>2, <2>3 DEF ChannelOrder, Below
    <3> QED  BY <2>1, <2>2, <3>1 DEF ChannelOrder
  <2>5. ASSUME InCap > 0, ppc \in {"idle", "record", "write", "publish", "check"}, n > 0
        PROVE  pkt' = n \/ (inCh' # <<>> /\ inCh'[Len(inCh')] = n)
    <3>1. inCh[Len(inCh)] = n
      BY <1>0, <2>1, <2>2, <2>3, <2>5 DEF NewestOK, ChannelOrder
    <3>2. CASE Len(inCh) = 1
      BY <2>2, <3>1, <3>2
    <3>3. CASE Len(inCh) # 1
      <4>1. Len(inCh') \in 1..Len(inCh') /\ Len(inCh') + 1 = Len(inCh)
        BY <2>2, <3>3
      <4> QED  BY <2>2, <3>1, <3>3, <4>1
    <3> QED  BY <3>2, <3>3
  <2> QED  BY <2>1, <2>4, <2>5 DEF NewestOK
<1>8. CASE UNCHANGED <<n, ppc, inCh, pkt>>
  BY <1>8 DEF ChannelOrder, NewestOK, Increasing, Below
<1>9. CASE Dispatcher /\ ~Receive
  BY <1>8, <1>9 DEF Dispatcher, CountTaken, RLock, RUnlock, DispatcherEnds, Fan, FanEvict, FanResend
<1>10. CASE Close \/ UNCHANGED vars
  BY <1>8, <1>10 DEF Close, vars
<1>13. CASE /\ UNCHANGED <<n, inCh, pkt>>
            /\ ppc \in {"idle", "record", "write", "publish", "check"}
            /\ ppc' \in {"idle", "record", "write", "publish", "check"}
  BY <1>13 DEF ChannelOrder, NewestOK, Increasing, Below
<1>14. CASE \/ Publisher \/ RecordCounted \/ PacketWritten \/ MarshalFails
            \/ PublishFound \/ PublishRefused
  BY <1>13, <1>14 DEF Publisher, OnRecord, OnPacketRTP, RecordCounted, PacketWritten,
     MarshalFails, PublishFound, PublishRefused, CountReceived, CountDispatched
<1>11. ASSUME NEW s \in Subs, AddSubscriber(s) \/ RemoveSubscriber(s) \/ Dequeue(s)
       PROVE  ChannelOK'
  BY <1>8, <1>11 DEF AddSubscriber, RemoveSubscriber, Dequeue
<1> QED
  BY <1>1, <1>2, <1>5, <1>6, <1>7, <1>9, <1>10, <1>11, <1>12, <1>14 DEF Next, Handler

LEMMA ChannelInit == Init => ChannelOK
<1> SUFFICES ASSUME Init PROVE ChannelOK
  OBVIOUS
<1>1. Len(<<>>) = 0
  BY EmptySeq
<1> QED  BY <1>1 DEF Init, ChannelOK, ChannelOrder, NewestOK, Increasing

\* topic.go:228: with any buffer at all, the packet of a PublishPacket that has
\* returned is in the channel or with the dispatcher, whatever the capacity and
\* however the dispatcher comes between the sends.
THEOREM NewestKeptCorrect ==
  ASSUME InCap > 0
  PROVE  Spec => []NewestKept
<1>1. Spec => [](FlowOK /\ ChannelOK)
  BY FlowInit, FlowNext, ChannelInit, ChannelNext, PTL DEF Spec
<1>2. ChannelOK => NewestKept
  BY DEF ChannelOK, NewestOK, NewestKept
<1> QED  BY <1>1, <1>2, PTL

-----------------------------------------------------------------------------
(* The subscribers *)

\* What s holds is in order, newer than what it has read and no newer than
\* the dispatcher's packet.
Held(s) ==
  /\ Increasing(queue[s]) /\ got[s] <= pkt
  /\ \A i \in 1..Len(queue[s]) : queue[s][i] > got[s] /\ queue[s][i] <= pkt

\* s has not been given the dispatcher's packet.
Ahead(s) == got[s] < pkt /\ Below(queue[s], pkt)

SubOrder ==
  /\ \A s \in subs : Held(s)
  /\ dpc \in {"took", "lock"} => \A s \in subs : Ahead(s)
  /\ \A s \in todo : Ahead(s)

\* Those the loop has visited have the packet.
FanoutOK ==
  dpc \in {"recv", "fan", "evict", "resend"} =>
    \A s \in subs \ todo : joined[s] < pkt => LastGiven(s) = pkt

\* A step that leaves s and the dispatcher's packet alone.
LEMMA SameSub ==
  ASSUME NEW s, UNCHANGED pkt, queue'[s] = queue[s], got'[s] = got[s]
  PROVE  Held(s)' = Held(s) /\ Ahead(s)' = Ahead(s) /\ LastGiven(s)' = LastGiven(s)
BY DEF Held, Ahead, LastGiven, Increasing, Below

LEMMA SubOrderNext ==
  FlowOK /\ ChannelOK /\ SubOrder /\ [Next]_vars => SubOrder'
<1> SUFFICES ASSUME FlowOK, ChannelOK, SubOrder, [Next]_vars PROVE SubOrder'
  OBVIOUS
<1> USE DEF pubVars, chanVars, dispVars, subVars, flowVars, countVars
<1>0. /\ n \in Nat /\ inCh \in Seq(1..n) /\ pkt \in 0..n /\ pkt \in Nat
      /\ subs \subseteq Subs /\ todo \subseteq subs /\ queue \in [Subs -> Seq(1..n)]
      /\ got \in [Subs -> 0..n]
  BY DEF FlowOK, TypeOK
<1>1. ASSUME NEW s \in Subs
      PROVE  /\ queue[s] \in Seq(1..n) /\ Len(queue[s]) \in Nat /\ got[s] \in Nat
             /\ \A i \in 1..Len(queue[s]) : queue[s][i] \in 1..n
  <2>1. queue[s] \in Seq(1..n) /\ got[s] \in 0..n
    BY <1>0
  <2> QED  BY <1>0, <2>1, LenProperties, ElementOfSeq
<1>2. CASE UNCHANGED <<pkt, todo, dpc, subs, queue, got>>
  <2>1. \A s \in subs : Held(s)' = Held(s) /\ Ahead(s)' = Ahead(s)
    BY <1>2, SameSub
  <2> QED  BY <1>0, <1>2, <2>1 DEF SubOrder
<1>15. ASSUME pkt' \in 1..n, pkt' > pkt, UNCHANGED <<subs, queue, got, todo>>, todo = {}
       PROVE  SubOrder'
  <2>1. ASSUME NEW s \in subs PROVE Held(s)' /\ Ahead(s)'
    <3>1. s \in Subs /\ Held(s)
      BY <1>0 DEF SubOrder
    <3>2. \A i \in 1..Len(queue[s]) : queue[s][i] < pkt'
      BY <1>0, <1>1, <1>15, <3>1 DEF Held
    <3>3. got[s] < pkt'
      BY <1>0, <1>1, <1>15, <3>1 DEF Held
    <3>4. \A i \in 1..Len(queue[s]) : queue[s][i] <= pkt'
      BY <1>1, <1>15, <3>1, <3>2
    <3> QED  BY <1>0, <1>1, <1>15, <3>1, <3>2, <3>3, <3>4 DEF Held, Ahead, Below, Increasing
  <2> QED  BY <1>15, <2>1 DEF SubOrder
<1>3. CASE Receive
  <2>1. inCh # <<>> /\ pkt' = Head(inCh) /\ UNCHANGED <<subs, queue, got, todo>> /\ todo = {}
    BY <1>3 DEF Receive, FlowOK, LoopOK
  <2>2. pkt' \in 1..n /\ pkt' > pkt
    <3>1. Len(inCh) \in Nat \ {0} /\ Head(inCh) \in 1..n /\ Head(inCh) = inCh[1]
      BY <1>0, <2>1, TakeOK
    <3>2. inCh[1] > pkt
      BY <3>1 DEF ChannelOK, ChannelOrder
    <3> QED  BY <2>1, <3>1, <3>2
  <2> QED  BY <1>15, <2>1, <2>2
<1>16. CASE CountTaken
  <2>1. UNCHANGED <<pkt, subs, queue, got, todo>> /\ dpc = "took" /\ dpc' = "lock"
    BY <1>16 DEF CountTaken
  <2>2. \A s \in subs : Held(s)' = Held(s) /\ Ahead(s)' = Ahead(s)
    BY <2>1, SameSub
  <2> QED  BY <1>0, <2>1, <2>2 DEF SubOrder
<1>4. CASE RLock
  <2>1. UNCHANGED <<pkt, subs, queue, got>> /\ todo' = subs /\ dpc = "lock" /\ dpc' = "fan"
    BY <1>4 DEF RLock
  <2>2. \A s \in subs : Held(s)' = Held(s) /\ Ahead(s)' = Ahead(s)
    BY <2>1, SameSub
  <2> QED  BY <2>1, <2>2 DEF SubOrder
<1>5. CASE RUnlock \/ DispatcherEnds
  <2>1. UNCHANGED <<pkt, subs, queue, got, todo>> /\ dpc' \notin {"took", "lock"}
    BY <1>5 DEF RUnlock, DispatcherEnds
  <2>2. \A s \in subs : Held(s)' = Held(s) /\ Ahead(s)' = Ahead(s)
    BY <2>1, SameSub
  <2> QED  BY <1>0, <2>1, <2>2 DEF SubOrder
<1>6. ASSUME NEW s \in todo, Deliver(s), UNCHANGED <<pkt, subs, got>>, pkt > 0
      PROVE  SubOrder'
  <2>1. s \in Subs /\ s \in subs /\ Held(s) /\ Ahead(s) /\ pkt \in 1..n
    BY <1>0, <1>6 DEF SubOrder
  <2>2. queue'[s] = Put(queue[s], pkt) /\ \A u \in subs \ {s} : queue'[u] = queue[u]
    BY <1>0, <1>6, <2>1 DEF Deliver
  <2>3. /\ Len(queue'[s]) = Len(queue[s]) + 1 /\ Increasing(queue'[s])
        /\ \A i \in 1..Len(queue[s]) : queue'[s][i] = queue[s][i]
        /\ queue'[s][Len(queue[s]) + 1] = pkt
    BY <1>0, <1>1, <2>1, <2>2, PutOK DEF Held, Ahead
  <2>4. ASSUME NEW i \in 1..Len(queue'[s])
        PROVE  queue'[s][i] > got[s] /\ queue'[s][i] <= pkt
    <3>1. i \in 1..Len(queue[s]) \/ i = Len(queue[s]) + 1
      BY <1>1, <2>1, <2>3
    <3>2. CASE i \in 1..Len(queue[s])
      BY <2>1, <2>3, <3>2 DEF Held
    <3>3. CASE i = Len(queue[s]) + 1
      BY <1>0, <1>1, <2>1, <2>3, <3>3 DEF Ahead
    <3> QED  BY <3>1, <3>2, <3>3
  <2>5. Held(s)'
    BY <1>6, <2>1, <2>3, <2>4 DEF Held
  <2>6. \A u \in subs \ {s} : Held(u)' = Held(u) /\ Ahead(u)' = Ahead(u)
    BY <1>6, <2>2, SameSub
  <2> QED  BY <1>0, <1>6, <2>1, <2>5, <2>6 DEF Deliver, SubOrder
<1>7. ASSUME NEW s \in Subs, Fan(s) PROVE SubOrder'
  <2>1. CASE Room(queue[s], SubCap)
    BY <1>6, <1>7, <2>1 DEF Fan, FlowOK, LoopOK
  <2>2. CASE ~Room(queue[s], SubCap)
    <3>1. UNCHANGED <<pkt, subs, queue, got, todo>> /\ dpc' \notin {"took", "lock"}
      BY <1>7, <2>2 DEF Fan
    <3>2. \A u \in subs : Held(u)' = Held(u) /\ Ahead(u)' = Ahead(u)
      BY <3>1, SameSub
    <3> QED  BY <1>0, <3>1, <3>2 DEF SubOrder
  <2> QED  BY <2>1, <2>2
<1>8. CASE FanEvict
  <2>1. /\ cur \in todo /\ cur \in Subs /\ cur \in subs
        /\ UNCHANGED <<pkt, subs, got, todo, cur>> /\ dpc' \notin {"took", "lock"}
        /\ queue'[cur] = Evict(queue[cur]) /\ \A u \in subs \ {cur} : queue'[u] = queue[u]
    BY <1>0, <1>8 DEF FanEvict, FlowOK, LoopOK
  <2>2. /\ Increasing(queue[cur]) => Increasing(queue'[cur])
        /\ \A i \in 1..Len(queue'[cur]) : /\ i + 1 \in 1..Len(queue[cur])
                                          /\ queue'[cur][i] = queue[cur][i + 1]
    BY <1>0, <1>1, <2>1, EvictOK
  <2>3. Held(cur)' /\ Ahead(cur)'
    BY <2>1, <2>2 DEF SubOrder, Held, Ahead, Below
  <2>4. \A u \in subs \ {cur} : Held(u)' = Held(u) /\ Ahead(u)' = Ahead(u)
    BY <2>1, SameSub
  <2> QED  BY <1>0, <2>1, <2>3, <2>4 DEF SubOrder
<1>9. CASE FanResend
  <2>1. dpc = "resend" /\ cur \in todo /\ pkt > 0
    BY <1>9 DEF FanResend, FlowOK, LoopOK
  <2>2. CASE Room(queue[cur], SubCap)
    BY <1>6, <1>9, <2>1, <2>2 DEF FanResend
  <2>3. CASE ~Room(queue[cur], SubCap)
    <3>1. UNCHANGED <<pkt, subs, queue, got>> /\ todo' \subseteq todo /\ dpc' = "fan"
      BY <1>9, <2>3 DEF FanResend
    <3>2. \A u \in subs : Held(u)' = Held(u) /\ Ahead(u)' = Ahead(u)
      BY <3>1, SameSub
    <3> QED  BY <1>0, <3>1, <3>2 DEF SubOrder
  <2> QED  BY <2>2, <2>3
<1>10. ASSUME NEW s \in Subs, AddSubscriber(s) PROVE SubOrder'
  <2>1. /\ UNCHANGED <<pkt, todo, dpc>> /\ todo = {} /\ subs' = subs \cup {s}
        /\ queue'[s] = <<>> /\ got'[s] = 0
        /\ \A u \in subs \ {s} : queue'[u] = queue[u] /\ got'[u] = got[u]
    BY <1>0, <1>10 DEF AddSubscriber, Unlocked, FlowOK, LoopOK
  <2>2. Len(<<>>) = 0
    BY EmptySeq
  <2>3. Held(s)' /\ (dpc \in {"took", "lock"} => Ahead(s)')
    BY <1>0, <2>1, <2>2 DEF Held, Ahead, Below, Increasing, FlowOK, LoopOK
  <2>4. \A u \in subs \ {s} : Held(u)' = Held(u) /\ Ahead(u)' = Ahead(u)
    BY <2>1, SameSub
  <2> QED  BY <2>1, <2>3, <2>4 DEF SubOrder
<1>11. ASSUME NEW s \in Subs, RemoveSubscriber(s) PROVE SubOrder'
  <2>1. /\ UNCHANGED <<pkt, todo, dpc, got>> /\ todo = {} /\ subs' = subs \ {s}
        /\ \A u \in subs \ {s} : queue'[u] = queue[u]
    BY <1>0, <1>11 DEF RemoveSubscriber, Unlocked, FlowOK, LoopOK
  <2>2. \A u \in subs \ {s} : Held(u)' = Held(u) /\ Ahead(u)' = Ahead(u)
    BY <2>1, SameSub
  <2> QED  BY <2>1, <2>2 DEF SubOrder
<1>12. ASSUME NEW s \in Subs, Dequeue(s) PROVE SubOrder'
  <2>1. /\ s \in subs /\ queue[s] # <<>> /\ UNCHANGED <<pkt, todo, dpc, subs>>
        /\ queue'[s] = Tail(queue[s]) /\ got'[s] = Head(queue[s])
        /\ \A u \in subs \ {s} : queue'[u] = queue[u] /\ got'[u] = got[u]
    BY <1>0, <1>12 DEF Dequeue
  <2>2. /\ 1 \in 1..Len(queue[s]) /\ got'[s] = queue[s][1]
        /\ \A i \in 1..Len(queue'[s]) : i + 1 \in 1..Len(queue[s]) /\ queue'[s][i] = queue[s][i + 1]
        /\ Increasing(queue[s]) => /\ Increasing(queue'[s])
                                   /\ \A i \in 1..Len(queue'[s]) : queue'[s][i] > got'[s]
    <3>1. Len(queue[s]) \in Nat \ {0}
      BY <1>0, <1>1, <2>1, TakeOK
    <3> QED  BY <1>0, <1>1, <2>1, <3>1, TakeOK
  <2>3. Held(s)' /\ (Ahead(s) => Ahead(s)')
    BY <2>1, <2>2 DEF SubOrder, Held, Ahead, Below
  <2>4. \A u \in subs \ {s} : Held(u)' = Held(u) /\ Ahead(u)' = Ahead(u)
    BY <2>1, SameSub
  <2> QED  BY <1>0, <2>1, <2>3, <2>4 DEF SubOrder
<1>13. CASE Close
  BY <1>13 DEF Close, Unlocked, FlowOK, LoopOK, SubOrder
<1>17. ASSUME Send, ppc \in {"send", "resend"}, UNCHANGED <<n, subVars>> PROVE SubOrder'
  <2>1. CASE UNCHANGED dispVars
    BY <1>2, <1>17, <2>1
  <2>2. CASE dpc = "recv" /\ pkt' = n /\ UNCHANGED todo
    <3>1. pkt < n /\ todo = {}
      BY <1>17, <2>2 DEF ChannelOK, ChannelOrder, FlowOK, LoopOK
    <3>2. pkt' \in 1..n /\ pkt' > pkt
      BY <1>0, <2>2, <3>1
    <3> QED  BY <1>15, <1>17, <2>2, <3>1, <3>2
  <2> QED  BY <1>17, <2>1, <2>2 DEF Send
<1>18. CASE PublishSend \/ PublishResend
  BY <1>2, <1>17, <1>18 DEF PublishSend, PublishResend
<1>14. CASE \/ Publisher
            \/ Handler /\ ~(PublishSend \/ PublishResend)
            \/ UNCHANGED vars
  BY <1>2, <1>14 DEF Publisher, Handler, OnRecord, OnPacketRTP, RecordCounted, PacketWritten,
     MarshalFails, PublishFound, CountReceived, CountDispatched, PublishCheck, PublishRefused,
     PublishEvict, SendPanics, vars
<1> QED
  BY <1>3, <1>4, <1>5, <1>7, <1>8, <1>9, <1>10, <1>11, <1>12, <1>13, <1>14, <1>16, <1>18
  DEF Next, Dispatcher

\* Dropping the oldest never reorders or repeats a packet, between any number
\* of subscribers, for every capacity and every interleaving of the publisher,
\* the dispatcher and the readers.
THEOREM InOrderCorrect == Spec => []InOrder
<1>1. Init => SubOrder
  BY DEF Init, SubOrder
<1>2. Spec => [](FlowOK /\ ChannelOK /\ SubOrder)
  BY <1>1, FlowInit, FlowNext, ChannelInit, ChannelNext, SubOrderNext, PTL DEF Spec
<1>3. ChannelOK /\ SubOrder => InOrder
  BY DEF ChannelOK, ChannelOrder, SubOrder, Held, InOrder
<1> QED  BY <1>2, <1>3, PTL

LEMMA FanoutNext ==
  ASSUME SubCap > 0, FlowOK, FanoutOK, [Next]_vars
  PROVE  FanoutOK'
<1> USE DEF pubVars, chanVars, dispVars, subVars, flowVars, countVars
<1>0. /\ n \in Nat /\ pkt \in 0..n /\ subs \subseteq Subs /\ todo \subseteq subs
      /\ queue \in [Subs -> Seq(1..n)] /\ got \in [Subs -> 0..n] /\ joined \in [Subs -> 0..n]
  BY DEF FlowOK, TypeOK
<1>1. CASE UNCHANGED <<pkt, todo, dpc, subs, queue, got, joined>>
  <2>1. \A s \in subs : LastGiven(s)' = LastGiven(s)
    BY <1>1, SameSub
  <2> QED  BY <1>1, <2>1 DEF FanoutOK
<1>2. CASE Receive \/ CountTaken \/ DispatcherEnds
  BY <1>2 DEF Receive, CountTaken, DispatcherEnds, FanoutOK
<1>3. CASE RLock
  BY <1>3 DEF RLock, FanoutOK
<1>4. CASE RUnlock
  <2>1. UNCHANGED <<pkt, todo, subs, queue, got, joined>> /\ dpc = "fan"
    BY <1>4 DEF RUnlock
  <2>2. \A s \in subs : LastGiven(s)' = LastGiven(s)
    BY <2>1, SameSub
  <2> QED  BY <2>1, <2>2 DEF FanoutOK
<1>5. ASSUME NEW s \in todo, Deliver(s), UNCHANGED <<pkt, subs, got, joined>>,
             dpc \in {"fan", "resend"}, pkt > 0
      PROVE  FanoutOK'
  <2>1. s \in Subs /\ queue[s] \in Seq(1..n) /\ pkt \in 1..n
    BY <1>0, <1>5
  <2>2. queue'[s] = Put(queue[s], pkt) /\ \A u \in subs \ {s} : queue'[u] = queue[u]
    BY <1>0, <1>5, <2>1 DEF Deliver
  <2>3. LastGiven(s)' = pkt
    BY <1>0, <2>1, <2>2, PutOK DEF LastGiven
  <2>4. \A u \in subs \ {s} : LastGiven(u)' = LastGiven(u)
    BY <1>5, <2>2, SameSub
  <2> QED  BY <1>5, <2>3, <2>4 DEF Deliver, FanoutOK
<1>6. ASSUME NEW s \in Subs, Fan(s) PROVE FanoutOK'
  <2>1. CASE Room(queue[s], SubCap)
    BY <1>5, <1>6, <2>1 DEF Fan, FlowOK, LoopOK
  <2>2. CASE ~Room(queue[s], SubCap)
    <3>1. UNCHANGED <<pkt, todo, subs, queue, got, joined>> /\ dpc = "fan"
      BY <1>6, <2>2 DEF Fan
    <3>2. \A u \in subs : LastGiven(u)' = LastGiven(u)
      BY <3>1, SameSub
    <3> QED  BY <3>1, <3>2 DEF FanoutOK
  <2> QED  BY <2>1, <2>2
<1>7. CASE FanEvict
  <2>1. /\ cur \in todo /\ UNCHANGED <<pkt, todo, subs, got, joined>> /\ dpc = "evict"
        /\ \A u \in subs \ {cur} : queue'[u] = queue[u]
    BY <1>0, <1>7 DEF FanEvict, FlowOK, LoopOK
  <2>2. \A u \in subs \ todo : LastGiven(u)' = LastGiven(u)
    BY <2>1, SameSub
  <2> QED  BY <2>1, <2>2 DEF FanoutOK
<1>8. CASE FanResend
  <2>1. Room(queue[cur], SubCap) /\ cur \in todo /\ pkt > 0
    BY <1>8 DEF FanResend, FlowOK, LoopOK, Room
  <2> QED  BY <1>5, <1>8, <2>1 DEF FanResend
<1>9. ASSUME NEW s \in Subs, AddSubscriber(s) PROVE FanoutOK'
  <2>1. /\ UNCHANGED <<pkt, todo, dpc>> /\ subs' = subs \cup {s}
        /\ joined'[s] = Fanned /\ dpc \in {"recv", "took", "lock", "ended"}
        /\ \A u \in subs \ {s} : /\ queue'[u] = queue[u] /\ got'[u] = got[u]
                                 /\ joined'[u] = joined[u]
    BY <1>0, <1>9 DEF AddSubscriber, Unlocked
  <2>2. \A u \in subs \ {s} : LastGiven(u)' = LastGiven(u)
    BY <2>1, SameSub
  <2>3. dpc = "recv" => ~(joined'[s] < pkt')
    BY <1>0, <2>1 DEF Fanned
  <2> QED  BY <2>1, <2>2, <2>3 DEF FanoutOK
<1>10. ASSUME NEW s \in Subs, RemoveSubscriber(s) PROVE FanoutOK'
  <2>1. /\ UNCHANGED <<pkt, todo, dpc, got, joined>> /\ subs' = subs \ {s}
        /\ \A u \in subs \ {s} : queue'[u] = queue[u]
    BY <1>0, <1>10 DEF RemoveSubscriber
  <2>2. \A u \in subs \ {s} : LastGiven(u)' = LastGiven(u)
    BY <2>1, SameSub
  <2> QED  BY <2>1, <2>2 DEF FanoutOK
<1>11. ASSUME NEW s \in Subs, Dequeue(s) PROVE FanoutOK'
  <2>1. /\ queue[s] # <<>> /\ UNCHANGED <<pkt, todo, dpc, subs, joined>>
        /\ queue'[s] = Tail(queue[s]) /\ got'[s] = Head(queue[s])
        /\ \A u \in subs \ {s} : queue'[u] = queue[u] /\ got'[u] = got[u]
        /\ queue[s] \in Seq(1..n)
    BY <1>0, <1>11 DEF Dequeue
  <2>2. LastGiven(s)' = LastGiven(s)
    <3>1. /\ Len(queue[s]) \in Nat \ {0} /\ got'[s] = queue[s][1]
          /\ Len(queue'[s]) = Len(queue[s]) - 1
          /\ \A i \in 1..Len(queue'[s]) : queue'[s][i] = queue[s][i + 1]
          /\ queue'[s] = <<>> <=> Len(queue[s]) = 1
      <4> DEFINE q == queue[s]
      <4> SUFFICES /\ Len(q) \in Nat \ {0} /\ Head(q) = q[1] /\ Len(Tail(q)) = Len(q) - 1
                   /\ \A i \in 1..Len(Tail(q)) : Tail(q)[i] = q[i + 1]
                   /\ Tail(q) = <<>> <=> Len(q) = 1
        BY <2>1
      <4> HIDE DEF q
      <4>1. q \in Seq(1..n) /\ q # <<>>
        BY <2>1 DEF q
      <4> QED  BY <1>0, <4>1, TakeOK
    <3>2. CASE Len(queue[s]) = 1
      BY <2>1, <3>1, <3>2 DEF LastGiven
    <3>3. CASE Len(queue[s]) # 1
      <4>1. Len(queue'[s]) \in 1..Len(queue'[s]) /\ Len(queue'[s]) + 1 = Len(queue[s])
        BY <3>1, <3>3
      <4> QED  BY <2>1, <3>1, <3>3, <4>1 DEF LastGiven
    <3> QED  BY <3>2, <3>3
  <2>3. \A u \in subs \ {s} : LastGiven(u)' = LastGiven(u)
    BY <2>1, SameSub
  <2> QED  BY <2>1, <2>2, <2>3 DEF FanoutOK
<1>12. CASE Close
  BY <1>12 DEF Close, FanoutOK
<1>13. CASE \/ Publisher
            \/ Handler /\ ~(PublishSend \/ PublishResend)
            \/ UNCHANGED vars
  BY <1>1, <1>13 DEF Publisher, Handler, OnRecord, OnPacketRTP, RecordCounted, PacketWritten,
     MarshalFails, PublishFound, CountReceived, CountDispatched, PublishCheck, PublishRefused,
     PublishEvict, SendPanics, vars
<1>14. CASE PublishSend \/ PublishResend
  <2>1. CASE UNCHANGED <<dispVars, subVars>>
    BY <1>1, <2>1
  <2>2. CASE dpc' = "took"
    BY <2>2 DEF FanoutOK
  <2> QED  BY <1>14, <2>1, <2>2 DEF PublishSend, PublishResend, Send
<1> QED
  BY <1>2, <1>3, <1>4, <1>6, <1>7, <1>8, <1>9, <1>10, <1>11, <1>12, <1>13, <1>14
  DEF Next, Dispatcher

\* When the dispatcher is back at the channel, every subscriber that was there
\* for the packet was given it, whatever the others' queues held, provided a
\* subscriber has a queue at all.
THEOREM FanoutCorrect ==
  ASSUME SubCap > 0
  PROVE  Spec => []FanoutComplete
<1>1. Init => FanoutOK
  BY DEF Init, FanoutOK
<1>2. FlowOK /\ FanoutOK /\ [Next]_vars => FanoutOK'
  BY FanoutNext
<1>3. Spec => [](FlowOK /\ FanoutOK)
  BY <1>1, <1>2, FlowInit, FlowNext, PTL DEF Spec
<1>4. FlowOK /\ FanoutOK => FanoutComplete
  BY DEF FlowOK, LoopOK, FanoutOK, FanoutComplete
<1> QED  BY <1>3, <1>4, PTL
=============================================================================
