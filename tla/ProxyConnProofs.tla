-------------------------- MODULE ProxyConnProofs --------------------------
(***************************************************************************)
(* Proofs about ProxyConn, for every limit of the peek, every window of    *)
(* the client's socket and any number of pieces.                           *)
(*                                                                         *)
(* TypeOK needs PhaseOK: nothing is answered, lost or handed on before the *)
(* hand-over.  On top of it, each by itself:                               *)
(*   StreamOK  OneGap place by place: which piece of the client's stream   *)
(*             every place of srv, buf, lost and the reader holds          *)
(*   HeadersOK why, when the peek ends before its limit, a whole line that *)
(*             is in the reader comes after the end of a request           *)
(***************************************************************************)
EXTENDS ProxyConn, SequenceTheorems, TLAPS

\* Before the connection is handed over there are no answers, and the server
\* has nothing; afterwards the reader is empty.
PhaseOK ==
  /\ st \in {"peek", "route"} => /\ srv = <<>> /\ lost = <<>>
                                 /\ back = 0 /\ got = 0 /\ down = 0
  /\ st \in {"local", "fwd"} => rbuf = <<>>

\* The n pieces that were read are those of kept with those of left, which
\* come after the first i.
GapAt(kept, left, n, i) ==
  /\ i \in 0..Len(kept) /\ Len(kept) + Len(left) = n
  /\ \A j \in 1..i : kept[j] = j
  /\ \A j \in (i + 1)..Len(kept) : kept[j] = j + Len(left)
  /\ \A j \in 1..Len(left) : left[j] = i + j

\* During the peek the gap is at the end: the reader follows buf.
StreamOK ==
  /\ \E i \in Nat : GapAt(srv \o buf, lost \o rbuf, taken, i)
  /\ st \in {"peek", "route"} => GapAt(buf, rbuf, taken, Len(buf))

\* Below its limit the peek ends either with no whole line in the reader or at
\* the end of a request, which is then the last piece of buf.
HeadersOK ==
  /\ st = "route" /\ Len(buf) < MaxPeek =>
       NoLine \/ (1 <= Len(buf) /\ sent[Len(buf)] = "end")
  /\ HeadersKept

-----------------------------------------------------------------------------
(* Sequences of pieces *)

\* A stretch of the client's stream.
LEMMA SpanOK ==
  ASSUME NEW i \in Nat \ {0}, NEW j \in Nat, i <= j + 1
  PROVE  /\ Span(i, j) \in Seq(1..j) /\ Len(Span(i, j)) = j - i + 1
         /\ \A k \in 1..(j - i + 1) : Span(i, j)[k] = i + k - 1
<1> DEFINE n == j - i + 1
<1>1. n \in Nat
  OBVIOUS
<1>2. Span(i, j) \in [1..n -> 1..j] /\ \A k \in 1..n : Span(i, j)[k] = i + k - 1
  BY DEF Span
<1> HIDE DEF n
<1>3. Span(i, j) \in Seq(1..j) /\ Len(Span(i, j)) = n
  BY <1>1, <1>2
<1> QED  BY <1>2, <1>3 DEF n

\* Two sequences one after the other.
LEMMA JoinOK ==
  ASSUME NEW S, NEW q \in Seq(S), NEW r \in Seq(S)
  PROVE  /\ q \o r \in Seq(S) /\ Len(q) \in Nat /\ Len(r) \in Nat
         /\ Len(q \o r) = Len(q) + Len(r)
         /\ \A k \in 1..Len(q) : (q \o r)[k] = q[k]
         /\ \A k \in (Len(q) + 1)..(Len(q) + Len(r)) : (q \o r)[k] = r[k - Len(q)]
<1>1. Len(q) \in Nat /\ Len(r) \in Nat
  BY LenProperties
<1>2. /\ q \o r \in Seq(S) /\ Len(q \o r) = Len(q) + Len(r)
      /\ \A k \in 1..Len(q) + Len(r) : (q \o r)[k] = IF k <= Len(q) THEN q[k] ELSE r[k - Len(q)]
  BY ConcatProperties
<1>3. \A k \in 1..Len(q) : k \in 1..Len(q) + Len(r) /\ k <= Len(q)
  BY <1>1
<1>4. \A k \in (Len(q) + 1)..(Len(q) + Len(r)) : k \in 1..Len(q) + Len(r) /\ ~(k <= Len(q))
  BY <1>1
<1> QED  BY <1>1, <1>2, <1>3, <1>4

\* A part of a sequence.
LEMMA PartOK ==
  ASSUME NEW S, NEW q \in Seq(S), NEW a \in 1..Len(q) + 1, NEW b \in (a - 1)..Len(q)
  PROVE  /\ SubSeq(q, a, b) \in Seq(S) /\ Len(SubSeq(q, a, b)) = b - a + 1
         /\ \A k \in 1..(b - a + 1) : SubSeq(q, a, b)[k] = q[a + k - 1]
<1>1. Len(q) \in Nat /\ a \in Int /\ b \in Int /\ a - 1 <= b
  BY LenProperties
<1>2. \A k \in a..b : q[k] \in S
  BY <1>1, ElementOfSeq
<1>3. /\ SubSeq(q, a, b) \in Seq(S)
      /\ Len(SubSeq(q, a, b)) = IF a <= b THEN b - a + 1 ELSE 0
      /\ \A k \in 1..(b - a + 1) : SubSeq(q, a, b)[k] = q[a + k - 1]
  BY <1>1, <1>2, SubSeqProperties
<1>4. Len(SubSeq(q, a, b)) = b - a + 1
  BY ONLY <1>1, <1>3
<1> QED  BY <1>3, <1>4

\* A sequence cut in two after its first i elements.
LEMMA SplitOK ==
  ASSUME NEW S, NEW q \in Seq(S), NEW i \in Nat, i <= Len(q)
  PROVE  /\ SubSeq(q, 1, i) \in Seq(S) /\ Len(SubSeq(q, 1, i)) = i
         /\ \A k \in 1..i : SubSeq(q, 1, i)[k] = q[k]
         /\ SubSeq(q, i + 1, Len(q)) \in Seq(S) /\ Len(SubSeq(q, i + 1, Len(q))) = Len(q) - i
         /\ \A k \in 1..(Len(q) - i) : SubSeq(q, i + 1, Len(q))[k] = q[i + k]
<1> DEFINE n == Len(q)
<1>0. n \in Nat /\ i <= n
  BY LenProperties
<1>1. /\ 1 \in 1..Len(q) + 1 /\ i \in (1 - 1)..Len(q)
      /\ i + 1 \in 1..Len(q) + 1 /\ Len(q) \in ((i + 1) - 1)..Len(q)
  BY <1>0
<1> DEFINE p == SubSeq(q, 1, i)
           t == SubSeq(q, i + 1, Len(q))
<1>2. /\ p \in Seq(S) /\ Len(p) = i - 1 + 1
      /\ \A k \in 1..(i - 1 + 1) : p[k] = q[1 + k - 1]
  BY <1>1, PartOK
<1>3. /\ t \in Seq(S) /\ Len(t) = n - (i + 1) + 1
      /\ \A k \in 1..(n - (i + 1) + 1) : t[k] = q[(i + 1) + k - 1]
  BY <1>1, PartOK
<1> HIDE DEF n, p, t
<1>4. i - 1 + 1 = i /\ n - (i + 1) + 1 = n - i /\ n - i \in Nat
  BY ONLY <1>0, i \in Nat
<1>5. \A k \in Nat : 1 + k - 1 = k /\ (i + 1) + k - 1 = i + k
  BY ONLY i \in Nat
<1>6. Len(p) = i /\ Len(t) = n - i
  BY ONLY <1>2, <1>3, <1>4
<1>7. \A k \in 1..i : p[k] = q[k]
  <2> TAKE k \in 1..i
  <2>1. k \in 1..(i - 1 + 1) /\ 1 + k - 1 = k
    BY ONLY <1>4, <1>5, i \in Nat, k \in 1..i
  <2> QED  BY ONLY <1>2, <2>1
<1>8. \A k \in 1..(n - i) : t[k] = q[i + k]
  <2> TAKE k \in 1..(n - i)
  <2>1. k \in 1..(n - (i + 1) + 1) /\ (i + 1) + k - 1 = i + k
    BY ONLY <1>4, <1>5, k \in 1..(n - i)
  <2> QED  BY ONLY <1>3, <2>1
<1> QED  BY <1>2, <1>3, <1>6, <1>7, <1>8 DEF n, p, t

\* The pieces that a sequence refers to are still there when more is read.
LEMMA MoreTaken ==
  ASSUME NEW m \in Nat, NEW n \in Nat, m <= n, NEW q \in Seq(1..m)
  PROVE  q \in Seq(1..n)
<1>1. 1..m \subseteq 1..n
  OBVIOUS
<1> QED  BY <1>1, SeqMonotonic

-----------------------------------------------------------------------------
(* Types *)

ConnOK == TypeOK /\ PhaseOK

\* TypeOK in two parts: the sequences, and the rest.
SeqTypes ==
  /\ sent \in Seq(Kinds) /\ Len(sent) <= MaxSent
  /\ taken \in 0..Len(sent)
  /\ rbuf \in Seq(1..taken) /\ buf \in Seq(1..taken)
  /\ lost \in Seq(1..taken) /\ srv \in Seq(1..taken)
OtherTypes ==
  /\ cEnd \in BOOLEAN /\ sEnd \in {"no", "closed", "reset"}
  /\ st \in {"peek", "route", "local", "fwd", "closed"}
  /\ got \in Nat /\ down \in Nat /\ back \in 0..Window
  /\ buf # <<>> => st # "fwd"

LEMMA TypeParts == TypeOK <=> SeqTypes /\ OtherTypes
BY DEF TypeOK, SeqTypes, OtherTypes

LEMMA InitConn == Init => ConnOK
<1>1. \A S : <<>> \in Seq(S) /\ Len(<<>>) = 0
  BY EmptySeq
<1> SUFFICES ASSUME Init PROVE SeqTypes /\ OtherTypes /\ PhaseOK
  BY TypeParts DEF ConnOK
<1>2. SeqTypes
  BY <1>1, SentAssumption DEF Init, SeqTypes
<1>3. OtherTypes
  <2>1. 0 \in Nat /\ 0 \in 0..Window
    BY WindowAssumption
  <2>2. got = 0 /\ down = 0 /\ back = 0 /\ st = "peek"
    BY DEF Init
  <2>3. cEnd \in BOOLEAN /\ sEnd \in {"no", "closed", "reset"}
    BY DEF Init
  <2> QED  BY <2>1, <2>2, <2>3 DEF OtherTypes
<1>4. PhaseOK
  BY DEF Init, PhaseOK
<1> QED  BY <1>2, <1>3, <1>4

\* What a read from the client's socket appends to q.
LEMMA ReadOK ==
  ASSUME SeqTypes, NEW k \in Arrived, NEW q \in Seq(1..taken)
  PROVE  /\ Len(sent) \in Nat /\ taken \in Nat /\ k \in Nat /\ k \in 0..Len(sent) /\ taken < k
         /\ q \in Seq(1..k) /\ Span(taken + 1, k) \in Seq(1..k)
         /\ q \o Span(taken + 1, k) \in Seq(1..k)
         /\ Len(Span(taken + 1, k)) = k - taken
         /\ \A j \in 1..(k - taken) : Span(taken + 1, k)[j] = taken + j
<1>1. Len(sent) \in Nat /\ taken \in Nat /\ k \in Nat /\ k \in 0..Len(sent) /\ taken < k
  <2>1. Len(sent) \in Nat
    BY LenProperties DEF SeqTypes
  <2> QED  BY <2>1 DEF SeqTypes, Arrived
<1>2. q \in Seq(1..k)
  BY <1>1, MoreTaken
<1>3. /\ Span(taken + 1, k) \in Seq(1..k) /\ Len(Span(taken + 1, k)) = k - taken
      /\ \A j \in 1..(k - taken) : Span(taken + 1, k)[j] = taken + j
  <2>1. /\ Span(taken + 1, k) \in Seq(1..k) /\ Len(Span(taken + 1, k)) = k - (taken + 1) + 1
        /\ \A j \in 1..(k - (taken + 1) + 1) : Span(taken + 1, k)[j] = (taken + 1) + j - 1
    <3>1. taken + 1 \in Nat \ {0} /\ taken + 1 <= k + 1
      BY <1>1
    <3> HIDE DEF Span
    <3> QED  BY <1>1, <3>1, SpanOK
  <2> QED  BY <1>1, <2>1
<1> QED  BY <1>1, <1>2, <1>3, ConcatProperties

\* A step that reads from the client's socket into one of the sequences.
LEMMA SeqRead ==
  ASSUME SeqTypes, NEW k \in Arrived, taken' = k, UNCHANGED <<sent, lost>>,
         \/ rbuf' = rbuf \o Span(taken + 1, k) /\ UNCHANGED <<buf, srv>>
         \/ srv' = srv \o Span(taken + 1, k) /\ UNCHANGED <<buf, rbuf>>
  PROVE  SeqTypes'
<1>0. /\ rbuf \in Seq(1..taken) /\ buf \in Seq(1..taken)
      /\ lost \in Seq(1..taken) /\ srv \in Seq(1..taken)
      /\ sent \in Seq(Kinds) /\ Len(sent) <= MaxSent
  BY DEF SeqTypes
<1>1. \A q \in Seq(1..taken) : q \in Seq(1..k) /\ q \o Span(taken + 1, k) \in Seq(1..k)
  BY ReadOK
<1>2. k \in 0..Len(sent)
  BY <1>0, ReadOK
<1>3. /\ rbuf' \in Seq(1..k) /\ buf' \in Seq(1..k)
      /\ lost' \in Seq(1..k) /\ srv' \in Seq(1..k)
  BY <1>0, <1>1
<1> QED  BY <1>0, <1>2, <1>3 DEF SeqTypes

\* Every step keeps the sequences within what has been read.
LEMMA NextSeqTypes == ConnOK /\ [Next]_vars => SeqTypes'
<1> SUFFICES ASSUME ConnOK, [Next]_vars PROVE SeqTypes'
  OBVIOUS
<1>0. SeqTypes
  BY TypeParts DEF ConnOK
<1>q. /\ rbuf \in Seq(1..taken) /\ buf \in Seq(1..taken)
      /\ lost \in Seq(1..taken) /\ srv \in Seq(1..taken)
      /\ Len(rbuf) \in Nat /\ Len(buf) \in Nat /\ Len(sent) \in Nat /\ taken \in Nat
  <2>1. /\ rbuf \in Seq(1..taken) /\ buf \in Seq(1..taken)
        /\ lost \in Seq(1..taken) /\ srv \in Seq(1..taken) /\ sent \in Seq(Kinds)
    BY <1>0 DEF SeqTypes
  <2>2. Len(rbuf) \in Nat /\ Len(buf) \in Nat /\ Len(sent) \in Nat
    BY <2>1, LenProperties
  <2> QED  BY <1>0, <2>1, <2>2 DEF SeqTypes
<1>1. ASSUME NEW k \in Kinds, Write(k) PROVE SeqTypes'
  <2>1. sent' \in Seq(Kinds) /\ Len(sent') = Len(sent) + 1
    BY <1>0, <1>1, AppendProperties DEF SeqTypes, Write
  <2>2. Len(sent) < MaxSent /\ UNCHANGED <<taken, rbuf, buf, lost, srv>>
    BY <1>1 DEF Write, upVars
  <2>3. Len(sent') <= MaxSent /\ taken \in 0..Len(sent')
    BY <1>0, <1>q, <2>1, <2>2, SentAssumption DEF SeqTypes
  <2> QED  BY <1>0, <2>1, <2>2, <2>3 DEF SeqTypes
<1>2. ASSUME PeekFill PROVE SeqTypes'
  <2>1. PICK k \in Arrived : rbuf' = rbuf \o Span(taken + 1, k) /\ taken' = k
    BY <1>2 DEF PeekFill
  <2>2. UNCHANGED <<sent, buf, lost, srv>>
    BY <1>2 DEF PeekFill, clientVars
  <2> QED  BY <1>0, <2>1, <2>2, SeqRead
<1>3. ASSUME PeekLine PROVE SeqTypes'
  <2>1. PICK i \in 1..Len(rbuf) : /\ buf' = buf \o SubSeq(rbuf, 1, i)
                                  /\ rbuf' = SubSeq(rbuf, i + 1, Len(rbuf))
    BY <1>3 DEF PeekLine
  <2>2. SubSeq(rbuf, 1, i) \in Seq(1..taken) /\ SubSeq(rbuf, i + 1, Len(rbuf)) \in Seq(1..taken)
    <3>1. i \in Nat /\ i <= Len(rbuf)
      BY <1>q
    <3> QED  BY <1>q, <3>1, SplitOK
  <2>3. buf' \in Seq(1..taken)
    BY <1>q, <2>1, <2>2, ConcatProperties
  <2>4. UNCHANGED <<sent, taken, lost, srv>>
    BY <1>3 DEF PeekLine, clientVars
  <2> QED  BY <1>0, <2>1, <2>2, <2>3, <2>4 DEF SeqTypes
<1>4. ASSUME Route PROVE SeqTypes'
  <2>1. <<>> \in Seq(1..taken)
    BY EmptySeq
  <2>2. /\ UNCHANGED <<sent, taken>> /\ lost' = rbuf /\ rbuf' = <<>>
        /\ (srv' = buf /\ buf' = <<>>) \/ UNCHANGED <<srv, buf>>
    BY <1>4 DEF Route, HandOver, clientVars
  <2> QED  BY <1>0, <2>1, <2>2 DEF SeqTypes
<1>5. ASSUME LocalRead PROVE SeqTypes'
  <2>1. UNCHANGED <<sent, rbuf, lost>>
    BY <1>5 DEF LocalRead, clientVars
  <2>2. CASE buf # <<>>
    <3>1. PICK k \in 1..Len(buf) : /\ srv' = srv \o SubSeq(buf, 1, k)
                                   /\ buf' = SubSeq(buf, k + 1, Len(buf))
                                   /\ UNCHANGED taken
      BY <1>5, <2>2 DEF LocalRead
    <3>2. SubSeq(buf, 1, k) \in Seq(1..taken) /\ SubSeq(buf, k + 1, Len(buf)) \in Seq(1..taken)
      <4>1. k \in Nat /\ k <= Len(buf)
        BY <1>q
      <4> QED  BY <1>q, <4>1, SplitOK
    <3>3. srv' \in Seq(1..taken)
      BY <1>q, <3>1, <3>2, ConcatProperties
    <3> QED  BY <1>0, <2>1, <3>1, <3>2, <3>3 DEF SeqTypes
  <2>3. CASE buf = <<>>
    <3>1. PICK k \in Arrived : /\ srv' = srv \o Span(taken + 1, k) /\ taken' = k
                               /\ UNCHANGED buf
      BY <1>5, <2>3 DEF LocalRead
    <3> QED  BY <1>0, <2>1, <3>1, SeqRead
  <2> QED  BY <2>2, <2>3
<1>6. ASSUME CopyUp PROVE SeqTypes'
  <2>1. PICK k \in Arrived : srv' = srv \o Span(taken + 1, k) /\ taken' = k
    BY <1>6 DEF CopyUp
  <2>2. UNCHANGED <<sent, rbuf, buf, lost>>
    BY <1>6 DEF CopyUp, clientVars
  <2> QED  BY <1>0, <2>1, <2>2, SeqRead
<1>7. ASSUME \/ ClientReads \/ ClientEnds \/ PeekStops \/ DialFails \/ Answer
             \/ ServerEnds \/ LocalEnds \/ CopyDown \/ CopyEnds \/ UNCHANGED vars
      PROVE  SeqTypes'
  <2>1. UNCHANGED <<sent, upVars>>
    BY <1>7 DEF ClientReads, ClientEnds, PeekStops, DialFails, Answer, ServerEnds, LocalEnds,
       CopyDown, CopyEnds, vars, clientVars
  <2> QED  BY <1>0, <2>1 DEF SeqTypes, upVars
<1> QED  BY <1>1, <1>2, <1>3, <1>4, <1>5, <1>6, <1>7 DEF Next

\* Every step keeps the flags and the counters of the answers in their range,
\* and what holds before and after the hand-over.
LEMMA NextOtherTypes == ConnOK /\ [Next]_vars => OtherTypes' /\ PhaseOK'
<1> SUFFICES ASSUME ConnOK, [Next]_vars PROVE OtherTypes' /\ PhaseOK'
  OBVIOUS
<1>0. OtherTypes /\ PhaseOK
  BY TypeParts DEF ConnOK
<1> USE <1>0, WindowAssumption DEF OtherTypes, PhaseOK, clientVars, upVars, downVars
<1>1. ASSUME NEW k \in Kinds, Write(k) PROVE OtherTypes' /\ PhaseOK'
  BY <1>1 DEF Write
<1>2. ASSUME ClientReads \/ ClientEnds PROVE OtherTypes' /\ PhaseOK'
  <2>1. CASE ClientReads
    <3>1. /\ back > 0 /\ back' = back - 1 /\ got' = got + 1
          /\ UNCHANGED <<cEnd, sEnd, st, down, buf, srv, lost, rbuf>>
      BY <2>1 DEF ClientReads
    <3>2. back' \in 0..Window /\ got' \in Nat /\ back # 0
      BY ONLY <3>1, back \in 0..Window, got \in Nat, WindowAssumption
    <3> QED  BY <3>1, <3>2
  <2>2. CASE ClientEnds
    BY <2>2 DEF ClientEnds
  <2> QED  BY <1>2, <2>1, <2>2
<1>3. ASSUME PeekFill \/ PeekStops PROVE OtherTypes' /\ PhaseOK'
  BY <1>3 DEF PeekFill, PeekStops
<1>4. ASSUME PeekLine PROVE OtherTypes' /\ PhaseOK'
  <2>1. /\ st = "peek" /\ st' \in {"peek", "route"}
        /\ UNCHANGED <<clientVars, lost, srv, downVars, sEnd>>
    BY <1>4 DEF PeekLine
  <2> QED  BY <2>1
<1>5. ASSUME Route PROVE OtherTypes' /\ PhaseOK'
  BY <1>5 DEF Route, HandOver
<1>6. ASSUME DialFails PROVE OtherTypes' /\ PhaseOK'
  BY <1>6 DEF DialFails
<1>7. ASSUME LocalRead PROVE OtherTypes' /\ PhaseOK'
  <2>1. st = "local" /\ UNCHANGED <<clientVars, rbuf, lost, downVars, st, sEnd>>
    BY <1>7 DEF LocalRead
  <2> QED  BY <2>1
<1>8. ASSUME Answer PROVE OtherTypes' /\ PhaseOK'
  BY <1>8 DEF Answer
<1>9. ASSUME ServerEnds \/ LocalEnds PROVE OtherTypes' /\ PhaseOK'
  BY <1>9 DEF ServerEnds, LocalEnds
<1>10. ASSUME CopyUp PROVE OtherTypes' /\ PhaseOK'
  BY <1>10 DEF CopyUp
<1>11. ASSUME CopyDown \/ CopyEnds PROVE OtherTypes' /\ PhaseOK'
  BY <1>11 DEF CopyDown, CopyEnds
<1>12. ASSUME UNCHANGED vars PROVE OtherTypes' /\ PhaseOK'
  BY <1>12 DEF vars
<1> QED
  BY <1>1, <1>2, <1>3, <1>4, <1>5, <1>6, <1>7, <1>8, <1>9, <1>10, <1>11, <1>12 DEF Next

LEMMA NextConn == ConnOK /\ [Next]_vars => ConnOK'
<1>1. SeqTypes' /\ OtherTypes' => TypeOK'
  BY TypeParts, PTL
<1> QED  BY <1>1, NextSeqTypes, NextOtherTypes DEF ConnOK

\* The buffers of a connection hold only pieces that were read from it, the
\* window of the client's socket is respected (the 503 of a failed dial
\* included), and a forwarded connection has nothing left in buf.
THEOREM ConnTypes == Spec => []TypeOK
<1>1. Spec => []ConnOK
  BY InitConn, NextConn, PTL DEF Spec
<1> QED  BY <1>1, PTL DEF ConnOK

-----------------------------------------------------------------------------
(* The stream *)

\* Put back into the gap, what is left makes the stream whole.
LEMMA GapWhole ==
  ASSUME NEW n \in Nat, NEW kept \in Seq(1..n), NEW left \in Seq(1..n), NEW i,
         GapAt(kept, left, n, i)
  PROVE  SubSeq(kept, 1, i) \o left \o SubSeq(kept, i + 1, Len(kept)) = Span(1, n)
<1>0. Len(kept) \in Nat /\ Len(left) \in Nat
  BY LenProperties
<1>1. i \in Nat /\ i <= Len(kept) /\ Len(kept) + Len(left) = n
  BY <1>0 DEF GapAt
<1> DEFINE p == SubSeq(kept, 1, i)
           t == SubSeq(kept, i + 1, Len(kept))
           d == Len(left)
<1>2. p \in Seq(1..n) /\ Len(p) = i /\ \A k \in 1..i : p[k] = kept[k]
  BY <1>1, SplitOK
<1>3. t \in Seq(1..n) /\ Len(t) = Len(kept) - i /\ \A k \in 1..(Len(kept) - i) : t[k] = kept[i + k]
  BY <1>1, SplitOK
<1> HIDE DEF p, t
<1>4. /\ p \o left \in Seq(1..n) /\ Len(p \o left) = i + d
      /\ \A k \in 1..i : (p \o left)[k] = p[k]
      /\ \A k \in (i + 1)..(i + d) : (p \o left)[k] = left[k - i]
  <2>1. /\ p \o left \in Seq(1..n) /\ Len(p \o left) = Len(p) + Len(left)
        /\ \A k \in 1..Len(p) : (p \o left)[k] = p[k]
        /\ \A k \in (Len(p) + 1)..(Len(p) + Len(left)) : (p \o left)[k] = left[k - Len(p)]
    <3>1. p \in Seq(1..n) /\ left \in Seq(1..n)
      BY <1>2
    <3> QED  BY ONLY <3>1, JoinOK
  <2> QED  BY <1>2, <2>1
<1> DEFINE q == p \o left
           w == q \o t
<1> HIDE DEF q
<1>5. /\ w \in Seq(1..n) /\ Len(w) = n
      /\ \A k \in 1..(i + d) : w[k] = q[k]
      /\ \A k \in (i + d + 1)..n : w[k] = t[k - (i + d)]
  <2>1. q \in Seq(1..n) /\ Len(q) = i + d
    BY <1>4 DEF q
  <2>2. /\ w \in Seq(1..n) /\ Len(w) = Len(q) + Len(t)
        /\ \A k \in 1..Len(q) : w[k] = q[k]
        /\ \A k \in (Len(q) + 1)..(Len(q) + Len(t)) : w[k] = t[k - Len(q)]
    <3>1. q \in Seq(1..n) /\ t \in Seq(1..n)
      BY <1>3, <2>1
    <3> QED  BY ONLY <3>1, JoinOK
  <2>3. (i + d) + (Len(kept) - i) = n
    <3>1. \A x, y, z \in Nat : (z + x) + (y - z) = y + x
      OBVIOUS
    <3> QED  BY ONLY <1>0, <1>1, <3>1
  <2> QED  BY <1>3, <2>1, <2>2, <2>3
<1>6. Span(1, n) \in Seq(1..n) /\ Len(Span(1, n)) = n /\ \A k \in 1..n : Span(1, n)[k] = k
  <2>1. 1 \in Nat \ {0} /\ 1 <= n + 1
    OBVIOUS
  <2>2. /\ Span(1, n) \in Seq(1..n) /\ Len(Span(1, n)) = n - 1 + 1
        /\ \A k \in 1..(n - 1 + 1) : Span(1, n)[k] = 1 + k - 1
    BY <2>1, SpanOK
  <2> QED  BY <2>2
<1>7. ASSUME NEW k \in 1..n PROVE w[k] = k
  <2>1. CASE k <= i
    <3>1. k \in 1..i /\ k \in 1..(i + d)
      BY <1>0, <1>1, <2>1
    <3>2. w[k] = kept[k]
      BY <1>2, <1>4, <1>5, <3>1 DEF q
    <3> QED  BY <3>1, <3>2 DEF GapAt
  <2>2. CASE i < k /\ k <= i + d
    <3>1. k \in (i + 1)..(i + d) /\ k \in 1..(i + d) /\ k - i \in 1..d
      BY <1>0, <1>1, <2>2
    <3>2. w[k] = left[k - i]
      BY <1>4, <1>5, <3>1 DEF q
    <3>3. left[k - i] = i + (k - i)
      BY <3>1 DEF GapAt
    <3> QED  BY <1>1, <3>2, <3>3
  <2>3. CASE i + d < k
    <3>1. /\ k \in (i + d + 1)..n /\ k - (i + d) \in 1..(Len(kept) - i)
          /\ i + (k - (i + d)) = k - d /\ k - d \in (i + 1)..Len(kept)
      BY <1>0, <1>1, <2>3
    <3>2. w[k] = kept[k - d]
      BY <1>3, <1>5, <3>1
    <3>3. kept[k - d] = (k - d) + d
      BY <3>1 DEF GapAt
    <3> QED  BY <1>0, <3>2, <3>3
  <2>4. k <= i \/ (i < k /\ k <= i + d) \/ i + d < k
    BY <1>0, <1>1
  <2> QED  BY <2>1, <2>2, <2>3, <2>4
<1>8. w = Span(1, n)
  <2> HIDE DEF w
  <2> QED  BY <1>5, <1>6, <1>7, SeqEqual
<1> QED  BY <1>8 DEF p, t, q

\* A read into the reader, during the peek.
LEMMA GapReader ==
  ASSUME SeqTypes, NEW k \in Arrived, GapAt(buf, rbuf, taken, Len(buf))
  PROVE  GapAt(buf, rbuf \o Span(taken + 1, k), k, Len(buf))
<1> DEFINE r == Span(taken + 1, k)
           q == rbuf \o r
<1>0. rbuf \in Seq(1..taken) /\ buf \in Seq(1..taken) /\ Len(rbuf) \in Nat /\ Len(buf) \in Nat
  BY LenProperties DEF SeqTypes
<1>1. /\ taken \in Nat /\ k \in Nat /\ taken < k
      /\ rbuf \in Seq(1..k) /\ r \in Seq(1..k) /\ Len(r) = k - taken
      /\ \A j \in 1..(k - taken) : r[j] = taken + j
  BY <1>0, ReadOK
<1> HIDE DEF r
<1>2. /\ Len(q) = Len(rbuf) + (k - taken)
      /\ \A j \in 1..Len(rbuf) : q[j] = rbuf[j]
      /\ \A j \in (Len(rbuf) + 1)..(Len(rbuf) + (k - taken)) : q[j] = r[j - Len(rbuf)]
  <2>1. /\ Len(q) = Len(rbuf) + Len(r)
        /\ \A j \in 1..Len(rbuf) : q[j] = rbuf[j]
        /\ \A j \in (Len(rbuf) + 1)..(Len(rbuf) + Len(r)) : q[j] = r[j - Len(rbuf)]
    BY <1>1, JoinOK
  <2> QED  BY <1>1, <2>1
<1> HIDE DEF q
<1>3. Len(buf) + Len(rbuf) = taken
  BY DEF GapAt
<1>4. ASSUME NEW j \in 1..Len(q) PROVE q[j] = Len(buf) + j
  <2>1. CASE j <= Len(rbuf)
    <3>1. j \in 1..Len(rbuf)
      BY <1>0, <2>1
    <3> QED  BY <1>2, <3>1 DEF GapAt
  <2>2. CASE Len(rbuf) < j
    <3>1. /\ j \in (Len(rbuf) + 1)..(Len(rbuf) + (k - taken))
          /\ j - Len(rbuf) \in 1..(k - taken)
      BY <1>0, <1>1, <1>2, <2>2
    <3>2. q[j] = taken + (j - Len(rbuf))
      BY <1>1, <1>2, <3>1
    <3> QED  BY <1>0, <1>3, <3>2
  <2> QED  BY <1>0, <2>1, <2>2
<1>5. Len(buf) + Len(q) = k /\ Len(buf) \in 0..Len(buf)
  <2>1. /\ Len(q) = Len(rbuf) + (k - taken) /\ taken \in Nat /\ k \in Nat
        /\ Len(rbuf) \in Nat /\ Len(buf) \in Nat
    BY <1>0, <1>1, <1>2
  <2> QED  BY ONLY <1>3, <2>1
<1>6. /\ \A j \in 1..Len(buf) : buf[j] = j
      /\ \A j \in (Len(buf) + 1)..Len(buf) : buf[j] = j + Len(q)
  BY <1>0 DEF GapAt
<1> QED  BY <1>4, <1>5, <1>6 DEF GapAt, q, r

\* A line that goes from the reader to buf.
LEMMA GapLine ==
  ASSUME SeqTypes, NEW i \in 1..Len(rbuf), GapAt(buf, rbuf, taken, Len(buf)),
         NEW b, b = buf \o SubSeq(rbuf, 1, i), NEW r, r = SubSeq(rbuf, i + 1, Len(rbuf))
  PROVE  GapAt(b, r, taken, Len(b)) /\ Len(b) = Len(buf) + i
<1>0. /\ rbuf \in Seq(1..taken) /\ buf \in Seq(1..taken)
      /\ Len(rbuf) \in Nat /\ Len(buf) \in Nat /\ taken \in Nat
      /\ i \in Nat /\ 1 <= i /\ i <= Len(rbuf)
  <2>1. rbuf \in Seq(1..taken) /\ buf \in Seq(1..taken) /\ sent \in Seq(Kinds)
    BY DEF SeqTypes
  <2>2. Len(rbuf) \in Nat /\ Len(buf) \in Nat /\ Len(sent) \in Nat
    BY <2>1, LenProperties
  <2> QED  BY <2>1, <2>2 DEF SeqTypes
<1> DEFINE p == SubSeq(rbuf, 1, i)
<1>1. p \in Seq(1..taken) /\ Len(p) = i /\ \A k \in 1..i : p[k] = rbuf[k]
  BY <1>0, SplitOK
<1>2. Len(r) = Len(rbuf) - i /\ \A k \in 1..(Len(rbuf) - i) : r[k] = rbuf[i + k]
  BY <1>0, SplitOK
<1> HIDE DEF p
<1>3. /\ Len(b) = Len(buf) + i
      /\ \A k \in 1..Len(buf) : b[k] = buf[k]
      /\ \A k \in (Len(buf) + 1)..(Len(buf) + i) : b[k] = p[k - Len(buf)]
  <2>1. /\ Len(buf \o p) = Len(buf) + Len(p)
        /\ \A k \in 1..Len(buf) : (buf \o p)[k] = buf[k]
        /\ \A k \in (Len(buf) + 1)..(Len(buf) + Len(p)) : (buf \o p)[k] = p[k - Len(buf)]
    <3>1. buf \in Seq(1..taken) /\ p \in Seq(1..taken)
      BY <1>0, <1>1
    <3> QED  BY ONLY <3>1, JoinOK
  <2>2. b = buf \o p
    BY DEF p
  <2> QED  BY <1>1, <2>1, <2>2
<1>4. ASSUME NEW j \in 1..Len(b) PROVE b[j] = j
  <2>1. CASE j <= Len(buf)
    <3>1. j \in 1..Len(buf)
      BY <1>0, <2>1
    <3> QED  BY <1>3, <3>1 DEF GapAt
  <2>2. CASE Len(buf) < j
    <3>1. /\ j \in (Len(buf) + 1)..(Len(buf) + i) /\ j - Len(buf) \in 1..i
          /\ j - Len(buf) \in 1..Len(rbuf)
      BY <1>0, <1>3, <2>2
    <3>2. b[j] = rbuf[j - Len(buf)] /\ rbuf[j - Len(buf)] = Len(buf) + (j - Len(buf))
      BY <1>1, <1>3, <3>1 DEF GapAt
    <3> QED  BY <1>0, <3>2
  <2> QED  BY <1>0, <1>3, <2>1, <2>2
<1>5. ASSUME NEW j \in 1..Len(r) PROVE r[j] = Len(b) + j
  <2>1. j \in 1..(Len(rbuf) - i) /\ i + j \in 1..Len(rbuf) /\ j \in Nat
    BY <1>0, <1>2
  <2>2. r[j] = Len(buf) + (i + j)
    BY <1>2, <2>1 DEF GapAt
  <2> QED  BY <1>0, <1>3, <2>1, <2>2
<1>6. /\ Len(b) \in 0..Len(b) /\ Len(b) + Len(r) = taken
      /\ \A j \in (Len(b) + 1)..Len(b) : b[j] = j + Len(r)
  <2>1. Len(buf) + Len(rbuf) = taken
    BY DEF GapAt
  <2>2. Len(b) = Len(buf) + i /\ Len(r) = Len(rbuf) - i
    BY <1>2, <1>3
  <2>3. Len(b) \in 0..Len(b) /\ Len(b) + Len(r) = taken
    <3>1. Len(b) \in Nat
      BY ONLY <1>0, <2>2
    <3>2. Len(b) + Len(r) = taken
      <4>1. \A x, y, z \in Nat : z <= y => (x + z) + (y - z) = x + y
        OBVIOUS
      <4>2. Len(b) + Len(r) = (Len(buf) + i) + (Len(rbuf) - i)
        BY ONLY <2>2
      <4> QED  BY ONLY <1>0, <2>1, <4>1, <4>2
    <3> QED  BY ONLY <3>1, <3>2
  <2>4. \A j \in (Len(b) + 1)..Len(b) : FALSE
    BY ONLY <1>0, <2>2
  <2> QED  BY <2>3, <2>4
<1> QED  BY <1>3, <1>4, <1>5, <1>6 DEF GapAt

\* A read by the server or by the copy from the client.
LEMMA GapServer ==
  ASSUME SeqTypes, NEW k \in Arrived, NEW kept \in Seq(1..taken), NEW left \in Seq(1..taken),
         NEW i \in Nat, GapAt(kept, left, taken, i)
  PROVE  GapAt(kept \o Span(taken + 1, k), left, k, i)
<1> DEFINE r == Span(taken + 1, k)
           q == kept \o r
<1>0. Len(kept) \in Nat /\ Len(left) \in Nat
  BY LenProperties
<1>1. /\ taken \in Nat /\ k \in Nat /\ taken < k
      /\ kept \in Seq(1..k) /\ r \in Seq(1..k) /\ Len(r) = k - taken
      /\ \A j \in 1..(k - taken) : r[j] = taken + j
  BY ReadOK
<1> HIDE DEF r
<1>2. /\ Len(q) = Len(kept) + (k - taken)
      /\ \A j \in 1..Len(kept) : q[j] = kept[j]
      /\ \A j \in (Len(kept) + 1)..(Len(kept) + (k - taken)) : q[j] = r[j - Len(kept)]
  <2>1. /\ Len(q) = Len(kept) + Len(r)
        /\ \A j \in 1..Len(kept) : q[j] = kept[j]
        /\ \A j \in (Len(kept) + 1)..(Len(kept) + Len(r)) : q[j] = r[j - Len(kept)]
    BY <1>1, JoinOK
  <2> QED  BY <1>1, <2>1
<1> HIDE DEF q
<1>3. Len(kept) + Len(left) = taken /\ i <= Len(kept)
  BY <1>0 DEF GapAt
<1>4. ASSUME NEW j \in 1..i PROVE q[j] = j
  <2>1. j \in 1..Len(kept)
    BY <1>0, <1>3
  <2> QED  BY <1>2, <2>1 DEF GapAt
<1>5. ASSUME NEW j \in (i + 1)..Len(q) PROVE q[j] = j + Len(left)
  <2>1. CASE j <= Len(kept)
    <3>1. j \in (i + 1)..Len(kept) /\ j \in 1..Len(kept)
      BY <1>0, <2>1
    <3> QED  BY <1>2, <3>1 DEF GapAt
  <2>2. CASE Len(kept) < j
    <3>1. /\ j \in (Len(kept) + 1)..(Len(kept) + (k - taken))
          /\ j - Len(kept) \in 1..(k - taken)
      BY <1>0, <1>1, <1>2, <2>2
    <3>2. q[j] = taken + (j - Len(kept))
      BY <1>1, <1>2, <3>1
    <3> QED  BY <1>0, <1>3, <3>2
  <2> QED  BY <1>0, <2>1, <2>2
<1>6. i \in 0..Len(q) /\ Len(q) + Len(left) = k
  <2>1. /\ Len(q) = Len(kept) + (k - taken) /\ taken \in Nat /\ k \in Nat /\ taken < k
        /\ i \in Nat /\ Len(kept) \in Nat /\ Len(left) \in Nat
    BY <1>0, <1>1, <1>2
  <2>2. \A a, b, c, x, y, z \in Nat :
           a + b = x /\ x < y /\ z <= a /\ c = a + (y - x) => z \in 0..c /\ c + b = y
    OBVIOUS
  <2>3. Len(q) \in Nat
    BY ONLY <2>1
  <2> QED  BY ONLY <1>3, <2>1, <2>2, <2>3
<1>7. \A j \in 1..Len(left) : left[j] = i + j
  BY DEF GapAt
<1> QED  BY <1>4, <1>5, <1>6, <1>7 DEF GapAt, q, r

\* The types that the steps below need.
LEMMA SeqFacts ==
  ASSUME SeqTypes
  PROVE  /\ sent \in Seq(Kinds) /\ rbuf \in Seq(1..taken) /\ buf \in Seq(1..taken)
         /\ lost \in Seq(1..taken) /\ srv \in Seq(1..taken)
         /\ Len(sent) \in Nat /\ Len(rbuf) \in Nat /\ Len(buf) \in Nat /\ Len(lost) \in Nat
         /\ taken \in Nat /\ taken <= Len(sent)
<1>1. /\ sent \in Seq(Kinds) /\ rbuf \in Seq(1..taken) /\ buf \in Seq(1..taken)
      /\ lost \in Seq(1..taken) /\ srv \in Seq(1..taken)
  BY DEF SeqTypes
<1>2. Len(sent) \in Nat /\ Len(rbuf) \in Nat /\ Len(buf) \in Nat /\ Len(lost) \in Nat
  BY <1>1, LenProperties
<1> QED  BY <1>1, <1>2 DEF SeqTypes

\* During the peek srv and lost are empty, so the second part of StreamOK
\* gives the first.
LEMMA PeekGap ==
  ASSUME NEW m \in Nat, NEW b \in Seq(1..m), NEW r \in Seq(1..m), GapAt(b, r, m, Len(b))
  PROVE  \E i \in Nat : GapAt(<<>> \o b, <<>> \o r, m, i)
<1>1. <<>> \o b = b /\ <<>> \o r = r
  BY ConcatEmptySeq
<1>2. Len(b) \in Nat
  BY LenProperties
<1> QED  BY <1>1, <1>2

\* The peek, the hand-over and both ways of reading on keep the stream whole.
LEMMA NextStream == ConnOK /\ StreamOK /\ [Next]_vars => StreamOK'
<1> SUFFICES ASSUME ConnOK, StreamOK, [Next]_vars PROVE StreamOK'
  OBVIOUS
<1>0. SeqTypes /\ SeqTypes'
  BY TypeParts, NextSeqTypes DEF ConnOK
<1>q. /\ rbuf \in Seq(1..taken) /\ buf \in Seq(1..taken)
      /\ lost \in Seq(1..taken) /\ srv \in Seq(1..taken)
      /\ Len(rbuf) \in Nat /\ Len(buf) \in Nat /\ taken \in Nat
  BY <1>0, SeqFacts
<1>peek. ASSUME st = "peek"
         PROVE  srv = <<>> /\ lost = <<>> /\ GapAt(buf, rbuf, taken, Len(buf))
  BY <1>peek DEF ConnOK, PhaseOK, StreamOK
<1>grow. ASSUME buf = <<>>, rbuf = <<>>, st \in {"local", "fwd"}, NEW k \in Arrived,
                srv' = srv \o Span(taken + 1, k), taken' = k, UNCHANGED <<buf, rbuf, lost, st>>
         PROVE  StreamOK'
  <2>1. PICK i \in Nat : GapAt(srv \o buf, lost \o rbuf, taken, i)
    BY DEF StreamOK
  <2>2. srv \o buf = srv /\ lost \o rbuf = lost
    BY <1>grow, <1>q, ConcatEmptySeq
  <2>3. GapAt(srv, lost, taken, i)
    BY <2>1, <2>2
  <2>4. GapAt(srv \o Span(taken + 1, k), lost, k, i)
    BY <1>0, <1>q, <1>grow, <2>3, GapServer
  <2>5. srv' \in Seq(1..k)
    BY <1>0, <1>grow DEF SeqTypes
  <2>6. srv' \o buf' = srv' /\ lost' \o rbuf' = lost
    BY <1>grow, <2>2, <2>5, ConcatEmptySeq
  <2>7. GapAt(srv' \o buf', lost' \o rbuf', taken', i)
    BY <1>grow, <2>4, <2>6
  <2> QED  BY <1>grow, <2>7 DEF StreamOK
<1>same. ASSUME srv' \o buf' = srv \o buf, lost' \o rbuf' = lost \o rbuf, taken' = taken,
                st' \notin {"peek", "route"}
         PROVE  StreamOK'
  <2>1. PICK i \in Nat : GapAt(srv \o buf, lost \o rbuf, taken, i)
    BY DEF StreamOK
  <2>2. GapAt(srv' \o buf', lost' \o rbuf', taken', i)
    BY <1>same, <2>1
  <2> QED  BY <1>same, <2>2 DEF StreamOK
<1>1. ASSUME PeekFill PROVE StreamOK'
  <2>1. PICK k \in Arrived : rbuf' = rbuf \o Span(taken + 1, k) /\ taken' = k
    BY <1>1 DEF PeekFill
  <2>2. st = "peek" /\ UNCHANGED <<buf, lost, srv, st>>
    BY <1>1 DEF PeekFill
  <2>3. GapAt(buf', rbuf', taken', Len(buf'))
    <3>1. GapAt(buf, rbuf \o Span(taken + 1, k), k, Len(buf))
      BY <1>0, <1>peek, <2>2, GapReader
    <3> QED  BY <2>1, <2>2, <3>1
  <2>4. k \in Nat
    BY <1>0, <1>q, ReadOK
  <2>5. taken' \in Nat /\ buf' \in Seq(1..taken') /\ rbuf' \in Seq(1..taken')
    BY <1>0, <2>1, <2>4 DEF SeqTypes
  <2>6. \E i \in Nat : GapAt(<<>> \o buf', <<>> \o rbuf', taken', i)
    BY <2>3, <2>5, PeekGap
  <2> QED  BY <1>peek, <2>2, <2>3, <2>6 DEF StreamOK
<1>2. ASSUME PeekLine PROVE StreamOK'
  <2>1. PICK i \in 1..Len(rbuf) : /\ buf' = buf \o SubSeq(rbuf, 1, i)
                                  /\ rbuf' = SubSeq(rbuf, i + 1, Len(rbuf))
    BY <1>2 DEF PeekLine
  <2>2. st = "peek" /\ UNCHANGED <<taken, lost, srv>>
    BY <1>2 DEF PeekLine
  <2>3. GapAt(buf', rbuf', taken, Len(buf'))
    BY <1>0, <1>peek, <2>1, <2>2, GapLine
  <2>5. buf' \in Seq(1..taken) /\ rbuf' \in Seq(1..taken)
    BY <1>0, <2>2 DEF SeqTypes
  <2>6. \E j \in Nat : GapAt(<<>> \o buf', <<>> \o rbuf', taken, j)
    BY <1>q, <2>3, <2>5, PeekGap
  <2> QED  BY <1>peek, <2>2, <2>3, <2>6 DEF StreamOK
<1>3. ASSUME Route PROVE StreamOK'
  <2>1. /\ srv = <<>> /\ lost = <<>>
        /\ lost' = rbuf /\ rbuf' = <<>> /\ taken' = taken /\ st' \in {"local", "fwd"}
        /\ (srv' = buf /\ buf' = <<>>) \/ UNCHANGED <<srv, buf>>
    BY <1>3 DEF Route, HandOver, ConnOK, PhaseOK
  <2>2. buf \o <<>> = buf /\ <<>> \o buf = buf /\ rbuf \o <<>> = rbuf /\ <<>> \o rbuf = rbuf
    BY <1>q, ConcatEmptySeq
  <2>3. srv' \o buf' = srv \o buf /\ lost' \o rbuf' = lost \o rbuf
    BY <2>1, <2>2
  <2> QED  BY <1>same, <2>1, <2>3
<1>4. ASSUME LocalRead PROVE StreamOK'
  <2>1. st = "local" /\ UNCHANGED <<rbuf, lost, st>>
    BY <1>4 DEF LocalRead
  <2>2. CASE buf # <<>>
    <3>1. PICK k \in 1..Len(buf) : /\ srv' = srv \o SubSeq(buf, 1, k)
                                   /\ buf' = SubSeq(buf, k + 1, Len(buf))
                                   /\ UNCHANGED taken
      BY <1>4, <2>2 DEF LocalRead
    <3> DEFINE p == SubSeq(buf, 1, k)
               r == SubSeq(buf, k + 1, Len(buf))
    <3>2. /\ k \in Nat /\ k <= Len(buf)
          /\ 1 \in 1..Len(buf) + 1 /\ k \in (1 - 1)..Len(buf) /\ Len(buf) \in k..Len(buf)
      BY <1>q
    <3>3. p \in Seq(1..taken) /\ r \in Seq(1..taken)
      BY <1>q, <3>2, SplitOK
    <3>4. p \o r = buf
      <4>1. p \o r = SubSeq(buf, 1, Len(buf))
        BY <1>q, <3>2, ConcatAdjacentSubSeq
      <4> QED  BY <1>q, <4>1, SubSeqFull
    <3> HIDE DEF p, r
    <3>5. (srv \o p) \o r = srv \o (p \o r)
      <4>1. srv \in Seq(1..taken) /\ p \in Seq(1..taken) /\ r \in Seq(1..taken)
        BY <1>q, <3>3
      <4> QED  BY ONLY <4>1, ConcatAssociative
    <3>6. srv' \o buf' = srv \o buf
      BY <3>1, <3>4, <3>5 DEF p, r
    <3> QED  BY <1>same, <2>1, <3>1, <3>6
  <2>3. CASE buf = <<>>
    <3>1. PICK k \in Arrived : /\ srv' = srv \o Span(taken + 1, k) /\ taken' = k
                               /\ UNCHANGED buf
      BY <1>4, <2>3 DEF LocalRead
    <3>2. rbuf = <<>>
      BY <2>1 DEF ConnOK, PhaseOK
    <3> QED  BY <1>grow, <2>1, <2>3, <3>1, <3>2
  <2> QED  BY <2>2, <2>3
<1>5. ASSUME CopyUp PROVE StreamOK'
  <2>1. PICK k \in Arrived : srv' = srv \o Span(taken + 1, k) /\ taken' = k
    BY <1>5 DEF CopyUp
  <2>2. st = "fwd" /\ UNCHANGED <<rbuf, buf, lost, st>>
    BY <1>5 DEF CopyUp
  <2>3. buf = <<>> /\ rbuf = <<>>
    BY <2>2 DEF ConnOK, TypeOK, PhaseOK
  <2> QED  BY <1>grow, <2>1, <2>2, <2>3
<1>6. ASSUME UNCHANGED <<taken, rbuf, buf, lost, srv>>,
             st' \in {"peek", "route"} => st \in {"peek", "route"}
      PROVE  StreamOK'
  BY <1>6 DEF StreamOK
<1>7. ASSUME \/ \E k \in Kinds : Write(k)
             \/ ClientReads \/ ClientEnds \/ PeekStops \/ DialFails \/ Answer
             \/ ServerEnds \/ LocalEnds \/ CopyDown \/ CopyEnds \/ UNCHANGED vars
      PROVE  StreamOK'
  BY <1>6, <1>7 DEF Write, ClientReads, ClientEnds, PeekStops, DialFails, Answer, ServerEnds,
     LocalEnds, CopyDown, CopyEnds, vars, upVars
<1> QED  BY <1>1, <1>2, <1>3, <1>4, <1>5, <1>7 DEF Next

LEMMA InitStream == Init => StreamOK
<1> SUFFICES ASSUME Init PROVE StreamOK
  OBVIOUS
<1>1. <<>> \in Seq({}) /\ Len(<<>>) = 0
  BY EmptySeq
<1>2. GapAt(<<>>, <<>>, 0, 0)
  BY <1>1 DEF GapAt
<1>3. <<>> \o <<>> = <<>>
  BY <1>1, ConcatEmptySeq
<1>4. GapAt(<<>> \o <<>>, <<>> \o <<>>, 0, 0)
  BY <1>2, <1>3
<1>5. /\ srv = <<>> /\ buf = <<>> /\ lost = <<>> /\ rbuf = <<>> /\ taken = 0
  BY DEF Init
<1> QED  BY <1>1, <1>2, <1>4, <1>5 DEF StreamOK

\* Whatever the peek reads ahead and however the connection goes on, the server
\* gets the client's bytes once and in order, with at most one gap, and the gap
\* is what the reader held at the hand-over.
THEOREM OneGapCorrect == Spec => []OneGap
<1>1. Spec => [](ConnOK /\ StreamOK)
  BY InitConn, NextConn, InitStream, NextStream, PTL DEF Spec
<1>2. ConnOK /\ StreamOK => OneGap
  <2> SUFFICES ASSUME ConnOK, StreamOK PROVE OneGap
    OBVIOUS
  <2>1. PICK i \in Nat : GapAt(srv \o buf, lost \o rbuf, taken, i)
    BY DEF StreamOK
  <2>2. SeqTypes
    BY TypeParts DEF ConnOK
  <2>3. srv \o buf \in Seq(1..taken) /\ lost \o rbuf \in Seq(1..taken) /\ taken \in Nat
    BY <2>2, SeqFacts, ConcatProperties
  <2> DEFINE kept == srv \o buf
             left == lost \o rbuf
  <2>4. i \in 0..Len(kept)
    BY <2>1 DEF GapAt
  <2> HIDE DEF kept, left
  <2>5. SubSeq(kept, 1, i) \o left \o SubSeq(kept, i + 1, Len(kept)) = Span(1, taken)
    BY <2>1, <2>3, GapWhole DEF kept, left
  <2> QED  BY <2>4, <2>5 DEF OneGap, kept, left
<1> QED  BY <1>1, <1>2, PTL

-----------------------------------------------------------------------------
(* The headers *)

\* The deadline, the limit and the end of a request are the three ways to leave
\* the peek; only the limit leaves a whole line of the headers behind.
LEMMA NextHeaders == ConnOK /\ StreamOK /\ HeadersOK /\ [Next]_vars => HeadersOK'
<1> SUFFICES ASSUME ConnOK, StreamOK, HeadersOK, [Next]_vars PROVE HeadersOK'
  OBVIOUS
<1>0. SeqTypes
  BY TypeParts DEF ConnOK
<1>q. /\ sent \in Seq(Kinds) /\ rbuf \in Seq(1..taken) /\ buf \in Seq(1..taken)
      /\ lost \in Seq(1..taken)
      /\ Len(sent) \in Nat /\ Len(rbuf) \in Nat /\ Len(buf) \in Nat /\ Len(lost) \in Nat
      /\ taken \in Nat /\ taken <= Len(sent)
  BY <1>0, SeqFacts
<1>gap. ASSUME st \in {"peek", "route"}
        PROVE  /\ Len(lost) = 0
               /\ Len(buf) + Len(rbuf) = taken
               /\ \A j \in 1..Len(rbuf) : rbuf[j] = Len(buf) + j
  <2>1. lost = <<>> /\ GapAt(buf, rbuf, taken, Len(buf))
    BY <1>gap DEF ConnOK, PhaseOK, StreamOK
  <2> QED  BY <2>1, EmptySeq DEF GapAt
<1>1. ASSUME NEW k \in Kinds, Write(k) PROVE HeadersOK'
  <2>1. sent' = Append(sent, k) /\ UNCHANGED <<st, taken, rbuf, buf, lost>>
    BY <1>1 DEF Write, upVars
  <2>2. \A j \in 1..Len(sent) : sent'[j] = sent[j]
    BY <1>q, <2>1, AppendProperties
  <2>3. \A j \in 1..taken : j \in 1..Len(sent)
    BY <1>q
  <2>4. \A i \in 1..Len(rbuf) : sent'[rbuf[i]] = sent[rbuf[i]]
    <3>1. \A i \in 1..Len(rbuf) : rbuf[i] \in 1..taken
      BY <1>q, ElementOfSeq
    <3> QED  BY <2>2, <2>3, <3>1
  <2>5. ASSUME st = "route", Len(buf) < MaxPeek
        PROVE  NoLine' \/ (1 <= Len(buf) /\ sent'[Len(buf)] = "end")
    <3>1. CASE NoLine
      BY <2>1, <2>4, <3>1 DEF NoLine
    <3>2. CASE 1 <= Len(buf) /\ sent[Len(buf)] = "end"
      <4>1. Len(buf) \in 1..Len(sent)
        <5>1. Len(buf) + Len(rbuf) = taken
          BY <1>gap, <2>5
        <5> QED  BY ONLY <1>q, <3>2, <5>1
      <4> QED  BY <2>2, <3>2, <4>1
    <3> QED  BY <2>5, <3>1, <3>2 DEF HeadersOK
  <2>6. HeadersKept'
    <3> SUFFICES ASSUME NEW i \in 1..Len(lost), lost[1] <= MaxPeek, sent'[lost[i]] # "frag"
                 PROVE  \E j \in 1..(lost[i] - 1) : sent'[j] = "end"
      BY <2>1 DEF HeadersKept
    <3>1. lost[i] \in 1..taken
      BY <1>q, ElementOfSeq
    <3>2. sent[lost[i]] # "frag"
      BY <2>2, <2>3, <3>1
    <3>3. PICK j \in 1..(lost[i] - 1) : sent[j] = "end"
      BY <3>2 DEF HeadersOK, HeadersKept
    <3>4. j \in 1..Len(sent)
      BY ONLY <1>q, <3>1, j \in 1..(lost[i] - 1)
    <3> QED  BY <2>2, <3>3, <3>4
  <2> QED  BY <2>1, <2>5, <2>6 DEF HeadersOK
<1>none. ASSUME Len(lost) = 0, UNCHANGED lost PROVE HeadersKept'
  <2>1. \A i \in 1..Len(lost') : FALSE
    BY <1>none
  <2> QED  BY <2>1 DEF HeadersKept
<1>2. ASSUME PeekFill PROVE HeadersOK'
  <2>1. st = "peek" /\ UNCHANGED <<lost, st>>
    BY <1>2 DEF PeekFill
  <2> QED  BY <1>gap, <1>none, <2>1 DEF HeadersOK
<1>3. ASSUME PeekLine PROVE HeadersOK'
  <2>1. PICK i \in 1..Len(rbuf) :
          /\ buf' = buf \o SubSeq(rbuf, 1, i)
          /\ rbuf' = SubSeq(rbuf, i + 1, Len(rbuf))
          /\ st' = IF sent[rbuf[i]] = "end" \/ Len(buf') >= MaxPeek THEN "route" ELSE "peek"
    BY <1>3 DEF PeekLine
  <2>2. st = "peek" /\ UNCHANGED <<sent, taken, lost>>
    BY <1>3 DEF PeekLine, clientVars
  <2>3. HeadersKept'
    BY <1>gap, <1>none, <2>2
  <2>4. ASSUME st' = "route", Len(buf') < MaxPeek
        PROVE  1 <= Len(buf') /\ sent'[Len(buf')] = "end"
    <3>1. GapAt(buf, rbuf, taken, Len(buf))
      BY <2>2 DEF StreamOK
    <3>2. Len(buf') = Len(buf) + i
      BY <1>0, <2>1, <3>1, GapLine
    <3>3. Len(buf') \in Nat /\ 1 <= Len(buf') /\ ~(Len(buf') >= MaxPeek)
      BY <1>q, <2>4, <3>2, PeekAssumption
    <3>4. sent[rbuf[i]] = "end"
      BY <2>1, <2>4, <3>3
    <3>5. rbuf[i] = Len(buf')
      BY <1>gap, <2>2, <3>2
    <3> QED  BY <2>2, <3>3, <3>4, <3>5
  <2> QED  BY <2>3, <2>4 DEF HeadersOK
<1>4. ASSUME PeekStops PROVE HeadersOK'
  <2>1. st = "peek" /\ NoLine /\ UNCHANGED <<sent, rbuf, buf, lost>>
    BY <1>4 DEF PeekStops, clientVars, upVars
  <2>2. NoLine'
    BY <2>1 DEF NoLine
  <2> QED  BY <1>gap, <1>none, <2>1, <2>2 DEF HeadersOK
<1>5. ASSUME Route PROVE HeadersOK'
  <2>1. st = "route" /\ st' \in {"local", "fwd"} /\ lost' = rbuf /\ UNCHANGED sent
    BY <1>5 DEF Route, HandOver, clientVars
  <2>2. ASSUME NEW i \in 1..Len(rbuf), rbuf[1] <= MaxPeek, sent[rbuf[i]] # "frag"
        PROVE  \E j \in 1..(rbuf[i] - 1) : sent[j] = "end"
    <3>1. 1 \in 1..Len(rbuf) /\ i \in Nat /\ 1 <= i
      BY <1>q
    <3>2. rbuf[1] = Len(buf) + 1 /\ rbuf[i] = Len(buf) + i
      BY <1>gap, <2>1, <3>1
    <3>3. Len(buf) < MaxPeek
      BY ONLY <1>q, <2>2, <3>2, PeekAssumption
    <3>4. ~NoLine
      BY <2>2 DEF NoLine
    <3>5. 1 <= Len(buf) /\ sent[Len(buf)] = "end"
      BY <2>1, <3>3, <3>4 DEF HeadersOK
    <3>6. Len(buf) \in 1..(rbuf[i] - 1)
      BY ONLY <1>q, <3>1, <3>2, <3>5
    <3> QED  BY <3>5, <3>6
  <2>3. HeadersKept'
    BY <2>1, <2>2 DEF HeadersKept
  <2> QED  BY <2>1, <2>3 DEF HeadersOK
<1>6. ASSUME UNCHANGED <<sent, lost>>, st' # "route" PROVE HeadersOK'
  BY <1>6 DEF HeadersOK, HeadersKept
<1>7. ASSUME UNCHANGED <<sent, lost, rbuf, buf, st>> PROVE HeadersOK'
  BY <1>7 DEF HeadersOK, HeadersKept, NoLine
<1>8. ASSUME DialFails \/ LocalRead \/ LocalEnds \/ CopyUp \/ CopyEnds PROVE HeadersOK'
  BY <1>6, <1>8 DEF DialFails, LocalRead, LocalEnds, CopyUp, CopyEnds, clientVars, upVars
<1>9. ASSUME ClientReads \/ ClientEnds \/ Answer \/ ServerEnds \/ CopyDown \/ UNCHANGED vars
      PROVE  HeadersOK'
  BY <1>7, <1>9 DEF ClientReads, ClientEnds, Answer, ServerEnds, CopyDown, vars,
     clientVars, upVars
<1> QED  BY <1>1, <1>2, <1>3, <1>4, <1>5, <1>8, <1>9 DEF Next

\* However a client writes and however its bytes arrive, the hand-over loses no
\* whole line of the headers of its first request, as long as they fit into the
\* limit of the peek.
THEOREM HeadersCorrect == Spec => []HeadersKept
<1>1. Init => HeadersOK
  <2> SUFFICES ASSUME Init PROVE HeadersOK
    OBVIOUS
  <2>1. lost = <<>> /\ st = "peek" /\ Len(<<>>) = 0
    BY EmptySeq DEF Init
  <2>2. \A i \in 1..Len(lost) : FALSE
    BY <2>1
  <2> QED  BY <2>1, <2>2 DEF HeadersOK, HeadersKept
<1>2. Spec => [](ConnOK /\ StreamOK /\ HeadersOK)
  BY <1>1, InitConn, NextConn, InitStream, NextStream, NextHeaders, PTL DEF Spec
<1>3. HeadersOK => HeadersKept
  BY DEF HeadersOK
<1> QED  BY <1>2, <1>3, PTL

=============================================================================
