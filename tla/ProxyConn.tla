----------------------------- MODULE ProxyConn ------------------------------
(***************************************************************************)
(* The bytes of one client connection in pkg/rtspsrv: what proxyListener   *)
(* peeks, how bufferedConn or a forwarding pair of copy goroutines hands   *)
(* it on, and how the two ends of a forwarded connection close.            *)
(*                                                                         *)
(* The client's stream is a sequence of pieces: a "line" and an "end" run  *)
(* up to a newline, an "end" also ends the blank line after the headers of *)
(* a request, and a "frag" has no newline (a part of a line or of a body). *)
(* Pieces are known by their position in the stream.  TCP delivers any     *)
(* number of those that have been sent.  The upward direction never fills  *)
(* up, since the RTSP server reads; downward the client may stop to read.  *)
(* Which node owns the topic is OwnerRouting's matter: here it is open.    *)
(***************************************************************************)
EXTENDS Integers, Sequences, FiniteSets

CONSTANTS
  MaxPeek,    \* pieces in buf at which the peek stops (8192 bytes)
  Window,     \* answers the client's socket takes before the client reads
  MaxSent     \* bound on the pieces a client sends

ASSUME PeekAssumption == MaxPeek \in Nat \ {0}
ASSUME WindowAssumption == Window \in Nat \ {0}
ASSUME SentAssumption == MaxSent \in Nat

VARIABLES
  sent,       \* the kinds of the pieces the client has written
  cEnd,       \* the client has closed its side
  got,        \* answers it has read
  st,         \* what the listener does with the connection
  taken,      \* pieces read from the client's socket
  rbuf,       \* those in bufio.Reader
  buf,        \* those in buf, later in bufferedConn
  lost,       \* history: those left in bufio.Reader when it was given up
  srv,        \* those that have reached the RTSP server
  sEnd,       \* the server has closed its side, or its connection was reset
  down,       \* answers on the way to the copy goroutine
  back        \* answers in the client's socket

clientVars == <<sent, cEnd>>
upVars == <<taken, rbuf, buf, lost, srv>>
downVars == <<down, back, got>>
vars == <<clientVars, upVars, downVars, st, sEnd>>

Kinds == {"line", "end", "frag"}
Span(i, j) == [k \in 1..(j - i + 1) |-> i + k - 1]
Arrived == taken + 1 .. Len(sent)
Requests(q) == Cardinality({i \in 1..Len(q) : sent[q[i]] = "end"})

Init ==
  /\ sent = <<>> /\ cEnd = FALSE /\ got = 0
  /\ st = "peek" /\ taken = 0
  /\ rbuf = <<>> /\ buf = <<>> /\ lost = <<>> /\ srv = <<>>
  /\ sEnd = "no" /\ down = 0 /\ back = 0

-----------------------------------------------------------------------------
(* The client *)

Write(k) ==
  /\ ~cEnd /\ st # "closed" /\ Len(sent) < MaxSent
  /\ sent' = Append(sent, k)
  /\ UNCHANGED <<cEnd, upVars, downVars, st, sEnd>>

ClientReads ==
  /\ back > 0
  /\ back' = back - 1 /\ got' = got + 1
  /\ UNCHANGED <<clientVars, upVars, down, st, sEnd>>

ClientEnds ==
  /\ ~cEnd /\ st # "closed"
  /\ cEnd' = TRUE
  /\ UNCHANGED <<sent, upVars, downVars, st, sEnd>>

-----------------------------------------------------------------------------
(* The peek *)

\* i is the place of the first newline in the reader.
EndsLine(i) == sent[rbuf[i]] # "frag" /\ \A j \in 1..(i - 1) : sent[rbuf[j]] = "frag"
NoLine == \A i \in 1..Len(rbuf) : sent[rbuf[i]] = "frag"

\* ReadBytes asks the socket for more only when it has no whole line.
PeekFill ==
  /\ st = "peek" /\ NoLine
  /\ \E k \in Arrived : rbuf' = rbuf \o Span(taken + 1, k) /\ taken' = k
  /\ UNCHANGED <<clientVars, buf, lost, srv, downVars, st, sEnd>>

PeekLine ==
  /\ st = "peek"
  /\ \E i \in 1..Len(rbuf) :
       /\ EndsLine(i)
       /\ buf' = buf \o SubSeq(rbuf, 1, i)
       /\ rbuf' = SubSeq(rbuf, i + 1, Len(rbuf))
       /\ st' = IF sent[rbuf[i]] = "end" \/ Len(buf') >= MaxPeek THEN "route" ELSE "peek"
  /\ UNCHANGED <<clientVars, taken, lost, srv, downVars, sEnd>>

\* The deadline passes or the client's side ends: ReadBytes returns an error,
\* and the part of a line that it returns with it is not used.
PeekStops ==
  /\ st = "peek" /\ NoLine
  /\ st' = "route"
  /\ UNCHANGED <<clientVars, upVars, downVars, sEnd>>

\* (Mutant: the connection is handed over without what was peeked.)
HandOverBare(to) ==
  /\ st = "route" /\ st' = to
  /\ lost' = buf \o rbuf /\ rbuf' = <<>> /\ buf' = <<>>
  /\ UNCHANGED <<clientVars, taken, srv, downVars, sEnd>>
\* (Mutant: what the owner was sent stays in buf.)
HandOverTwice(to) ==
  /\ st = "route" /\ st' = to
  /\ lost' = rbuf /\ rbuf' = <<>>
  /\ IF to = "fwd" THEN srv' = buf ELSE UNCHANGED srv
  /\ UNCHANGED <<clientVars, taken, buf, downVars, sEnd>>

\* To the local server with buf in a bufferedConn, or buf to the owner that was
\* dialled.  The reader is given up with all it holds.
HandOver(to) ==
  /\ st = "route" /\ st' = to
  /\ lost' = rbuf /\ rbuf' = <<>>
  /\ IF to = "fwd" THEN srv' = buf /\ buf' = <<>> ELSE UNCHANGED <<srv, buf>>
  /\ UNCHANGED <<clientVars, taken, downVars, sEnd>>

Route == HandOver("local") \/ (buf # <<>> /\ HandOver("fwd"))

\* The client is sent a 503.
DialFails ==
  /\ st = "route" /\ buf # <<>>
  /\ st' = "closed" /\ back' = back + 1
  /\ UNCHANGED <<clientVars, upVars, down, got, sEnd>>

-----------------------------------------------------------------------------
(* The RTSP server, here or at the owner *)

\* bufferedConn.Read: first the buffer, then the connection.
LocalRead ==
  /\ st = "local" /\ sEnd = "no"
  /\ IF buf # <<>>
     THEN \E k \in 1..Len(buf) : /\ srv' = srv \o SubSeq(buf, 1, k)
                                 /\ buf' = SubSeq(buf, k + 1, Len(buf))
                                 /\ UNCHANGED taken
     ELSE \E k \in Arrived : /\ srv' = srv \o Span(taken + 1, k)
                             /\ taken' = k
                             /\ UNCHANGED buf
  /\ UNCHANGED <<clientVars, rbuf, lost, downVars, st, sEnd>>

Answer ==
  /\ sEnd = "no" /\ Requests(srv) > down + back + got
  /\ \/ st = "local" /\ back < Window /\ back' = back + 1 /\ UNCHANGED down
     \/ st = "fwd" /\ down' = down + 1 /\ UNCHANGED back
  /\ UNCHANGED <<clientVars, upVars, got, st, sEnd>>

\* A server that closes while its socket holds something it has not read
\* resets the connection instead.
ServerEnds ==
  /\ sEnd = "no" /\ st \in {"local", "fwd"}
  /\ \/ sEnd' = "closed"
     \/ st = "fwd" /\ srv # <<>> /\ sEnd' = "reset"
  /\ UNCHANGED <<clientVars, upVars, downVars, st>>

LocalEnds ==
  /\ st = "local"
  /\ sEnd # "no" \/ (cEnd /\ buf = <<>> /\ taken = Len(sent))
  /\ st' = "closed"
  /\ UNCHANGED <<clientVars, upVars, downVars, sEnd>>

-----------------------------------------------------------------------------
(* The two copy goroutines *)

CopyUp ==
  /\ st = "fwd" /\ sEnd = "no"
  /\ \E k \in Arrived : srv' = srv \o Span(taken + 1, k) /\ taken' = k
  /\ UNCHANGED <<clientVars, rbuf, buf, lost, downVars, st, sEnd>>

CopyDown ==
  /\ st = "fwd" /\ down > 0 /\ back < Window
  /\ down' = down - 1 /\ back' = back + 1
  /\ UNCHANGED <<clientVars, upVars, got, st, sEnd>>

\* The copy from the client sees its end, or fails to write to the server; the
\* copy from the server sees its end, or a reset, which may discard what was on
\* the way, or fails to write to the client.
UpDone == (cEnd /\ taken = Len(sent)) \/ (sEnd # "no" /\ taken < Len(sent))
DownDone == (sEnd = "closed" /\ down = 0) \/ sEnd = "reset" \/ (cEnd /\ down > 0)

\* (Mutants: one of the copies leaves the connections open.)
OnlyDown == DownDone
OnlyUp == UpDone

CopyDone == UpDone \/ DownDone

\* Whichever ends first closes both connections, and what was on the way to
\* the client is gone.
CopyEnds ==
  /\ st = "fwd" /\ CopyDone
  /\ st' = "closed" /\ down' = 0
  /\ UNCHANGED <<clientVars, upVars, back, got, sEnd>>

-----------------------------------------------------------------------------

Next ==
  \/ \E k \in Kinds : Write(k)
  \/ ClientReads \/ ClientEnds
  \/ PeekFill \/ PeekLine \/ PeekStops \/ Route \/ DialFails
  \/ LocalRead \/ Answer \/ ServerEnds \/ LocalEnds
  \/ CopyUp \/ CopyDown \/ CopyEnds

Spec == Init /\ [][Next]_vars

\* The copy goroutines are scheduled.  Nobody has to write, read or close.
Fairness == WF_vars(CopyUp \/ CopyEnds) /\ WF_vars(CopyDown)

FairSpec == Spec /\ Fairness

-----------------------------------------------------------------------------
(* Properties *)

TypeOK ==
  /\ sent \in Seq(Kinds) /\ Len(sent) <= MaxSent
  /\ cEnd \in BOOLEAN /\ sEnd \in {"no", "closed", "reset"}
  /\ st \in {"peek", "route", "local", "fwd", "closed"}
  /\ taken \in 0..Len(sent)
  /\ \A q \in {rbuf, buf, lost, srv} : q \in Seq(1..taken)
  /\ got \in Nat /\ down \in Nat /\ back \in 0..Window
  /\ buf # <<>> => st # "fwd"

\* What the server reads is what the client wrote, once and in order, but for
\* one gap: put back in its place, what the reader held at the hand-over makes
\* the stream whole.  (buf with the reader, bufferedConn.Read, both copies.)
OneGap ==
  LET kept == srv \o buf
      left == lost \o rbuf
  IN  \E i \in 0..Len(kept) :
        SubSeq(kept, 1, i) \o left \o SubSeq(kept, i + 1, Len(kept)) = Span(1, taken)

\* proxy_listener.go:35-44: when the peek has not stopped at its limit, a whole
\* line is lost only if it comes after the blank line of a request: of the
\* headers by which the owner is found, nothing but a line that the deadline
\* has cut.  (A body, or a second request, may well be lost: ReplayComplete.)
HeadersKept ==
  \A i \in 1..Len(lost) :
    lost[1] <= MaxPeek /\ sent[lost[i]] # "frag" => \E j \in 1..(lost[i] - 1) : sent[j] = "end"

\* When the client goes, both connections of a forwarded client are closed.
ClientEndPropagates == (st = "fwd" /\ cEnd) ~> st = "closed"

\* When the owner closes, they are as well, provided the client reads: the
\* connections have no idle timeout (server.go:38 is set and never used).
ServerEndPropagates ==
  []<>(back < Window) => ((st = "fwd" /\ sEnd # "no") ~> st = "closed")

-----------------------------------------------------------------------------
\* buffered_conn.go:8 "provides initial bytes that were already read from the
\* connection so the upper layers can consume them": not those that the reader
\* holds beyond the last whole line.
ReplayComplete == lost = <<>>
=============================================================================
