------------------------- MODULE PublisherRegistry -------------------------
(***************************************************************************)
(* What the publisher side of the relay promises, seen from outside: a     *)
(* topic has at most one publisher, a session publishes to at most one     *)
(* topic, at most MaxPublishers sessions publish at a time, and only the   *)
(* session that was given a topic gives it back.                           *)
(*                                                                         *)
(* holder is what the topic manager believes, claim what the RTSP sessions *)
(* believe.  TopicManager.tla implements this module although there the    *)
(* two are changed by different steps of different components.             *)
(***************************************************************************)
EXTENDS Integers, FiniteSets

CONSTANTS Sessions, Topics, NoSession, NoTopic, MaxPublishers

VARIABLES holder, claim

vars == <<holder, claim>>

Init ==
  /\ holder = [t \in Topics |-> NoSession]
  /\ claim = [s \in Sessions |-> NoTopic]

Taken == {t \in Topics : holder[t] # NoSession}

\* MaxPublishers = 0 means that the number of publishers is not limited.
Quota == MaxPublishers > 0 => Cardinality(Taken) < MaxPublishers

Acquire(s, t) ==
  /\ claim[s] = NoTopic
  /\ holder[t] = NoSession
  /\ Quota
  /\ claim' = [claim EXCEPT ![s] = t]
  /\ holder' = [holder EXCEPT ![t] = s]

Release(s, t) ==
  /\ claim[s] = t
  /\ holder[t] = s
  /\ claim' = [claim EXCEPT ![s] = NoTopic]
  /\ holder' = [holder EXCEPT ![t] = NoSession]

Next == \E s \in Sessions, t \in Topics : Acquire(s, t) \/ Release(s, t)

Spec == Init /\ [][Next]_vars
=============================================================================
