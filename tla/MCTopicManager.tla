--------------------------- MODULE MCTopicManager ---------------------------
(***************************************************************************)
(* Instances of TopicManager for TLC.                                      *)
(***************************************************************************)
EXTENDS TopicManager, TLC

\* Sessions of one listener, and topics, are interchangeable.
Symmetry ==
  Permutations(PubPort) \cup Permutations(Sessions \ PubPort) \cup Permutations(Topics)
=============================================================================
